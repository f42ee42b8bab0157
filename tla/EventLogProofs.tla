--------------------------- MODULE EventLogProofs ----------------------------
(* Proofs about EventLog: the page and its polls, for any number of        *)
(* writers, overlapping polls, failures and restarts.                      *)
EXTENDS EventLog, SequenceTheorems, TLAPS

(* What makes NothingShownComesBack inductive: the page has asked for all  *)
(* it has shown up to lastSince, a poll's since is that bound at the time  *)
(* it was sent, and its answer lies beyond the bound.                      *)
ShownUpToSince == \A e \in seen : e.ts <= lastSince

PollFits(p) ==
  /\ \A e \in polls[p].seenBefore : e.ts <= polls[p].since
  /\ \A e \in polls[p].events : e.ts > polls[p].since

PollInv == TypeOK /\ ShownUpToSince /\ \A p \in Polls : PollFits(p)

(* An answer is made of lines of the file that pass the filter.            *)
LEMMA AnswerType ==
  ASSUME TypeOK, NEW since \in Nat
  PROVE  /\ read_recent_events(since) \in SUBSET Event
         /\ \A e \in read_recent_events(since) : e.ts > since
<1>1. Window \subseteq DOMAIN file
  BY DEF Window, LastPositions
<1>2. \A i \in DOMAIN file : file[i] \in Event
  BY DEF TypeOK
<1>3. \A e \in read_recent_events(since) :
        \E i \in Window : e = file[i] /\ Passes(file[i], since)
  BY DEF read_recent_events, LastPositions
<1> QED BY <1>1, <1>2, <1>3 DEF Passes

(* The types, initially.                                                   *)
LEMMA InitPoll == Init => PollInv
  BY DEF Init, PollInv, TypeOK, ShownUpToSince, PollFits, NoPoll, Poll

(* A step of the page or of anything else keeps PollInv.                   *)
LEMMA NextPoll == PollInv /\ [Next]_vars => PollInv'
<1> SUFFICES ASSUME PollInv, [Next]_vars
             PROVE  PollInv'
  OBVIOUS
<1> USE DEF PollInv, ShownUpToSince, PollFits
<1>1. CASE Tick
  BY <1>1 DEF Tick, TypeOK
<1>2. CASE Log
  <2>1. CASE Stamp
    BY <2>1 DEF Stamp, TypeOK
  <2>2. CASE AppendLine
    <3>1. PICK i \in DOMAIN stamped :
            /\ file' = Append(file, [id |-> written + 1, ts |-> stamped[i]])
            /\ stamped' = RemoveAt(stamped, i)
      BY <2>2 DEF AppendLine
    <3>2. stamped' \in Seq(Nat \ {0})
      <4>1. stamped \in Seq(Nat \ {0}) /\ Len(stamped) \in Nat
            /\ i \in 1..Len(stamped)
        BY <3>1 DEF TypeOK
      <4>2. SubSeq(stamped, 1, i - 1) \in Seq(Nat \ {0})
        BY <4>1, SubSeqProperties
      <4>3. SubSeq(stamped, i + 1, Len(stamped)) \in Seq(Nat \ {0})
        BY <4>1, SubSeqProperties
      <4> QED BY <3>1, <4>2, <4>3 DEF RemoveAt
    <3>3. [id |-> written + 1, ts |-> stamped[i]] \in Event
      BY <3>1 DEF TypeOK, Event
    <3> QED BY <2>2, <3>1, <3>2, <3>3 DEF AppendLine, TypeOK
  <2> QED BY <1>2, <2>1, <2>2 DEF Log
<1>3. ASSUME NEW p \in Polls, Follow(p) \/ FailPoll(p)
      PROVE  PollInv'
  <2>1. CASE Send(p)
    BY <2>1 DEF Send, TypeOK, Poll
  <2>2. CASE AnswerPoll(p)
    <3>1. polls[p].since \in Nat
      BY DEF TypeOK, Poll
    <3>2. /\ read_recent_events(polls[p].since) \in SUBSET Event
          /\ \A e \in read_recent_events(polls[p].since) :
               e.ts > polls[p].since
      BY <3>1, AnswerType
    <3>3. TypeOK'
      BY <2>2, <3>2 DEF AnswerPoll, TypeOK, Poll
    <3> QED BY <2>2, <3>2, <3>3 DEF AnswerPoll, TypeOK, Poll
  <2>3. CASE Show(p)
    <3>1. polls[p].events \in SUBSET Event /\ lastSince \in Nat
      BY DEF TypeOK, Poll
    <3>2. PICK t \in Times(polls[p].events) \union {lastSince} :
            /\ \A u \in Times(polls[p].events) \union {lastSince} : t >= u
            /\ lastSince' = t
      BY <2>3 DEF Show, Advance, Newest
    <3>3. t \in Nat /\ t >= lastSince /\ \A e \in polls[p].events : t >= e.ts
      BY <3>1, <3>2 DEF Times, Event
    <3>4. TypeOK'
      BY <2>3, <3>1, <3>2, <3>3 DEF Show, TypeOK, NoPoll, Poll
    <3>5. ShownUpToSince'
      BY <2>3, <3>1, <3>2, <3>3 DEF Show, TypeOK, Event
    <3> QED BY <2>3, <3>4, <3>5 DEF Show, NoPoll, TypeOK
  <2>4. CASE FailPoll(p)
    BY <2>4 DEF FailPoll, NoPoll, TypeOK, Poll
  <2> QED BY <1>3, <2>1, <2>2, <2>3, <2>4 DEF Follow
<1>4. CASE Restart
  BY <1>4 DEF Restart, NoPoll, TypeOK, Poll
<1>5. CASE UNCHANGED vars
  BY <1>5 DEF vars, TypeOK
<1> QED BY <1>1, <1>2, <1>3, <1>4, <1>5 DEF Next

(* PollInv holds in every behaviour.                                       *)
LEMMA PollInvariance == Spec => []PollInv
<1> QED BY InitPoll, NextPoll, PTL DEF Spec

(* Every variable of the log and of the page keeps its type.               *)
THEOREM EventLogTypeCorrect == Spec => []TypeOK
<1>1. PollInv => TypeOK
  BY DEF PollInv
<1> QED BY <1>1, PollInvariance, PTL

(* However polls overlap and whatever is written meanwhile, an answer      *)
(* never brings back an event the page had shown when it asked             *)
(* (_read_recent_events' strict comparison, pollLogs' lastSince).          *)
THEOREM NothingShownComesBackAlways == Spec => []NothingShownComesBack
<1>1. PollInv => NothingShownComesBack
  BY DEF PollInv, PollFits, NothingShownComesBack, TypeOK, Poll, Event
<1> QED BY <1>1, PollInvariance, PTL

(* No answer, however late, moves the page's lastSince back.               *)
THEOREM SinceNeverRetreatsEver == Spec => SinceNeverRetreats
<1>1. PollInv /\ [Next]_vars => [lastSince' >= lastSince]_vars
  <2> SUFFICES ASSUME PollInv, Next
               PROVE  lastSince' >= lastSince
    OBVIOUS
  <2>1. lastSince \in Nat
    BY DEF PollInv, TypeOK
  <2>2. ASSUME NEW p \in Polls, Show(p)
        PROVE  lastSince' >= lastSince
    BY <2>1, <2>2 DEF Show, Advance, Newest
  <2>3. (\A p \in Polls : ~Show(p)) => lastSince' = lastSince
    BY DEF Next, Tick, Log, Stamp, AppendLine, Follow, Send, AnswerPoll,
           FailPoll, Restart
  <2> QED BY <2>1, <2>2, <2>3
<1> QED BY <1>1, PollInvariance, PTL DEF Spec, SinceNeverRetreats
=============================================================================
