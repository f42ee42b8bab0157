------------------------------ MODULE EventLog -------------------------------
(***************************************************************************)
(* The matchmaker's event log and the admin page that follows it.          *)
(*                                                                         *)
(* A request thread stamps its event with the time and only then takes the *)
(* log's lock, so the lines of the file need not be in the order of their  *)
(* stamps, and stamps may be equal.  The page polls with the largest stamp *)
(* it has shown; it does not wait for one poll to end before the next, so  *)
(* answers may come back out of order.                                     *)
(*                                                                         *)
(* An event is its stamp, in milliseconds of the model, and a serial       *)
(* number that stands for the rest of the line.  An answer is the set of   *)
(* its events: the page replaces its text by it and computes a maximum.    *)
(***************************************************************************)
EXTENDS Integers, FiniteSets, SequencesExt

CONSTANTS
  Polls,        (* polls that may be in flight at once                     *)
  Limit,        (* the limit the page asks for                             *)
  MaxPending,   (* bound of the model: threads that log at once            *)
  MaxEvents,    (* bound of the model: events ever logged                  *)
  MaxTime,      (* bound of the model: the clock stops there               *)
  MaxFaults     (* bound of the model: polls that fail and restarts of the *)
                (* matchmaker, together                                    *)

Event == [id : Nat, ts : Nat \ {0}]

ASSUME EventLogAssumption ==
  /\ Limit \in Nat \ {0}
  /\ MaxPending \in Nat /\ MaxEvents \in Nat /\ MaxTime \in Nat
  /\ MaxFaults \in Nat

VARIABLES
  now,        (* the clock; it starts at 1                                 *)
  file,       (* the lines of logs/matchmaker/<pid>.jsonl                  *)
  stamped,    (* the stamps of the threads that have yet to write, in the  *)
              (* order they were taken                                     *)
  polls,      (* poll -> its phase, its since and the answer               *)
  lastSince,  (* the page's lastSince; 0 is null                           *)
  written,    (* lines written so far, by any process                      *)
  faults      (* failed polls and restarts so far                          *)

(* What has been on the page; no part of the program.                      *)
VARIABLE seen

vars == <<now, file, stamped, polls, lastSince, written, faults, seen>>

(* seenBefore is history too: what the page had shown when it sent a poll. *)
Poll == [phase : {"none", "sent", "answered"}, since : Nat,
         events : SUBSET Event, seenBefore : SUBSET Event]

NoPoll == [phase |-> "none", since |-> 0, events |-> {}, seenBefore |-> {}]

TypeOK ==
  /\ now \in Nat \ {0}
  /\ file \in Seq(Event)
  /\ stamped \in Seq(Nat \ {0})
  /\ polls \in [Polls -> Poll]
  /\ lastSince \in Nat
  /\ seen \in SUBSET Event
  /\ written \in Nat /\ faults \in Nat

Init ==
  /\ now = 1
  /\ file = <<>>
  /\ stamped = <<>>
  /\ polls = [p \in Polls |-> NoPoll]
  /\ lastSince = 0
  /\ seen = {}
  /\ written = 0 /\ faults = 0

Tick ==
  /\ now < MaxTime
  /\ now' = now + 1
  /\ UNCHANGED <<file, stamped, polls, lastSince, written, faults, seen>>

-----------------------------------------------------------------------------
(* _log_event                                                              *)

Stamp ==
  /\ Len(stamped) < MaxPending
  /\ written + Len(stamped) < MaxEvents
  /\ stamped' = Append(stamped, now)
  /\ UNCHANGED <<now, file, polls, lastSince, written, faults, seen>>

AppendLine ==
  /\ \E i \in DOMAIN stamped :
       /\ file' = Append(file, [id |-> written + 1, ts |-> stamped[i]])
       /\ stamped' = RemoveAt(stamped, i)
  /\ written' = written + 1
  /\ UNCHANGED <<now, polls, lastSince, faults, seen>>

-----------------------------------------------------------------------------
(* _read_recent_events: of the last 4 * Limit lines, those stamped after   *)
(* since, and of these the last Limit.  It takes no lock; a line is        *)
(* written whole.                                                          *)

LastPositions(S, n) == {i \in S : Cardinality({j \in S : j >= i}) <= n}

(* Mutant: no over-read.                                                   *)
Window_exact == LastPositions(DOMAIN file, Limit)

Window == LastPositions(DOMAIN file, Limit * 4)

(* Mutant: the boundary event comes back.                                  *)
Passes_boundary(e, since) == e.ts >= since

Passes(e, since) == e.ts > since

read_recent_events(since) ==
  {file[i] : i \in LastPositions({j \in Window : Passes(file[j], since)}, Limit)}

-----------------------------------------------------------------------------
(* pollLogs                                                                *)

Send(p) ==
  /\ polls[p].phase = "none"
  /\ polls' = [polls EXCEPT ![p] = [phase |-> "sent", since |-> lastSince,
                                    events |-> {}, seenBefore |-> seen]]
  /\ UNCHANGED <<now, file, stamped, lastSince, written, faults, seen>>

AnswerPoll(p) ==
  /\ polls[p].phase = "sent"
  /\ polls' = [polls EXCEPT ![p].phase = "answered",
                            ![p].events = read_recent_events(polls[p].since)]
  /\ UNCHANGED <<now, file, stamped, lastSince, written, faults, seen>>

Newest(t, times) == t \in times /\ \A u \in times : t >= u

Times(events) == {e.ts : e \in events}

(* Mutant: the page does not compare with the lastSince it has.            *)
Advance_unguarded(events) ==
  IF events = {} THEN UNCHANGED lastSince
  ELSE \E t \in Times(events) : Newest(t, Times(events)) /\ lastSince' = t

(* Mutant: a margin for ties, also where nothing has been shown.           *)
Advance_margin(events) ==
  \E t \in Times(events) \union {lastSince} :
    Newest(t, Times(events) \union {lastSince}) /\ lastSince' = t - 1

Advance(events) ==
  \E t \in Times(events) \union {lastSince} :
    Newest(t, Times(events) \union {lastSince}) /\ lastSince' = t

(* The page is replaced by the answer, or says that there is nothing new.  *)
Show(p) ==
  /\ polls[p].phase = "answered"
  /\ seen' = seen \union polls[p].events
  /\ Advance(polls[p].events)
  /\ polls' = [polls EXCEPT ![p] = NoPoll]
  /\ UNCHANGED <<now, file, stamped, written, faults>>

(* The fetch throws; the page keeps what it has.                           *)
FailPoll(p) ==
  /\ polls[p].phase # "none"
  /\ faults < MaxFaults
  /\ faults' = faults + 1
  /\ polls' = [polls EXCEPT ![p] = NoPoll]
  /\ UNCHANGED <<now, file, stamped, lastSince, written, seen>>

(* A new process has a new file; the polls it has not answered fail.       *)
Restart ==
  /\ faults < MaxFaults
  /\ faults' = faults + 1
  /\ file' = <<>>
  /\ stamped' = <<>>
  /\ polls' = [p \in Polls |->
                 IF polls[p].phase = "sent" THEN NoPoll ELSE polls[p]]
  /\ UNCHANGED <<now, lastSince, written, seen>>

-----------------------------------------------------------------------------
Log == Stamp \/ AppendLine

Follow(p) == Send(p) \/ AnswerPoll(p) \/ Show(p)

Next ==
  \/ Tick
  \/ Log
  \/ \E p \in Polls : Follow(p) \/ FailPoll(p)
  \/ Restart

Spec == Init /\ [][Next]_vars

(* setInterval never stops polling, and a poll that does not fail ends.    *)
FairSpec ==
  Spec /\ \A p \in Polls : WF_vars(Send(p)) /\ WF_vars(AnswerPoll(p))
                           /\ WF_vars(Show(p))

-----------------------------------------------------------------------------
(* A poll never brings back what the page had shown when it was sent, not  *)
(* even the event at the boundary, although events with the same stamp may *)
(* be written at any time.                                                 *)
NothingShownComesBack ==
  \A p \in Polls : polls[p].events \intersect polls[p].seenBefore = {}

(* However the answers of overlapping polls are ordered, the page never    *)
(* asks for an earlier time than before.                                   *)
SinceNeverRetreats == [][lastSince' >= lastSince]_vars

Lines == {file[i] : i \in DOMAIN file}

(* The last 4 * Limit lines, which is as far back as an answer can reach.  *)
Recent == {file[i] : i \in {i \in DOMAIN file : i > Len(file) - 4 * Limit}}

(* A line is shown some day unless the page has moved past its stamp, or   *)
(* 4 * Limit later lines have been written, or the file is gone: a line    *)
(* that stays within an answer's reach is not lost to bursts beyond the    *)
(* limit, to lines out of order, to failed or to overlapping polls.        *)
ShownOrOvertaken ==
  \A n \in 1..MaxEvents, t \in 1..MaxTime :
    LET e == [id |-> n, ts |-> t]
    IN  e \in Recent ~> (e \in seen \/ lastSince >= t \/ e \notin Recent)

(* "/api/logs?since=<ts> filters never hit the same-second tie race": the  *)
(* page has shown every line it will not ask for again.                    *)
NoneOvertaken == \A e \in Lines : e.ts <= lastSince => e \in seen
=============================================================================
