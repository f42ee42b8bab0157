----------------------------- MODULE StackProofs ------------------------------
(***************************************************************************)
(* Proofs about LocalStack, for every window, timeout and bound: first of  *)
(* the game server and its matchmaker, then of the launcher window, then   *)
(* of the two together.                                                    *)
(***************************************************************************)
EXTENDS LocalStack, SequenceTheorems, TLAPS

-----------------------------------------------------------------------------
(* The game server.  A matchmaker that does not know the token has no row  *)
(* and has stamped nothing; nothing is stored or on its way before the     *)
(* loop; a stamp in flight is no older than its request; and the age of    *)
(* the row is bounded by what the beats missed since, and the place in the *)
(* loop, add up to.                                                        *)

Slack(m) == m * (HeartbeatS + Timeout) + Timeout

RowNeedsToken ==
  ~session => age = TTL /\ lateStamps = <<>> /\ req # "stamped"

NothingBeforeLoop ==
  phase \in {"health", "auth", "bind"} => ~fresh

TimersBounded ==
  /\ phase = "sleeping" => timer <= HeartbeatS
  /\ phase = "beating" => timer <= Timeout
  /\ phase = "beating" /\ req = "stamped" => reqAge <= timer

AgeWithin ==
  fresh /\ misses < MaxMisses =>
    /\ phase = "sleeping" => age + timer <= Slack(misses) + HeartbeatS
    /\ phase = "loop" => age <= Slack(misses) + HeartbeatS
    /\ phase = "beating" =>
         age <= timer + (IF req = "stored" THEN 0
                         ELSE Slack(misses) + HeartbeatS)

ServerInv == GameServerTypeOK /\ RowNeedsToken /\ NothingBeforeLoop
               /\ TimersBounded /\ AgeWithin

LEMMA SlackGrows ==
  ASSUME NEW m \in Nat
  PROVE  /\ Slack(m) \in Nat /\ Slack(m) >= Timeout
         /\ Slack(m + 1) = Slack(m) + HeartbeatS + Timeout
         /\ Slack(m) + HeartbeatS + Timeout
              = (m + 1) * (HeartbeatS + Timeout) + Timeout
<1> DEFINE w == HeartbeatS + Timeout
<1>1. w \in Nat /\ Timeout \in Nat /\ HeartbeatS \in Nat
  BY GameServerAssumption
<1>2. m * w \in Nat
  BY <1>1
<1>3. (m + 1) * w = m * w + w
  BY <1>1
<1> QED BY <1>1, <1>2, <1>3 DEF Slack

LEMMA ServerInvInit ==
  ASSUME GameServerInit \/ JustStopped
  PROVE  ServerInv
<1>1. CASE GameServerInit
  <2>1. GameServerTypeOK
    <3>1. /\ timer \in Nat /\ age \in 0..TTL /\ misses \in 0..MaxMisses
          /\ faults \in 0..MaxFaults /\ restarts \in 0..MaxRestarts
          /\ late \in Nat /\ reqAge \in 0..TTL
      BY <1>1, GameServerAssumption DEF GameServerInit
    <3>2. /\ durable \in BOOLEAN /\ up \in BOOLEAN /\ session \in BOOLEAN
          /\ stop \in BOOLEAN /\ fresh \in BOOLEAN
          /\ lateStamps \in Seq(0..TTL)
      BY <1>1, EmptySeq DEF GameServerInit
    <3> QED BY <1>1, <3>1, <3>2 DEF GameServerInit, GameServerTypeOK
  <2>2. /\ age = TTL /\ ~fresh /\ lateStamps = <<>> /\ phase = "health"
        /\ req = "none"
    BY <1>1 DEF GameServerInit
  <2> QED BY <2>1, <2>2 DEF ServerInv, RowNeedsToken, NothingBeforeLoop,
                            TimersBounded, AgeWithin
<1>2. CASE JustStopped
  <2>1. GameServerTypeOK
    <3>1. TTL - 1 \in 0..TTL /\ TTL \in 0..TTL /\ 0 \in 0..TTL
      BY GameServerAssumption
    <3>2. lateStamps \in Seq(0..TTL)
      <4>1. CASE lateStamps = <<>>
        BY <4>1, EmptySeq
      <4>2. CASE lateStamps = <<TTL - 1>>
        BY <3>1, <4>2
      <4> QED BY <1>2, <4>1, <4>2 DEF JustStopped
    <3> QED BY <1>2, <3>1, <3>2, GameServerAssumption
            DEF JustStopped, GameServerTypeOK
  <2>2. session /\ phase = "exited"
    BY <1>2 DEF JustStopped
  <2> QED BY <2>1, <2>2 DEF ServerInv, RowNeedsToken, NothingBeforeLoop,
                            TimersBounded, AgeWithin
<1> QED BY <1>1, <1>2

(* Giving a request up, and storing one of those given up.                 *)
LEMMA GivenUp ==
  ASSUME GameServerTypeOK, GiveUp
  PROVE  late' \in Nat /\ lateStamps' \in Seq(0..TTL)
<1>1. late' \in Nat
  BY DEF GameServerTypeOK, GiveUp
<1>2. Append(lateStamps, reqAge) \in Seq(0..TTL)
  BY AppendProperties DEF GameServerTypeOK
<1> QED BY <1>1, <1>2 DEF GameServerTypeOK, GiveUp

LEMMA RemovedStamp ==
  ASSUME GameServerTypeOK, NEW i \in DOMAIN lateStamps
  PROVE  /\ lateStamps[i] \in 0..TTL
         /\ RemoveAt(lateStamps, i) \in Seq(0..TTL)
         /\ lateStamps # <<>>
<1>1. lateStamps \in Seq(0..TTL) /\ DOMAIN lateStamps = 1..Len(lateStamps)
  BY LenProperties DEF GameServerTypeOK
<1>2. i \in Nat /\ 1 <= i /\ i <= Len(lateStamps) /\ Len(lateStamps) \in Nat
  BY <1>1, LenProperties
<1> DEFINE n == Len(lateStamps)
<1>3. SubSeq(lateStamps, 1, i - 1) \in Seq(0..TTL)
  <2>1. \A j \in 1..(i - 1) : lateStamps[j] \in 0..TTL
    <3>1. 1..(i - 1) \subseteq 1..n
      BY <1>2
    <3> QED BY <1>1, <3>1, ElementOfSeq
  <2>2. 1 \in Int /\ i - 1 \in Int
    BY <1>2
  <2> QED BY <2>1, <2>2, SubSeqProperties
<1>4. SubSeq(lateStamps, i + 1, n) \in Seq(0..TTL)
  <2>1. \A j \in (i + 1)..n : lateStamps[j] \in 0..TTL
    <3>1. (i + 1)..n \subseteq 1..n
      BY <1>2
    <3> QED BY <1>1, <3>1, ElementOfSeq
  <2>2. i + 1 \in Int /\ n \in Int
    BY <1>2
  <2> HIDE DEF n
  <2> QED BY <2>1, <2>2, SubSeqProperties
<1>5. RemoveAt(lateStamps, i) \in Seq(0..TTL)
  BY <1>3, <1>4, ConcatProperties DEF RemoveAt
<1>6. lateStamps[i] \in 0..TTL
  BY <1>1, ElementOfSeq
<1>7. lateStamps # <<>>
  <2>1. Len(<<>>) = 0
    BY EmptySeq
  <2> QED BY <1>2, <2>1
<1> QED BY <1>5, <1>6, <1>7

LEMMA OlderStays ==
  ASSUME NEW a \in 0..TTL
  PROVE  Older(a) \in 0..TTL /\ Older(a) <= a + 1
BY GameServerAssumption DEF Older

LEMMA OlderStamps ==
  ASSUME GameServerTypeOK, Tick
  PROVE  /\ lateStamps' \in Seq(0..TTL)
         /\ lateStamps = <<>> => lateStamps' = <<>>
<1>1. lateStamps \in Seq(0..TTL) /\ DOMAIN lateStamps = 1..Len(lateStamps)
      /\ Len(lateStamps) \in Nat
  BY LenProperties DEF GameServerTypeOK
<1>2. lateStamps' = [i \in 1..Len(lateStamps) |-> Older(lateStamps[i])]
  BY <1>1 DEF Tick
<1>3. \A i \in 1..Len(lateStamps) : Older(lateStamps[i]) \in 0..TTL
  BY <1>1, ElementOfSeq, OlderStays
<1>4. lateStamps' \in Seq(0..TTL)
  BY <1>1, <1>2, <1>3, IsASeq
<1>5. ASSUME lateStamps = <<>> PROVE lateStamps' = <<>>
  <2>1. DOMAIN lateStamps' = 1..0
    BY <1>1, <1>2, <1>5, EmptySeq
  <2>2. Len(lateStamps') = 0
    BY <1>4, <2>1, LenProperties
  <2> QED BY <1>4, <2>2, EmptySeq
<1> QED BY <1>4, <1>5

(* One step per action.                                                    *)
LEMMA ServerTypes ==
  ASSUME GameServerTypeOK, [GameServerNext]_gameServerVars
  PROVE  GameServerTypeOK'
<1> USE GameServerAssumption DEF GameServerTypeOK, matchmakerVars, processVars,
        Exit, GoTo
<1>1. CASE ProcessNext
  <2>1. CASE WaitForHealth
    BY <2>1 DEF WaitForHealth
  <2>2. CASE RegisterThenLogin
    <3>1. CASE up /\ session' = TRUE /\ GoTo("bind")
      BY <2>2, <3>1 DEF RegisterThenLogin
    <3>2. CASE Exit("1") /\ UNCHANGED session
      BY <2>2, <3>2 DEF RegisterThenLogin
    <3> QED BY <2>2, <3>1, <3>2 DEF RegisterThenLogin
  <2>3. CASE BindUdp
    BY <2>3 DEF BindUdp
  <2>4. CASE SendBeat
    BY <2>4 DEF SendBeat
  <2>5. CASE LeaveLoop
    BY <2>5 DEF LeaveLoop
  <2>6. CASE BeatEnds
    BY <2>6 DEF BeatEnds, FallAsleep
  <2>7. CASE Wake
    BY <2>7 DEF Wake
  <2> QED BY <1>1, <2>1, <2>2, <2>3, <2>4, <2>5, <2>6, <2>7 DEF ProcessNext
<1>2. CASE BeatTimesOut
  BY <1>2, GivenUp DEF BeatTimesOut, FallAsleep
<1>3. CASE SleepRaises \/ Signal \/ Kill
  <2>1. CASE SleepRaises
    BY <2>1 DEF SleepRaises
  <2>2. CASE Signal
    BY <2>2 DEF Signal, InLoop
  <2>3. CASE Kill
    BY <2>3, GivenUp DEF Kill
  <2> QED BY <1>3, <2>1, <2>2, <2>3
<1>4. CASE MatchmakerAnswers
  <2>1. CASE StampBeat
    BY <2>1 DEF StampBeat
  <2>2. CASE AnswerBeat
    BY <2>2 DEF AnswerBeat
  <2>3. CASE FailBeat
    BY <2>3 DEF FailBeat
  <2>4. CASE StampLate
    <3>1. late' \in Nat
      BY <2>4 DEF StampLate
    <3>2. Append(lateStamps, 0) \in Seq(0..TTL)
      BY AppendProperties
    <3>3. lateStamps' \in Seq(0..TTL)
      BY <2>4, <3>2 DEF StampLate
    <3> QED BY <2>4, <3>1, <3>3 DEF StampLate
  <2>5. CASE StoreLate
    <3>1. PICK i \in DOMAIN lateStamps :
            /\ age' = lateStamps[i]
            /\ lateStamps' = RemoveAt(lateStamps, i)
            /\ fresh' = (fresh /\ lateStamps[i] <= age)
            /\ UNCHANGED <<durable, up, session, late, restarts, processVars,
                           misses, faults>>
      BY <2>5 DEF StoreLate
    <3>2. age' \in 0..TTL /\ lateStamps' \in Seq(0..TTL)
      BY <3>1, RemovedStamp
    <3>3. fresh' \in BOOLEAN
      BY <3>1
    <3> QED BY <3>1, <3>2, <3>3
  <2> QED BY <1>4, <2>1, <2>2, <2>3, <2>4, <2>5 DEF MatchmakerAnswers
<1>5. CASE MatchmakerDies
  <2>1. session' \in BOOLEAN /\ fresh' \in BOOLEAN
    BY <1>5 DEF MatchmakerDies
  <2>2. age' \in 0..TTL /\ misses' \in 0..MaxMisses
    BY <1>5 DEF MatchmakerDies
  <2>3. /\ req' \in {"none", "sent", "stamped", "stored", "failed"}
        /\ req' # "none" <=> phase' = "beating"
        /\ reqAge' \in 0..TTL
    BY <1>5 DEF MatchmakerDies, DropRequest
  <2>4. up' \in BOOLEAN
    BY <1>5 DEF MatchmakerDies
  <2>5. /\ late' \in Nat /\ restarts' \in 0..MaxRestarts
        /\ lateStamps' \in Seq(0..TTL)
    BY <1>5, EmptySeq DEF MatchmakerDies, DropRequest
  <2>6. UNCHANGED <<durable, phase, timer, stop, exit, faults>>
    BY <1>5 DEF MatchmakerDies
  <2> QED BY <2>1, <2>2, <2>3, <2>4, <2>5, <2>6
<1>6. CASE MatchmakerStarts
  BY <1>6 DEF MatchmakerStarts
<1>7. CASE Tick
  <2>1. timer' \in Nat
    BY <1>7 DEF Tick
  <2>2. age' \in 0..TTL /\ reqAge' \in 0..TTL
    BY <1>7, OlderStays DEF Tick
  <2>3. lateStamps' \in Seq(0..TTL)
    BY <1>7, OlderStamps
  <2> QED BY <1>7, <2>1, <2>2, <2>3 DEF Tick
<1>8. CASE UNCHANGED gameServerVars
  BY <1>8 DEF gameServerVars
<1> QED BY <1>1, <1>2, <1>3, <1>4, <1>5, <1>6, <1>7, <1>8 DEF GameServerNext

(* What the death of the matchmaker does, with its booleans apart.         *)
LEMMA DeathFacts ==
  ASSUME GameServerTypeOK, MatchmakerDies
  PROVE  /\ durable => /\ session' = session /\ age' = age /\ fresh' = fresh
                       /\ misses' = misses
         /\ ~durable => ~session' /\ age' = TTL /\ ~fresh'
         /\ lateStamps' = <<>> /\ timer' = timer /\ phase' = phase
         /\ req' # "stamped"
         /\ req' = "stored" <=> req = "stored"
<1>1. CASE durable
  <2>1. age' = age /\ misses' = misses
    BY <1>1 DEF MatchmakerDies
  <2>2. session' = session /\ fresh' = fresh
    BY <1>1 DEF MatchmakerDies, GameServerTypeOK
  <2>3. /\ lateStamps' = <<>> /\ timer' = timer /\ phase' = phase
        /\ req' # "stamped"
        /\ req' = "stored" <=> req = "stored"
    BY DEF MatchmakerDies, DropRequest
  <2> QED BY <1>1, <2>1, <2>2, <2>3
<1>2. CASE ~durable
  <2>1. age' = TTL
    BY <1>2 DEF MatchmakerDies
  <2>2. ~session' /\ ~fresh'
    BY <1>2 DEF MatchmakerDies
  <2>3. /\ lateStamps' = <<>> /\ timer' = timer /\ phase' = phase
        /\ req' # "stamped"
        /\ req' = "stored" <=> req = "stored"
    BY DEF MatchmakerDies, DropRequest
  <2> QED BY <1>2, <2>1, <2>2, <2>3
<1> QED BY <1>1, <1>2

LEMMA RowStep ==
  ASSUME ServerInv, [GameServerNext]_gameServerVars
  PROVE  RowNeedsToken' /\ NothingBeforeLoop'
<1> USE DEF ServerInv, RowNeedsToken, NothingBeforeLoop, matchmakerVars,
            processVars, Exit, GoTo
<1>1. CASE ProcessNext
  BY <1>1, GameServerAssumption
     DEF ProcessNext, WaitForHealth, RegisterThenLogin, BindUdp, SendBeat,
         LeaveLoop, BeatEnds, Wake, FallAsleep, GameServerTypeOK
<1>2. CASE BeatTimesOut \/ SleepRaises \/ Signal \/ Kill
  BY <1>2 DEF BeatTimesOut, SleepRaises, Signal, Kill, InLoop, FallAsleep,
              GiveUp, GameServerTypeOK
<1>3. CASE StampBeat \/ AnswerBeat \/ FailBeat \/ StampLate
  BY <1>3 DEF StampBeat, AnswerBeat, FailBeat, StampLate, GameServerTypeOK
<1>4. CASE StoreLate
  <2>1. PICK i \in DOMAIN lateStamps :
          /\ fresh' = (fresh /\ lateStamps[i] <= age)
          /\ UNCHANGED <<session, phase>>
    BY <1>4 DEF StoreLate
  <2>2. session
    BY <2>1, RemovedStamp
  <2> QED BY <2>1, <2>2
<1>5. CASE MatchmakerDies
  BY <1>5, DeathFacts
<1>6. CASE MatchmakerStarts
  BY <1>6 DEF MatchmakerStarts
<1>7. CASE Tick
  <2>1. ~session => lateStamps' = <<>>
    BY <1>7, OlderStamps
  <2>2. age = TTL => age' = TTL
    BY <1>7, GameServerAssumption DEF Tick, Older
  <2> QED BY <1>7, <2>1, <2>2 DEF Tick
<1>8. CASE UNCHANGED gameServerVars
  BY <1>8 DEF gameServerVars
<1> QED BY <1>1, <1>2, <1>3, <1>4, <1>5, <1>6, <1>7, <1>8
           DEF GameServerNext, MatchmakerAnswers

LEMMA TimersStep ==
  ASSUME ServerInv, [GameServerNext]_gameServerVars
  PROVE  TimersBounded'
<1> USE GameServerAssumption
    DEF ServerInv, TimersBounded, GameServerTypeOK, matchmakerVars,
        processVars, Exit, GoTo
<1>1. CASE ProcessNext
  BY <1>1 DEF ProcessNext, WaitForHealth, RegisterThenLogin, BindUdp,
              SendBeat, LeaveLoop, BeatEnds, Wake, FallAsleep
<1>2. CASE BeatTimesOut \/ SleepRaises \/ Signal \/ Kill
  BY <1>2 DEF BeatTimesOut, SleepRaises, Signal, Kill, FallAsleep
<1>3. CASE MatchmakerAnswers
  BY <1>3 DEF MatchmakerAnswers, StampBeat, AnswerBeat, FailBeat, StampLate,
              StoreLate
<1>4. CASE MatchmakerDies
  BY <1>4, DeathFacts
<1>5. CASE MatchmakerStarts
  BY <1>5 DEF MatchmakerStarts
<1>6. CASE Tick
  <2>1. Older(reqAge) <= reqAge + 1 /\ Older(reqAge) \in 0..TTL
    BY OlderStays
  <2> QED BY <1>6, <2>1 DEF Tick
<1>7. CASE UNCHANGED gameServerVars
  BY <1>7 DEF gameServerVars
<1> QED BY <1>1, <1>2, <1>3, <1>4, <1>5, <1>6, <1>7 DEF GameServerNext

(* A beat that ends without a store adds one sleep and one request to the  *)
(* slack; one that was stored leaves room for the sleep it starts.         *)
LEMMA AgeStep ==
  ASSUME ServerInv, [GameServerNext]_gameServerVars
  PROVE  AgeWithin'
<1>1. /\ \A m \in Nat : /\ Slack(m) \in Nat /\ Slack(m) >= Timeout
                        /\ Slack(m + 1) = Slack(m) + HeartbeatS + Timeout
      /\ misses \in Nat /\ age \in Nat /\ timer \in Nat
      /\ HeartbeatS \in Nat /\ Timeout \in Nat /\ MaxMisses \in Nat
      /\ req = "stored" => phase = "beating"
  <2>1. /\ misses \in Nat /\ age \in Nat /\ timer \in Nat
        /\ HeartbeatS \in Nat /\ Timeout \in Nat /\ MaxMisses \in Nat
    BY GameServerAssumption DEF ServerInv, GameServerTypeOK
  <2>2. req = "stored" => phase = "beating"
    BY DEF ServerInv, GameServerTypeOK
  <2> QED BY <2>1, <2>2, SlackGrows
<1> USE DEF AgeWithin, matchmakerVars, processVars
<1>2. CASE FallAsleep /\ UNCHANGED age /\ phase = "beating"
  <2>1. phase = "beating" => timer <= Timeout
    BY DEF ServerInv, TimersBounded
  <2>2. CASE req = "stored"
    <3>1. /\ phase' = "sleeping" /\ timer' = HeartbeatS
          /\ misses' = misses /\ age' = age /\ fresh' = fresh
      BY <1>2, <2>2 DEF FallAsleep
    <3>2. fresh /\ misses < MaxMisses => age <= Timeout
      BY <1>1, <2>1, <2>2 DEF ServerInv
    <3>3. Slack(misses) \in Nat /\ Slack(misses) >= Timeout
      BY <1>1
    <3>4. Slack(misses)' = Slack(misses)
      BY <3>1
    <3> QED BY <1>1, <3>1, <3>2, <3>3, <3>4
  <2>3. CASE req # "stored" /\ fresh /\ misses # MaxMisses
    <3>1. /\ phase' = "sleeping" /\ timer' = HeartbeatS
          /\ misses' = misses + 1 /\ age' = age
      BY <1>2, <2>3 DEF FallAsleep
    <3>2. misses < MaxMisses
      BY <2>3, GameServerAssumption DEF ServerInv, GameServerTypeOK
    <3>3. age <= Timeout + Slack(misses) + HeartbeatS
      <4>1. age <= timer + (Slack(misses) + HeartbeatS)
        BY <1>2, <2>3, <3>2 DEF ServerInv
      <4>2. timer <= Timeout /\ Slack(misses) \in Nat
        BY <1>1, <1>2, <2>1
      <4> QED BY <1>1, <4>1, <4>2
    <3>4. Slack(misses)' = Slack(misses + 1)
      BY <3>1
    <3>5. Slack(misses)' = Slack(misses) + HeartbeatS + Timeout
      BY <1>1, <3>4
    <3>6. Slack(misses) \in Nat
      BY <1>1
    <3> QED BY <1>1, <3>1, <3>3, <3>5, <3>6
  <2>4. CASE ~fresh \/ misses = MaxMisses
    BY <1>1, <1>2, <2>4 DEF FallAsleep, ServerInv
  <2> QED BY <2>2, <2>3, <2>4
<1>3. CASE AnswerBeat
  <2>1. /\ req' = "stored" /\ age' = reqAge /\ phase' = phase
        /\ timer' = timer /\ phase = "beating"
    BY <1>3 DEF AnswerBeat, ServerInv, GameServerTypeOK
  <2>2. reqAge <= timer
    BY <1>3, <2>1 DEF AnswerBeat, ServerInv, TimersBounded
  <2> QED BY <1>1, <2>1, <2>2
<1>4. CASE ProcessNext /\ ~BeatEnds
  <2> USE DEF ServerInv, Exit, GoTo
  <2>1. CASE WaitForHealth
    BY <1>1, <2>1 DEF WaitForHealth
  <2>2. CASE RegisterThenLogin
    BY <1>1, <2>2 DEF RegisterThenLogin
  <2>3. CASE BindUdp
    BY <1>1, <2>3 DEF BindUdp, NothingBeforeLoop
  <2>4. CASE SendBeat
    <3>1. /\ timer' = 0 /\ req' = "sent" /\ phase' = "beating"
          /\ misses' = misses /\ age' = age /\ fresh' = fresh
          /\ phase = "loop"
      BY <2>4 DEF SendBeat
    <3>2. Slack(misses)' = Slack(misses) /\ Slack(misses) \in Nat
      BY <1>1, <3>1
    <3> QED BY <1>1, <3>1, <3>2
  <2>5. CASE LeaveLoop
    BY <1>1, <2>5 DEF LeaveLoop
  <2>6. CASE Wake
    <3>1. /\ phase' = "loop" /\ phase = "sleeping"
          /\ misses' = misses /\ age' = age /\ fresh' = fresh
      BY <2>6 DEF Wake
    <3>2. Slack(misses)' = Slack(misses) /\ Slack(misses) \in Nat
      BY <1>1, <3>1
    <3> QED BY <1>1, <3>1, <3>2
  <2> QED BY <1>4, <2>1, <2>2, <2>3, <2>4, <2>5, <2>6 DEF ProcessNext
<1>5. CASE SleepRaises \/ Signal \/ Kill
  BY <1>1, <1>5 DEF SleepRaises, Signal, Kill, Exit, ServerInv
<1>6. CASE StampBeat \/ FailBeat \/ StampLate
  BY <1>1, <1>6 DEF StampBeat, FailBeat, StampLate, ServerInv
<1>7. CASE StoreLate
  <2>1. PICK i \in DOMAIN lateStamps :
          /\ age' = lateStamps[i]
          /\ fresh' = (fresh /\ lateStamps[i] <= age)
          /\ UNCHANGED <<processVars, misses>>
    BY <1>7 DEF StoreLate
  <2>2. age' \in Nat
    BY <2>1, RemovedStamp DEF ServerInv
  <2>3. CASE fresh /\ age' <= age
    <3>1. Slack(misses)' = Slack(misses) /\ Slack(misses) \in Nat
      BY <1>1, <2>1
    <3> QED BY <1>1, <2>1, <2>2, <2>3, <3>1 DEF ServerInv
  <2>4. CASE ~(fresh /\ age' <= age)
    BY <2>1, <2>4
  <2> QED BY <2>3, <2>4
<1>8. CASE MatchmakerDies
  BY <1>8, DeathFacts DEF ServerInv
<1>9. CASE MatchmakerStarts
  BY <1>9 DEF MatchmakerStarts, ServerInv
<1>10. CASE Tick
  <2>1. /\ UNCHANGED <<phase, req, misses, fresh>> /\ phase # "loop"
        /\ age' <= age + 1 /\ age' \in Nat
    <3>1. age \in 0..TTL
      BY DEF ServerInv, GameServerTypeOK
    <3>2. age' = Older(age) /\ phase # "loop"
          /\ UNCHANGED <<phase, req, misses, fresh>>
      BY <1>10 DEF Tick
    <3> QED BY <3>1, <3>2, OlderStays
  <2>2. CASE phase = "sleeping"
    <3>1. timer' = timer - 1
      BY <1>10, <2>2 DEF Tick
    <3>2. Slack(misses)' = Slack(misses) /\ Slack(misses) \in Nat
      BY <1>1, <2>1
    <3> QED BY <1>1, <2>1, <2>2, <3>1, <3>2 DEF ServerInv
  <2>3. CASE phase = "beating"
    <3>1. timer' = timer + 1
      BY <1>10, <2>3 DEF Tick
    <3>2. Slack(misses)' = Slack(misses) /\ Slack(misses) \in Nat
      BY <1>1, <2>1
    <3> QED BY <1>1, <2>1, <2>3, <3>1, <3>2 DEF ServerInv
  <2> QED BY <2>1, <2>2, <2>3
<1>11. CASE UNCHANGED gameServerVars
  BY <1>11 DEF gameServerVars, ServerInv
<1>12. BeatEnds \/ BeatTimesOut
         => FallAsleep /\ UNCHANGED age /\ phase = "beating"
  BY DEF BeatEnds, BeatTimesOut, ServerInv, GameServerTypeOK
<1> QED BY <1>2, <1>3, <1>4, <1>5, <1>6, <1>7, <1>8, <1>9, <1>10, <1>11,
           <1>12 DEF GameServerNext, MatchmakerAnswers

LEMMA ServerInvStep ==
  ASSUME ServerInv, [GameServerNext]_gameServerVars
  PROVE  ServerInv'
<1>1. GameServerTypeOK'
  BY ServerTypes DEF ServerInv
<1> QED BY <1>1, RowStep, TimersStep, AgeStep DEF ServerInv

LEMMA StackServerStep ==
  ASSUME [StackNext]_stackVars
  PROVE  [GameServerNext]_gameServerVars
BY DEF StackNext, ServerStep, WindowClick, WindowStep, unlessWindow,
       stackVars, gameServerVars

(* The game server's invariant, whatever the window does.                  *)
LEMMA StackServerInv == StackSpec => []ServerInv
<1>1. StackInit => ServerInv
  BY ServerInvInit DEF StackInit
<1>2. ServerInv /\ [StackNext]_stackVars => ServerInv'
  BY ServerInvStep, StackServerStep
<1> QED BY <1>1, <1>2, PTL DEF StackSpec

(* Whatever TTL, HeartbeatS and Timeout are, a running server whose beats  *)
(* were missed no more often than the windows leave room for, and whose    *)
(* row no late beat has overwritten by an older stamp since, is inside the *)
(* listing's window (fake_game_server.py:343-369).                         *)
THEOREM BeatsKeepListed == StackSpec => []ListedWhileBeatsLand
<1>1. ServerInv => ListedWhileBeatsLand
  <2> SUFFICES ASSUME ServerInv, fresh, InLoop, misses < MaxMisses, Covered
               PROVE  age < TTL
    BY DEF ListedWhileBeatsLand
  <2>1. /\ TTL \in Nat /\ HeartbeatS \in Nat /\ Timeout \in Nat
        /\ misses \in Nat /\ age \in Nat /\ timer \in Nat
    BY GameServerAssumption DEF ServerInv, GameServerTypeOK
  <2>2. /\ Slack(misses) \in Nat /\ Slack(misses) >= Timeout
        /\ Slack(misses) + HeartbeatS + Timeout < TTL
    BY <2>1, SlackGrows DEF Covered
  <2>3. CASE phase = "sleeping"
    BY <2>1, <2>2, <2>3 DEF ServerInv, AgeWithin
  <2>4. CASE phase = "loop"
    BY <2>1, <2>2, <2>4 DEF ServerInv, AgeWithin
  <2>5. CASE phase = "beating"
    <3>1. timer <= Timeout
      BY <2>5 DEF ServerInv, TimersBounded
    <3>2. age <= timer + (Slack(misses) + HeartbeatS)
      BY <2>1, <2>2, <2>5 DEF ServerInv, AgeWithin
    <3> QED BY <2>1, <2>2, <3>1, <3>2
  <2> QED BY <2>3, <2>4, <2>5 DEF InLoop
<1> QED BY <1>1, StackServerInv, PTL

(* On any behaviour, a loop whose token the matchmaker has lost runs on    *)
(* without it and without a row (fake_game_server.py:341-369).             *)
THEOREM LostTokens == StackSpec => LostTokenStaysLost
<1>1. ServerInv /\ [GameServerNext]_gameServerVars
        => [InLoop /\ ~session /\ InLoop' => ~session' /\ age' = TTL
             ]_gameServerVars
  <2> SUFFICES ASSUME ServerInv, GameServerNext, InLoop, ~session, InLoop'
               PROVE  ~session' /\ age' = TTL
    OBVIOUS
  <2>1. ~session'
    BY DEF GameServerNext, ProcessNext, WaitForHealth, RegisterThenLogin,
           BindUdp, SendBeat, LeaveLoop, BeatEnds, BeatTimesOut, Wake,
           SleepRaises, Signal, Kill, MatchmakerAnswers, AnswerBeat,
           FailBeat, StampBeat, StampLate, StoreLate, MatchmakerDies,
           MatchmakerStarts, Tick, matchmakerVars, InLoop
  <2>2. ServerInv'
    BY ServerInvStep
  <2> QED BY <2>1, <2>2 DEF ServerInv, RowNeedsToken
<1>2. ServerInv /\ [StackNext]_stackVars
        => [InLoop /\ ~session /\ InLoop' => ~session' /\ age' = TTL
             ]_gameServerVars
  BY <1>1, StackServerStep
<1> QED BY <1>2, StackServerInv, PTL DEF StackSpec, LostTokenStaysLost

-----------------------------------------------------------------------------
(* The window and its matchmaker.  A list is good when it comes from the   *)
(* URL applied last and, if the refresh began after the server had gone,   *)
(* does not show it.  A refresh that has the window to itself carries a    *)
(* good list from the answer through the queue to the rows, and the label  *)
(* says online only behind it.                                             *)

GoneStays == gone => Gone

Good(list) ==
  /\ list.from = url
  /\ gone /\ list.from = HomeUrl => Server \notin list.ids

Waiting(first) == Len(posted) = 1 /\ posted[1].do = first
WaitingTwo(first, second) ==
  Len(posted) = 2 /\ posted[1].do = first /\ posted[2].do = second

AtMostOne ==
  \A t, s \in Workers :
    worker[t].step # "idle" /\ worker[s].step # "idle" => t = s

LoneThread(t) ==
  /\ worker[t].step \in {"started", "calling", "failed", "answered"}
       => posted = <<>>
  /\ worker[t].step \notin {"idle", "started"} => worker[t].client = url
  /\ worker[t].step \in {"answered", "online"} => Good(worker[t].list)
  /\ worker[t].step = "online" =>
       \/ Waiting("rebuild") /\ Good(posted[1].list)
       \/ posted = <<>> /\ Good(tree)
  /\ worker[t].step = "report" =>
       \/ Waiting("offline")
       \/ posted = <<>> /\ health = "offline"

LoneQueue ==
  \/ posted = <<>> /\ (health = "online" => Good(tree))
  \/ WaitingTwo("rebuild", "online") /\ Good(posted[1].list)
  \/ Waiting("online") /\ Good(tree)
  \/ WaitingTwo("offline", "report")
  \/ Waiting("report") /\ health = "offline"

AllIdle == \A t \in Workers : worker[t].step = "idle"

LoneRefresh ==
  ~raced => /\ AtMostOne
            /\ \A t \in Workers : LoneThread(t)
            /\ AllIdle => LoneQueue

Thread ==
  [step : {"idle", "started", "calling", "failed", "report", "answered",
           "online"},
   client : Urls, list : List]

WindowInv == LauncherTypeOK /\ handle = Len(games)

(* What a step of the stack is to the window.                              *)
LEMMA WindowSteps ==
  ASSUME [StackNext]_stackVars
  PROVE  \/ UNCHANGED launcherVars
         \/ Click
         \/ Background(Lists)
BY DEF StackNext, ServerStep, WindowClick, WindowStep, stackVars

LEMMA ListsAreLists ==
  ASSUME NEW u, NEW ids \in Lists(u)
  PROVE  ids \in SUBSET Ids
BY LocalStackAssumption DEF Lists

LEMMA WindowInvInit ==
  ASSUME LauncherInit
  PROVE  WindowInv
<1> DEFINE first == CHOOSE t \in Workers : TRUE
<1>1. first \in Workers
  BY LauncherAssumption
<1>2. NoList \in List /\ Idle = [step |-> "idle", client |-> HomeUrl,
                                 list |-> NoList]
  BY LauncherAssumption DEF NoList, List, Idle
<1>3. worker \in [Workers -> [step : {"idle", "started"},
                              client : Urls, list : List]]
  BY <1>1, <1>2, LauncherAssumption DEF LauncherInit
<1>4. posted \in Seq(Callback) /\ games \in Seq(Game) /\ Len(games) = 0
  BY EmptySeq DEF LauncherInit
<1>5. worker \in [Workers -> Thread]
  BY <1>3 DEF Thread
<1>6. /\ url \in Urls /\ token \in Urls \union {None} /\ tree \in List
      /\ selected = None /\ asking = None /\ raced \in BOOLEAN
      /\ health \in {"unknown", "online", "offline"} /\ handle = 0
  BY <1>2, LauncherAssumption DEF LauncherInit
<1>7. LauncherTypeOK
  BY <1>4, <1>5, <1>6 DEF LauncherTypeOK, Thread
<1> QED BY <1>4, <1>6, <1>7 DEF WindowInv

(* Each step of a thread keeps the threads' types.                         *)
LEMMA ThreadTypes ==
  ASSUME LauncherTypeOK
  PROVE  /\ StartRefresh => worker' \in [Workers -> Thread]
         /\ \A t \in Workers :
              /\ ReadClient(t) \/ CallFails(t) => worker' \in [Workers -> Thread]
              /\ \A ids \in SUBSET Ids :
                   Answered(t, ids) => worker' \in [Workers -> Thread]
              /\ PostResult(t) => /\ worker' \in [Workers -> Thread]
                                  /\ posted' \in Seq(Callback)
<1>1. /\ worker \in [Workers -> Thread] /\ url \in Urls
      /\ posted \in Seq(Callback)
  BY DEF LauncherTypeOK, Thread
<1>2. ASSUME StartRefresh PROVE worker' \in [Workers -> Thread]
  <2> DEFINE idle == {s \in Workers : worker[s].step = "idle"}
             new == CHOOSE s \in idle : TRUE
  <2>1. new \in Workers
    BY <1>2 DEF StartRefresh
  <2>2. worker' = [worker EXCEPT ![new].step = "started"]
    BY <1>2 DEF StartRefresh
  <2> QED BY <1>1, <2>1, <2>2 DEF Thread
<1>3. ASSUME NEW t \in Workers PROVE worker[t] \in Thread
  BY <1>1
<1>4. ASSUME NEW t \in Workers, ReadClient(t) \/ CallFails(t)
      PROVE  worker' \in [Workers -> Thread]
  BY <1>1, <1>4 DEF ReadClient, CallFails, Thread
<1>5. ASSUME NEW t \in Workers, NEW ids \in SUBSET Ids, Answered(t, ids)
      PROVE  worker' \in [Workers -> Thread]
  <2>1. [from |-> worker[t].client, ids |-> ids] \in List
    BY <1>3 DEF Thread, List
  <2> QED BY <1>1, <1>5, <2>1 DEF Answered, Thread
<1>6. ASSUME NEW t \in Workers, PostResult(t)
      PROVE  worker' \in [Workers -> Thread] /\ posted' \in Seq(Callback)
  <2>1. Idle \in Thread
    BY LauncherAssumption DEF Idle, Thread, NoList, List
  <2>2. \A step \in {"online", "report"} :
          [worker[t] EXCEPT !.step = step] \in Thread
    BY <1>3 DEF Thread
  <2>3. ASSUME NEW step, NEW what \in {"rebuild", "online", "offline", "report"},
               NEW next \in Thread, Post(t, step, what, next)
        PROVE  worker' \in [Workers -> Thread] /\ posted' \in Seq(Callback)
    <3>1. [do |-> what, list |-> worker[t].list] \in Callback
      BY <1>3 DEF Callback, Thread
    <3> QED BY <1>1, <2>3, <3>1, AppendProperties DEF Post
  <2> QED BY <1>6, <2>1, <2>2, <2>3 DEF PostResult
<1> QED BY <1>2, <1>4, <1>5, <1>6

(* An engine that ends leaves the number of engines.                       *)
LEMMA EndedGames ==
  ASSUME WindowInv, NEW g, NEW code \in {"0", "127", "term"}, Ended(g, code)
  PROVE  /\ games' \in Seq(Game) /\ Len(games') = Len(games)
         /\ g \in 1..Len(games)
         /\ \A i \in 1..Len(games) : i # g => games'[i] = games[i]
         /\ games'[g].exit = code
<1>1. games \in Seq(Game) /\ g \in DOMAIN games
  BY DEF WindowInv, LauncherTypeOK, Ended
<1>2. DOMAIN games = 1..Len(games) /\ games[g] \in Game
  BY <1>1, LenProperties
<1>3. [games[g] EXCEPT !.exit = code] \in Game
  BY <1>2 DEF Game
<1>4. games' = [games EXCEPT ![g] = [games[g] EXCEPT !.exit = code]]
  BY DEF Ended
<1> QED BY <1>1, <1>2, <1>3, <1>4, ExceptSeq DEF Game

(* Only Stop ends an engine with "term", and only the handle's.            *)
LEMMA GameEnds ==
  ASSUME WindowInv, StopGame \/ StubEnds \/ ExecFails
  PROVE  /\ games' \in Seq(Game) /\ Len(games') = Len(games)
         /\ \A g \in 1..Len(games) :
              games[g].exit = "running" /\ games'[g].exit = "term"
                => g = handle
<1>1. CASE StopGame
  BY <1>1, EndedGames DEF StopGame
<1>2. CASE StubEnds
  <2>1. PICK g \in DOMAIN games : Ended(g, "0")
    BY <1>2 DEF StubEnds
  <2> QED BY <2>1, EndedGames
<1>3. CASE ExecFails
  <2>1. PICK g \in DOMAIN games : Ended(g, "127")
    BY <1>3 DEF ExecFails
  <2> QED BY <2>1, EndedGames
<1> QED BY <1>1, <1>2, <1>3

LEMMA LaunchedGames ==
  ASSUME WindowInv, Launch
  PROVE  /\ games' \in Seq(Game) /\ handle' = Len(games')
         /\ Len(games') \in Nat
         /\ \A i \in DOMAIN games : games'[i] = games[i]
<1> DEFINE new == [server |-> tree.from, token |-> token, exit |-> "running"]
<1>1. new \in Game
  BY DEF Launch, WindowInv, LauncherTypeOK, Game, List
<1>2. games \in Seq(Game) /\ DOMAIN games = 1..Len(games)
  BY LenProperties DEF WindowInv, LauncherTypeOK
<1>3. games' = Append(games, new) /\ handle' = Len(games')
  BY DEF Launch
<1>4. games' \in Seq(Game)
  BY <1>1, <1>2, <1>3, AppendProperties
<1>5. \A i \in DOMAIN games : games'[i] = games[i]
  BY <1>1, <1>2, <1>3, AppendProperties
<1> QED BY <1>3, <1>4, <1>5, LenProperties

(* One step per button and per thing that goes on without a click.         *)
LEMMA WindowInvStep ==
  ASSUME WindowInv, [StackNext]_stackVars
  PROVE  WindowInv'
<1> USE DEF WindowInv, LauncherTypeOK
<1>1. CASE Refresh
  <2>1. worker' \in [Workers -> Thread] /\ raced' \in BOOLEAN
    BY <1>1, ThreadTypes DEF Refresh, StartRefresh
  <2> QED BY <1>1, <2>1 DEF Refresh, Thread
<1>2. ASSUME NEW u \in Urls, ApplyUrl(u) PROVE WindowInv'
  <2>1. worker' \in [Workers -> Thread] /\ raced' \in BOOLEAN
    BY <1>2, ThreadTypes DEF ApplyUrl, StartRefresh
  <2> QED BY <1>2, <2>1 DEF ApplyUrl, Thread
<1>3. CASE Login \/ AskAliasName \/ SaveAlias
  BY <1>3 DEF Login, AskAliasName, SaveAlias
<1>4. ASSUME NEW id \in Ids, Select(id) PROVE WindowInv'
  BY <1>4 DEF Select
<1>5. CASE Launch
  BY <1>5, LaunchedGames DEF Launch
<1>6. CASE StopGame \/ StubEnds \/ ExecFails
  <2>1. games' \in Seq(Game) /\ Len(games') = Len(games)
    BY <1>6, GameEnds
  <2>2. UNCHANGED <<url, token, tree, selected, health, asking, worker,
                    posted, handle, raced>>
    BY <1>6 DEF StopGame, StubEnds, ExecFails
  <2> QED BY <2>1, <2>2
<1>7. CASE RunCallback
  <2>1. Head(posted) \in Callback /\ posted' \in Seq(Callback)
    BY <1>7, HeadTailProperties DEF RunCallback
  <2>2. Head(posted).list \in List
    BY <2>1 DEF Callback
  <2>3. /\ tree' = IF Head(posted).do = "rebuild" THEN Head(posted).list
                   ELSE tree
        /\ selected' = IF Head(posted).do = "rebuild" THEN None ELSE selected
        /\ health' = IF Head(posted).do \in {"online", "offline"}
                     THEN Head(posted).do ELSE health
        /\ UNCHANGED <<url, token, asking, worker, games, handle, raced>>
    BY <1>7 DEF RunCallback
  <2> QED BY <2>1, <2>2, <2>3
<1>8. ASSUME NEW t \in Workers, ReadClient(t) \/ CallFails(t)
      PROVE  WindowInv'
  <2>1. worker' \in [Workers -> Thread]
    BY <1>8, ThreadTypes
  <2> QED BY <1>8, <2>1 DEF ReadClient, CallFails, Thread
<1>9. ASSUME NEW t \in Workers, NEW ids \in SUBSET Ids, Answered(t, ids)
      PROVE  WindowInv'
  <2>1. worker' \in [Workers -> Thread]
    BY <1>9, ThreadTypes
  <2> QED BY <1>9, <2>1 DEF Answered, Thread
<1>10. ASSUME NEW t \in Workers, PostResult(t) PROVE WindowInv'
  <2>1. worker' \in [Workers -> Thread] /\ posted' \in Seq(Callback)
    BY <1>10, ThreadTypes
  <2> QED BY <1>10, <2>1 DEF PostResult, Thread
<1>11. CASE UNCHANGED launcherVars
  BY <1>11 DEF launcherVars
<1>12. CASE Click
  BY <1>1, <1>2, <1>3, <1>4, <1>5, <1>6, <1>12 DEF Click
<1>13. CASE Background(Lists)
  BY <1>3, <1>6, <1>7, <1>8, <1>9, <1>10, <1>13, ListsAreLists
     DEF Background
<1> QED BY <1>11, <1>12, <1>13, WindowSteps

LEMMA StackWindowInv == StackSpec => []WindowInv
<1>1. StackInit => WindowInv
  BY WindowInvInit DEF StackInit
<1> QED BY <1>1, WindowInvStep, PTL DEF StackSpec

(* For any number of engines, Stop ends the one launched last and no       *)
(* other, because the one handle kept is that engine's (lines 280-317).    *)
THEOREM StopReachesLatestGame == StackSpec => StopReachesLatest
<1>1. WindowInv /\ [StackNext]_stackVars
        => [\A g \in DOMAIN games :
              games[g].exit = "running" /\ games'[g].exit = "term"
                => g = Len(games)]_launcherVars
  <2> SUFFICES ASSUME WindowInv, [StackNext]_stackVars,
                      NEW g \in DOMAIN games, games[g].exit = "running",
                      games'[g].exit = "term"
               PROVE  g = Len(games)
    OBVIOUS
  <2>1. DOMAIN games = 1..Len(games) /\ handle = Len(games)
    BY LenProperties DEF WindowInv, LauncherTypeOK
  <2>2. CASE games' = games
    BY <2>2
  <2>3. CASE Launch
    BY <2>3, LaunchedGames
  <2>4. CASE StopGame
    <3>1. Ended(handle, "term")
      BY <2>4 DEF StopGame
    <3> QED BY <2>1, <3>1, EndedGames
  <2>5. CASE StubEnds \/ ExecFails
    BY <2>1, <2>5, GameEnds
  <2>6. Launch \/ StopGame \/ StubEnds \/ ExecFails \/ games' = games
    BY WindowSteps
       DEF Click, Background, Refresh, Login, AskAliasName, ApplyUrl, Select,
           SaveAlias, RunCallback, ReadClient, CallFails, PostResult,
           Answered, launcherVars
  <2> QED BY <2>2, <2>3, <2>4, <2>5, <2>6
<1> QED BY <1>1, StackWindowInv, PTL DEF StackSpec, StopReachesLatest

(* Type correctness of the whole stack.                                    *)
THEOREM StackTypes == StackSpec => []StackTypeOK
<1> DEFINE Counts == /\ clicks \in 0..MaxClicks
                     /\ refreshes \in 0..MaxRefreshes /\ gone \in BOOLEAN
<1>1. StackInit => Counts
  <2> SUFFICES ASSUME StackInit PROVE Counts
    OBVIOUS
  <2>1. clicks \in 0..MaxClicks
    BY LocalStackAssumption DEF StackInit
  <2>2. refreshes \in 0..MaxRefreshes
    BY LocalStackAssumption DEF StackInit
  <2>3. gone \in BOOLEAN
    BY DEF StackInit
  <2> QED BY <2>1, <2>2, <2>3
<1>2. Counts /\ [StackNext]_stackVars => Counts'
  <2> SUFFICES ASSUME Counts, [StackNext]_stackVars PROVE Counts'
    OBVIOUS
  <2>1. CASE WindowClick
    <3>1. clicks' \in 0..MaxClicks
      BY <2>1, LocalStackAssumption DEF WindowClick
    <3>2. refreshes' \in 0..MaxRefreshes
      BY <2>1, LocalStackAssumption DEF WindowClick
    <3>3. gone' \in BOOLEAN
      BY <2>1 DEF WindowClick, Gone
    <3> QED BY <3>1, <3>2, <3>3
  <2>2. CASE UNCHANGED <<clicks, refreshes, gone>>
    BY <2>2
  <2> QED BY <2>1, <2>2
          DEF StackNext, ServerStep, WindowStep, unlessWindow, stackVars
<1>3. ServerInv /\ WindowInv /\ Counts => StackTypeOK
  BY DEF ServerInv, WindowInv, StackTypeOK
<1> QED BY <1>1, <1>2, <1>3, StackServerInv, StackWindowInv, PTL
        DEF StackSpec

-----------------------------------------------------------------------------
(* From a lone refresh to what the window shows.                           *)

LEMMA GoneStaysStep ==
  ASSUME GoneStays, ServerInv, [StackNext]_stackVars
  PROVE  GoneStays'
<1>1. CASE WindowClick
  BY <1>1 DEF WindowClick, GoneStays, Gone, gameServerVars, matchmakerVars,
              processVars
<1>2. CASE ServerStep
  <2> SUFFICES ASSUME gone' PROVE Gone'
    BY DEF GoneStays
  <2>1. age' = TTL /\ phase = "exited" /\ GameServerNext
    BY <1>2 DEF ServerStep, GoneStays, Gone
  <2>2. req = "none"
    BY <2>1 DEF ServerInv, GameServerTypeOK
  <2>3. phase' = "exited"
    <3>1. ~ProcessNext /\ ~BeatTimesOut /\ ~SleepRaises /\ ~Signal /\ ~Kill
      BY <2>1, <2>2
         DEF ProcessNext, WaitForHealth, RegisterThenLogin, BindUdp, SendBeat,
             LeaveLoop, BeatEnds, Wake, BeatTimesOut, SleepRaises, Signal,
             Kill, InLoop
    <3>2. MatchmakerAnswers \/ MatchmakerDies \/ MatchmakerStarts \/ Tick
      BY <2>1, <3>1 DEF GameServerNext
    <3> QED BY <2>1, <3>2
            DEF MatchmakerAnswers, StampBeat, AnswerBeat, FailBeat, StampLate,
                StoreLate, MatchmakerDies, MatchmakerStarts, Tick, processVars
  <2> QED BY <2>1, <2>3 DEF Gone
<1>3. CASE UNCHANGED <<gone, gameServerVars>>
  BY <1>3 DEF GoneStays, Gone, gameServerVars, matchmakerVars, processVars
<1> QED BY <1>1, <1>2, <1>3
        DEF StackNext, WindowStep, unlessWindow, stackVars

(* What a matchmaker answers to a client of the current URL is good.       *)
LEMMA AnswersAreGood ==
  ASSUME GoneStays, NEW ids \in Lists(url)
  PROVE  Good([from |-> url, ids |-> ids])
<1>1. CASE ~gone \/ url # HomeUrl
  BY <1>1 DEF Good
<1>2. CASE gone /\ url = HomeUrl
  <2>1. ~Listed
    <3>1. age = TTL /\ TTL \in Nat
      BY <1>2, GameServerAssumption DEF GoneStays, Gone
    <3> QED BY <3>1 DEF Listed
  <2>2. ids = {}
    BY <1>2, <2>1 DEF Lists
  <2> QED BY <2>2 DEF Good
<1> QED BY <1>1, <1>2

(* A refresh alone in the window starts from nothing in flight.            *)
LEMMA LoneStart ==
  ASSUME WindowInv, StartRefresh, UNCHANGED posted
  PROVE  LoneRefresh'
<1> SUFFICES ASSUME ~raced' PROVE /\ AtMostOne'
                                  /\ (\A t \in Workers : LoneThread(t))'
                                  /\ ~AllIdle'
  BY DEF LoneRefresh
<1> DEFINE idle == {t \in Workers : worker[t].step = "idle"}
           new == CHOOSE t \in idle : TRUE
<1>1. new \in Workers /\ worker' = [worker EXCEPT ![new].step = "started"]
  BY DEF StartRefresh
<1>2. Quiet
  BY DEF StartRefresh
<1>3. posted' = <<>> /\ \A t \in Workers : worker[t].step = "idle"
  BY <1>2 DEF Quiet
<1>4. \A t \in Workers : worker'[t].step = IF t = new THEN "started" ELSE "idle"
  BY <1>1, <1>3 DEF WindowInv, LauncherTypeOK
<1>5. AtMostOne'
  BY <1>4 DEF AtMostOne
<1>6. \A t \in Workers : LoneThread(t)'
  BY <1>3, <1>4 DEF LoneThread
<1>7. ~AllIdle'
  BY <1>1, <1>4 DEF AllIdle
<1> QED BY <1>5, <1>6, <1>7

(* One step per thing that can happen to a refresh alone in the window.    *)
LEMMA LoneRefreshStep ==
  ASSUME LoneRefresh, WindowInv, GoneStays, [StackNext]_stackVars
  PROVE  LoneRefresh'
<1> USE DEF LoneRefresh
<1>1. CASE Refresh \/ \E u \in Urls : ApplyUrl(u)
  BY <1>1, LoneStart DEF Refresh, ApplyUrl
<1> DEFINE Same == UNCHANGED <<url, gone, raced>>
<1>2. CASE /\ UNCHANGED <<url, raced, tree, health, worker, posted>>
           /\ gone' => gone
  BY <1>2 DEF AtMostOne, LoneThread, AllIdle, LoneQueue, Waiting, WaitingTwo,
              Good
<1>3. CASE RunCallback /\ Same
  <2> SUFFICES ASSUME ~raced
               PROVE  /\ AtMostOne' /\ (\A t \in Workers : LoneThread(t))'
                      /\ AllIdle' => LoneQueue'
    BY <1>3
  <2>1. /\ posted \in Seq(Callback) /\ posted # <<>>
        /\ posted' = Tail(posted) /\ UNCHANGED <<worker, url, gone>>
    BY <1>3 DEF RunCallback, WindowInv, LauncherTypeOK
  <2>2. /\ Len(posted) \in Nat /\ Len(posted') = Len(posted) - 1
        /\ \A i \in 1..Len(posted') : posted'[i] = posted[i + 1]
        /\ Len(posted') = 0 <=> posted' = <<>>
    BY <2>1, HeadTailProperties, EmptySeq, LenProperties
  <2>3. /\ tree' = IF posted[1].do = "rebuild" THEN posted[1].list ELSE tree
        /\ health' = IF posted[1].do \in {"online", "offline"}
                     THEN posted[1].do ELSE health
    BY <1>3, <2>1 DEF RunCallback
  <2>4. AtMostOne'
    BY <2>1 DEF AtMostOne
  <2>5. ASSUME NEW t \in Workers PROVE LoneThread(t)'
    <3>1. LoneThread(t)
      OBVIOUS
    <3>2. CASE worker[t].step = "online"
      <4>1. Waiting("rebuild") /\ Good(posted[1].list)
        BY <2>1, <3>1, <3>2 DEF LoneThread
      <4>2. posted' = <<>> /\ Good(tree')
        BY <2>2, <2>3, <4>1 DEF Waiting
      <4> QED BY <2>1, <3>1, <3>2, <4>2 DEF LoneThread, Good
    <3>3. CASE worker[t].step = "report"
      <4>1. Waiting("offline")
        BY <2>1, <3>1, <3>3 DEF LoneThread
      <4>2. posted' = <<>> /\ health' = "offline"
        BY <2>2, <2>3, <4>1 DEF Waiting
      <4> QED BY <2>1, <3>1, <3>3, <4>2 DEF LoneThread
    <3>4. CASE worker[t].step \notin {"online", "report"}
      BY <2>1, <3>1, <3>4 DEF LoneThread
    <3> QED BY <3>2, <3>3, <3>4
  <2>6. ASSUME AllIdle' PROVE LoneQueue'
    <3>1. LoneQueue
      BY <2>1, <2>6 DEF AllIdle
    <3>2. CASE WaitingTwo("rebuild", "online") /\ Good(posted[1].list)
      <4>1. Waiting("online")' /\ Good(tree')
        BY <2>2, <2>3, <3>2 DEF Waiting, WaitingTwo
      <4> QED BY <2>1, <4>1 DEF LoneQueue, Good
    <3>3. CASE Waiting("online") /\ Good(tree)
      <4>1. posted' = <<>> /\ Good(tree')
        BY <2>2, <2>3, <3>3 DEF Waiting
      <4> QED BY <2>1, <4>1 DEF LoneQueue, Good
    <3>4. CASE WaitingTwo("offline", "report")
      <4>1. Waiting("report")' /\ health' = "offline"
        BY <2>2, <2>3, <3>4 DEF Waiting, WaitingTwo
      <4> QED BY <4>1 DEF LoneQueue
    <3>5. CASE Waiting("report") /\ health = "offline"
      <4>1. posted' = <<>> /\ health' = "offline"
        BY <2>2, <2>3, <3>5 DEF Waiting
      <4> QED BY <4>1 DEF LoneQueue
    <3> QED BY <2>1, <3>1, <3>2, <3>3, <3>4, <3>5 DEF LoneQueue
  <2> QED BY <2>4, <2>5, <2>6
<1>4. ASSUME NEW t \in Workers, ReadClient(t) \/ CallFails(t), Same
      PROVE  LoneRefresh'
  <2> SUFFICES ASSUME ~raced
               PROVE  /\ AtMostOne' /\ (\A s \in Workers : LoneThread(s))'
                      /\ ~AllIdle'
    BY <1>4
  <2>1. /\ worker[t].step \in {"started", "calling"}
        /\ worker'[t].step \in {"calling", "failed"}
        /\ worker'[t].client = url
        /\ \A s \in Workers \ {t} : worker'[s] = worker[s]
        /\ UNCHANGED <<posted, tree, health>>
    BY <1>4 DEF ReadClient, CallFails, LoneThread, WindowInv, LauncherTypeOK
  <2>2. \A s \in Workers \ {t} : worker'[s].step = "idle"
    BY <2>1 DEF AtMostOne
  <2>3. posted' = <<>>
    BY <2>1 DEF LoneThread
  <2>4. AtMostOne' /\ ~AllIdle'
    BY <2>1, <2>2 DEF AtMostOne, AllIdle
  <2>5. \A s \in Workers : LoneThread(s)'
    BY <1>4, <2>1, <2>2, <2>3 DEF LoneThread
  <2> QED BY <2>4, <2>5
<1>5. ASSUME NEW t \in Workers, NEW ids \in Lists(worker[t].client),
             Answered(t, ids), Same
      PROVE  LoneRefresh'
  <2> SUFFICES ASSUME ~raced
               PROVE  /\ AtMostOne' /\ (\A s \in Workers : LoneThread(s))'
                      /\ ~AllIdle'
    BY <1>5
  <2>1. worker[t].step = "calling" /\ worker[t].client = url
    BY <1>5 DEF Answered, LoneThread
  <2>2. /\ worker'[t].step = "answered" /\ worker'[t].client = url
        /\ worker'[t].list = [from |-> url, ids |-> ids]
        /\ \A s \in Workers \ {t} : worker'[s] = worker[s]
        /\ UNCHANGED <<posted, tree, health>>
    BY <1>5, <2>1 DEF Answered, WindowInv, LauncherTypeOK
  <2>3. Good(worker'[t].list)
    BY <1>5, <2>1, <2>2, AnswersAreGood
  <2>4. \A s \in Workers \ {t} : worker'[s].step = "idle"
    BY <2>1, <2>2 DEF AtMostOne
  <2>5. posted' = <<>>
    BY <2>1, <2>2 DEF LoneThread
  <2>6. AtMostOne' /\ ~AllIdle'
    BY <2>2, <2>4 DEF AtMostOne, AllIdle
  <2>7. \A s \in Workers : LoneThread(s)'
    BY <1>5, <2>2, <2>3, <2>4, <2>5 DEF LoneThread, Good
  <2> QED BY <2>6, <2>7
<1>6. ASSUME NEW t \in Workers, PostResult(t), Same
      PROVE  LoneRefresh'
  <2> SUFFICES ASSUME ~raced
               PROVE  /\ AtMostOne' /\ (\A s \in Workers : LoneThread(s))'
                      /\ AllIdle' => LoneQueue'
    BY <1>6
  <2>1. UNCHANGED <<url, gone, tree, health>> /\ posted \in Seq(Callback)
    BY <1>6 DEF PostResult, WindowInv, LauncherTypeOK
  <2>2. \A s \in Workers \ {t} : worker'[s] = worker[s]
    BY <1>6 DEF PostResult, Post, WindowInv, LauncherTypeOK
  <2>3. \A s \in Workers \ {t} : worker'[s].step = "idle"
    <3>1. worker[t].step # "idle"
      BY <1>6 DEF PostResult, Post
    <3> QED BY <2>2, <3>1 DEF AtMostOne
  <2>4. AtMostOne'
    BY <2>3 DEF AtMostOne
  <2>5. ASSUME LoneThread(t)' PROVE \A s \in Workers : LoneThread(s)'
    BY <2>3, <2>5 DEF LoneThread
  <2> DEFINE Posts(what) ==
               /\ Len(posted') = Len(posted) + 1
               /\ Len(posted) \in Nat /\ Len(posted) = 0 <=> posted = <<>>
               /\ \A i \in 1..Len(posted) : posted'[i] = posted[i]
               /\ posted'[Len(posted) + 1].do = what
               /\ posted'[Len(posted) + 1].list = worker[t].list
  <2>6. ASSUME NEW step, NEW what \in {"rebuild", "online", "offline", "report"},
               NEW next, Post(t, step, what, next)
        PROVE  worker[t].step = step /\ worker'[t] = next /\ Posts(what)
    <3>1. worker[t].list \in List
      BY DEF WindowInv, LauncherTypeOK
    <3>2. [do |-> what, list |-> worker[t].list] \in Callback
      BY <3>1 DEF Callback
    <3>3. worker[t].step = step /\ worker'[t] = next
      BY <2>6 DEF Post, WindowInv, LauncherTypeOK
    <3> QED BY <2>1, <2>6, <3>2, <3>3, AppendProperties, LenProperties,
               EmptySeq DEF Post
  <2>7. LoneThread(t)
    OBVIOUS
  <2>8. CASE Post(t, "answered", "rebuild", [worker[t] EXCEPT !.step = "online"])
    <3>1. /\ worker[t].step = "answered" /\ Posts("rebuild")
          /\ worker'[t] = [worker[t] EXCEPT !.step = "online"]
      BY <2>6, <2>8
    <3>2. posted = <<>> /\ Good(worker[t].list) /\ worker[t].client = url
      BY <2>7, <3>1 DEF LoneThread
    <3>3. /\ worker'[t].step = "online" /\ worker'[t].client = url
          /\ worker'[t].list = worker[t].list
      BY <3>1, <3>2 DEF WindowInv, LauncherTypeOK
    <3>4. Waiting("rebuild")' /\ posted'[1].list = worker[t].list
      BY <3>1, <3>2 DEF Waiting
    <3>5. LoneThread(t)'
      BY <2>1, <3>2, <3>3, <3>4 DEF LoneThread, Good
    <3>6. ~AllIdle'
      BY <3>3 DEF AllIdle
    <3> QED BY <2>4, <2>5, <3>5, <3>6
  <2>9. CASE Post(t, "online", "online", Idle)
    <3>1. worker[t].step = "online" /\ worker'[t] = Idle /\ Posts("online")
      BY <2>6, <2>9
    <3>2. ASSUME Waiting("rebuild"), Good(posted[1].list) PROVE LoneQueue'
      <4>1. WaitingTwo("rebuild", "online")' /\ posted'[1] = posted[1]
        BY <3>1, <3>2 DEF Waiting, WaitingTwo
      <4> QED BY <2>1, <3>2, <4>1 DEF LoneQueue, Good
    <3>3. ASSUME posted = <<>>, Good(tree) PROVE LoneQueue'
      <4>1. Waiting("online")'
        BY <3>1, <3>3 DEF Waiting
      <4> QED BY <2>1, <3>3, <4>1 DEF LoneQueue, Good
    <3>4. LoneQueue'
      BY <2>7, <3>1, <3>2, <3>3 DEF LoneThread
    <3>5. worker'[t].step = "idle"
      BY <3>1 DEF Idle
    <3> QED BY <2>4, <2>5, <3>4, <3>5 DEF LoneThread
  <2>10. CASE Post(t, "failed", "offline", [worker[t] EXCEPT !.step = "report"])
    <3>1. /\ worker[t].step = "failed" /\ Posts("offline")
          /\ worker'[t] = [worker[t] EXCEPT !.step = "report"]
      <4> HIDE DEF Posts
      <4> QED BY <2>6, <2>10
    <3>2. posted = <<>> /\ worker[t].client = url
      BY <2>7, <3>1 DEF LoneThread
    <3>3. worker'[t].step = "report" /\ worker'[t].client = url
      BY <3>1, <3>2 DEF WindowInv, LauncherTypeOK
    <3>4. Waiting("offline")'
      BY <3>1, <3>2 DEF Waiting
    <3>5. LoneThread(t)'
      BY <2>1, <3>3, <3>4 DEF LoneThread
    <3>6. ~AllIdle'
      BY <3>3 DEF AllIdle
    <3> QED BY <2>4, <2>5, <3>5, <3>6
  <2>11. CASE Post(t, "report", "report", Idle)
    <3>1. worker[t].step = "report" /\ worker'[t] = Idle /\ Posts("report")
      BY <2>6, <2>11
    <3>2. ASSUME Waiting("offline") PROVE LoneQueue'
      <4>1. WaitingTwo("offline", "report")'
        BY <3>1, <3>2 DEF Waiting, WaitingTwo
      <4> QED BY <4>1 DEF LoneQueue
    <3>3. ASSUME posted = <<>>, health = "offline" PROVE LoneQueue'
      <4>1. Waiting("report")'
        BY <3>1, <3>3 DEF Waiting
      <4> QED BY <2>1, <3>3, <4>1 DEF LoneQueue
    <3>4. LoneQueue'
      BY <2>7, <3>1, <3>2, <3>3 DEF LoneThread
    <3>5. worker'[t].step = "idle"
      BY <3>1 DEF Idle
    <3> QED BY <2>4, <2>5, <3>4, <3>5 DEF LoneThread
  <2> QED BY <1>6, <2>8, <2>9, <2>10, <2>11 DEF PostResult
<1>7. CASE WindowClick
  <2>1. CASE worker' = worker
    BY <1>1, <1>2, <1>7, <2>1
       DEF WindowClick, Click, Login, AskAliasName, Launch, StopGame, Select
  <2>2. CASE worker' # worker
    BY <1>1, <1>7, <2>2
       DEF WindowClick, Click, Login, AskAliasName, Launch, StopGame, Select
  <2> QED BY <2>1, <2>2
<1>8. CASE WindowStep
  <2>1. UNCHANGED gone
    BY <1>8 DEF WindowStep, unlessWindow
  <2>2. CASE SaveAlias \/ StubEnds \/ ExecFails
    BY <1>2, <2>1, <2>2 DEF SaveAlias, StubEnds, ExecFails
  <2>3. CASE RunCallback
    BY <1>3, <2>1, <2>3 DEF RunCallback
  <2>4. ASSUME NEW t \in Workers,
               \/ ReadClient(t) \/ CallFails(t) \/ PostResult(t)
               \/ \E ids \in Lists(worker[t].client) : Answered(t, ids)
        PROVE  LoneRefresh'
    BY <1>4, <1>5, <1>6, <2>1, <2>4
       DEF ReadClient, CallFails, PostResult, Answered
  <2> QED BY <1>8, <2>2, <2>3, <2>4 DEF WindowStep, Background
<1>9. CASE UNCHANGED launcherVars /\ (gone' => gone)
  BY <1>2, <1>9 DEF launcherVars
<1>10. CASE ServerStep
  <2>1. UNCHANGED launcherVars
    BY <1>10 DEF ServerStep
  <2>2. gone' => gone
    BY <1>10 DEF ServerStep
  <2> QED BY <1>9, <2>1, <2>2
<1>11. CASE UNCHANGED stackVars
  BY <1>9, <1>11 DEF stackVars
<1> QED BY <1>7, <1>8, <1>10, <1>11 DEF StackNext

LEMMA LoneRefreshInit ==
  ASSUME StackInit
  PROVE  LoneRefresh /\ GoneStays
<1> DEFINE first == CHOOSE t \in Workers : TRUE
<1>1. first \in Workers /\ ~gone /\ posted = <<>>
  BY LauncherAssumption DEF StackInit, LauncherInit
<1>2. \A t \in Workers :
        worker[t].step = IF t = first THEN "started" ELSE "idle"
  BY <1>1 DEF StackInit, LauncherInit, Idle
<1>3. AtMostOne
  BY <1>2 DEF AtMostOne
<1>4. \A t \in Workers : LoneThread(t)
  BY <1>1, <1>2 DEF LoneThread
<1>5. ~AllIdle
  BY <1>1, <1>2 DEF AllIdle
<1> QED BY <1>1, <1>3, <1>4, <1>5 DEF LoneRefresh, GoneStays

LEMMA StackLoneRefresh == StackSpec => [](LoneRefresh /\ GoneStays)
<1>1. LoneRefresh /\ GoneStays /\ ServerInv /\ WindowInv
        /\ [StackNext]_stackVars => LoneRefresh' /\ GoneStays'
  <2> SUFFICES ASSUME LoneRefresh, GoneStays, ServerInv, WindowInv,
                      [StackNext]_stackVars
               PROVE  LoneRefresh' /\ GoneStays'
    OBVIOUS
  <2> QED BY LoneRefreshStep, GoneStaysStep
<1> QED BY <1>1, LoneRefreshInit, StackServerInv, StackWindowInv, PTL
        DEF StackSpec

(* When all is quiet after lone refreshes, an online label means rows of   *)
(* the URL applied last.                                                   *)
LEMMA QuietIsGood ==
  ASSUME LoneRefresh, WindowInv, Quiet, ~raced, health = "online"
  PROVE  Good(tree)
<1>1. posted = <<>> /\ AllIdle /\ LoneQueue
  BY DEF LoneRefresh, Quiet, AllIdle
<1>2. Len(posted) = 0
  BY <1>1
<1> QED BY <1>1, <1>2 DEF LoneQueue, Waiting, WaitingTwo

(* For any number of threads, URLs and clicks, a refresh that had the      *)
(* window to itself shows the current matchmaker's list                    *)
(* (multiplayer_launcher.py:201-214).                                      *)
THEOREM LoneRefreshIsCurrent == StackSpec => []LoneRefreshShowsCurrent
<1>1. LoneRefresh /\ WindowInv => LoneRefreshShowsCurrent
  BY QuietIsGood DEF LoneRefreshShowsCurrent, Good
<1> QED BY <1>1, StackLoneRefresh, StackWindowInv, PTL

(* And for any windows and timeouts, it does not show a server that had    *)
(* left before it began and that no late heartbeat has brought back since  *)
(* (with fake_game_server.py:370-383).                                     *)
THEOREM NoGhosts == StackSpec => []NoGhostServer
<1>1. LoneRefresh /\ WindowInv => NoGhostServer
  BY QuietIsGood DEF NoGhostServer, Good
<1> QED BY <1>1, StackLoneRefresh, StackWindowInv, PTL
=============================================================================
