----------------------------- MODULE GameServer ------------------------------
(***************************************************************************)
(* tools/fake_game_server.py against the matchmaker it sends heartbeats    *)
(* to: the wait for health, register-or-login, the UDP bind, the heartbeat *)
(* loop and its timeouts, the signals; and, on the other side, a           *)
(* matchmaker that may answer late, answer 5xx, die and come back.         *)
(*                                                                         *)
(* The matchmaker is the atomic service of AccountService, reduced to what *)
(* concerns one server: whether it knows the token, and how old the row's  *)
(* last_heartbeat is.  The handler reads the clock before it waits for the *)
(* storage lock, so a heartbeat is stamped in one step and stored in       *)
(* another.  Time advances in ticks; an age of TTL stands for every age    *)
(* the listing filters out and for the absence of the row.                 *)
(***************************************************************************)
EXTENDS Integers, Sequences, SequencesExt

CONSTANTS
  TTL,          (* SERVER_TTL_SEC, in ticks                                *)
  HeartbeatS,   (* --heartbeat-s, in ticks                                 *)
  Timeout,      (* the most ticks a heartbeat request may last             *)
  WaitTimeout,  (* --wait-timeout, in ticks                                *)
  MaxMisses,    (* bound of the model: misses are counted up to here       *)
  MaxFaults,    (* bound of the model: 5xx answers and client timeouts     *)
  MaxRestarts   (* bound of the model: deaths of the matchmaker            *)

ASSUME GameServerAssumption ==
  /\ TTL \in Nat \ {0} /\ HeartbeatS \in Nat \ {0} /\ Timeout \in Nat \ {0}
  /\ WaitTimeout \in Nat /\ MaxMisses \in Nat
  /\ MaxFaults \in Nat /\ MaxRestarts \in Nat

VARIABLES
  durable,   (* the matchmaker's backend is SQLite, not memory             *)
  up,        (* the matchmaker's process runs                              *)
  session,   (* it knows the token the game server holds                   *)
  age,       (* ticks since the row's last_heartbeat; TTL: stale or absent *)
  late,      (* heartbeats given up by their client and not yet stamped    *)
  lateStamps,(* ages of the stamps of those stamped and not yet stored     *)
  phase,     (* where the game server's main is                            *)
  timer,     (* ticks left of a wait, or ticks a request has lasted        *)
  req,       (* the heartbeat in flight: see GameServerTypeOK              *)
  reqAge,    (* the age of its stamp while it is stamped and not stored    *)
  stop,      (* stop["flag"]                                               *)
  exit       (* the exit code                                              *)

(* Beats that ended unstored since the last one stored in time, and        *)
(* whether one was that the matchmaker still remembers and no late beat    *)
(* has since overwritten by an older stamp; no part of the programs.       *)
VARIABLES misses, fresh

VARIABLES faults, restarts   (* counted against their bounds               *)

matchmakerVars == <<durable, up, session, age, late, lateStamps, restarts>>
processVars == <<phase, timer, req, reqAge, stop, exit>>
gameServerVars == <<matchmakerVars, processVars, misses, fresh, faults>>

InLoop == phase \in {"loop", "beating", "sleeping"}

(* Mutant: the boundary of the window counts as live.                      *)
Listed_lenient == up /\ age <= TTL

(* GET /api/servers shows the row.                                         *)
Listed == up /\ age < TTL

GameServerTypeOK ==
  /\ durable \in BOOLEAN /\ up \in BOOLEAN /\ session \in BOOLEAN
  /\ age \in 0..TTL /\ late \in Nat /\ lateStamps \in Seq(0..TTL)
  /\ phase \in {"health", "auth", "bind", "loop", "beating", "sleeping",
               "exited"}
  /\ timer \in Nat
  /\ req \in {"none", "sent", "stamped", "stored", "failed"}
  /\ reqAge \in 0..TTL
  /\ req # "none" <=> phase = "beating"
  /\ stop \in BOOLEAN
  /\ exit \in {"none", "0", "1", "2", "killed"}
  /\ exit # "none" <=> phase = "exited"
  /\ misses \in 0..MaxMisses /\ fresh \in BOOLEAN
  /\ faults \in 0..MaxFaults /\ restarts \in 0..MaxRestarts

GameServerInit ==
  /\ durable \in BOOLEAN /\ up \in BOOLEAN
  /\ session = FALSE /\ age = TTL /\ late = 0 /\ lateStamps = <<>>
  /\ phase = "health" /\ timer = WaitTimeout
  /\ req = "none" /\ reqAge = 0 /\ stop = FALSE /\ exit = "none"
  /\ misses = 0 /\ fresh = FALSE
  /\ faults = 0 /\ restarts = 0

-----------------------------------------------------------------------------
(* The game server's steps before the loop.                                *)

(* Mutant: the request in flight is forgotten but not dropped.             *)
Exit_forgetful(code) ==
  /\ phase' = "exited" /\ exit' = code /\ timer' = 0
  /\ UNCHANGED <<req, reqAge, stop>>

Exit(code) ==
  /\ phase' = "exited"
  /\ exit' = code
  /\ timer' = 0 /\ req' = "none" /\ reqAge' = 0
  /\ UNCHANGED stop

GoTo(next) ==
  /\ phase' = next
  /\ UNCHANGED <<timer, req, reqAge, stop, exit>>

WaitForHealth ==
  /\ phase = "health"
  /\ \/ timer > 0 /\ up /\ GoTo("auth")
     \/ timer = 0 /\ Exit("1")
  /\ UNCHANGED <<matchmakerVars, misses, fresh, faults>>

(* A 409 of register means an earlier run created the account; any other   *)
(* refusal, a wrong password or a dead matchmaker ends the program.        *)
RegisterThenLogin ==
  /\ phase = "auth"
  /\ \/ up /\ session' = TRUE /\ GoTo("bind")
     \/ Exit("1") /\ UNCHANGED session
  /\ UNCHANGED <<durable, up, age, late, lateStamps, restarts, misses, fresh,
                 faults>>

BindUdp ==
  /\ phase = "bind"
  /\ GoTo("loop") \/ Exit("2")
  /\ UNCHANGED <<matchmakerVars, misses, fresh, faults>>

-----------------------------------------------------------------------------
(* The heartbeat loop.                                                     *)

SendBeat ==
  /\ phase = "loop" /\ ~stop
  /\ phase' = "beating" /\ req' = "sent" /\ timer' = 0
  /\ UNCHANGED <<matchmakerVars, reqAge, stop, exit, misses, fresh, faults>>

LeaveLoop ==
  /\ phase = "loop" /\ stop
  /\ Exit("0")
  /\ UNCHANGED <<matchmakerVars, misses, fresh, faults>>

(* Mutant: sleeps for twice --heartbeat-s.                                 *)
FallAsleep_twice ==
  /\ phase' = "sleeping" /\ timer' = 2 * HeartbeatS /\ req' = "none"
  /\ reqAge' = 0
  /\ misses' = IF req = "stored" \/ ~fresh \/ misses = MaxMisses
               THEN misses ELSE misses + 1
  /\ UNCHANGED <<stop, exit, fresh>>

(* The sleep is counted from the end of the beat, whether it failed or not. *)
FallAsleep ==
  /\ phase' = "sleeping" /\ timer' = HeartbeatS /\ req' = "none"
  /\ reqAge' = 0
  /\ misses' = IF req = "stored" \/ ~fresh \/ misses = MaxMisses
               THEN misses ELSE misses + 1
  /\ UNCHANGED <<stop, exit, fresh>>

BeatEnds ==
  /\ req \in {"stored", "failed"}
  /\ FallAsleep
  /\ UNCHANGED <<matchmakerVars, faults>>

(* Nobody waits for the request any more; the matchmaker handles it on.    *)
GiveUp ==
  /\ late' = IF req = "sent" /\ up THEN late + 1 ELSE late
  /\ lateStamps' = IF req = "stamped" THEN Append(lateStamps, reqAge)
                   ELSE lateStamps

(* The client gives up; the request may be stored all the same, before     *)
(* this step or after it.                                                  *)
BeatTimesOut ==
  /\ req \in {"sent", "stamped", "stored"} /\ timer > 0
  /\ faults < MaxFaults
  /\ faults' = faults + 1
  /\ FallAsleep /\ GiveUp
  /\ UNCHANGED <<durable, up, session, age, restarts>>

Wake ==
  /\ phase = "sleeping" /\ (timer = 0 \/ stop)
  /\ GoTo("loop")
  /\ UNCHANGED <<matchmakerVars, misses, fresh, faults>>

(* The end of the sleep passes between the loop's test and the subtraction *)
(* after it: time.sleep of a negative number raises ValueError, which      *)
(* nothing catches.                                                        *)
SleepRaises ==
  /\ phase = "sleeping" /\ timer = 0 /\ ~stop
  /\ Exit("1")
  /\ UNCHANGED <<matchmakerVars, misses, fresh, faults>>

(* SIGINT and SIGTERM once their handlers are installed.                   *)
Signal ==
  /\ InLoop /\ ~stop
  /\ stop' = TRUE
  /\ UNCHANGED <<matchmakerVars, phase, timer, req, reqAge, exit, misses,
                 fresh, faults>>

(* SIGKILL at any time, or any signal before the handlers are installed.   *)
Kill ==
  /\ phase # "exited"
  /\ Exit("killed") /\ GiveUp
  /\ UNCHANGED <<durable, up, session, age, restarts, misses, fresh, faults>>

-----------------------------------------------------------------------------
(* The matchmaker's side.                                                  *)

(* Mutant: the row is stored whatever the token.                           *)
StampBeat_unchecked ==
  /\ req = "sent" /\ up /\ req' = "stamped" /\ reqAge' = 0
  /\ UNCHANGED <<matchmakerVars, phase, timer, stop, exit, misses, fresh,
                 faults>>

(* The handler knows the token and has read the clock for last_heartbeat.  *)
StampBeat ==
  /\ req = "sent"
  /\ up /\ session
  /\ req' = "stamped" /\ reqAge' = 0
  /\ UNCHANGED <<matchmakerVars, phase, timer, stop, exit, misses, fresh,
                 faults>>

(* It has got the lock, stored the row and answered.                       *)
AnswerBeat ==
  /\ req = "stamped"
  /\ req' = "stored"
  /\ age' = reqAge /\ reqAge' = 0
  /\ misses' = 0 /\ fresh' = TRUE
  /\ UNCHANGED <<durable, up, session, late, lateStamps, restarts, phase,
                 timer, stop, exit, faults>>

(* 401 for a token it does not know, 5xx, or nobody listening.             *)
FailBeat ==
  /\ req \in {"sent", "stamped"}
  /\ req' = "failed" /\ reqAge' = 0
  /\ \/ ~(up /\ session) /\ UNCHANGED faults
     \/ faults < MaxFaults /\ faults' = faults + 1
  /\ UNCHANGED <<matchmakerVars, phase, timer, stop, exit, misses, fresh>>

(* Mutant: a late heartbeat is delivered again and again.                  *)
StampLate_repeated ==
  /\ late > 0 /\ session /\ lateStamps = <<>>
  /\ lateStamps' = <<0>>
  /\ UNCHANGED <<durable, up, session, age, late, restarts, processVars,
                 misses, fresh, faults>>

(* A late heartbeat is stamped when its thread gets to run, or refused.    *)
StampLate ==
  /\ late > 0
  /\ late' = late - 1
  /\ lateStamps' = IF session THEN Append(lateStamps, 0) ELSE lateStamps
  /\ UNCHANGED <<durable, up, session, age, restarts, processVars, misses,
                 fresh, faults>>

(* It is stored over whatever stamp the row has, an older or a newer one.  *)
StoreLate ==
  \E i \in DOMAIN lateStamps :
    /\ age' = lateStamps[i]
    /\ lateStamps' = RemoveAt(lateStamps, i)
    /\ fresh' = (fresh /\ lateStamps[i] <= age)
    /\ UNCHANGED <<durable, up, session, late, restarts, processVars, misses,
                   faults>>

(* A request the matchmaker has not answered fails when it dies.           *)
DropRequest ==
  /\ late' = 0 /\ lateStamps' = <<>>
  /\ req' = IF req \in {"sent", "stamped"} THEN "failed" ELSE req
  /\ reqAge' = 0

(* Mutant: the tokens are not in the database.                             *)
MatchmakerDies_forgetful ==
  /\ up /\ restarts < MaxRestarts
  /\ restarts' = restarts + 1
  /\ up' = FALSE /\ session' = FALSE
  /\ DropRequest
  /\ UNCHANGED <<durable, age, fresh, misses, phase, timer, stop, exit,
                 faults>>

MatchmakerDies ==
  /\ up /\ restarts < MaxRestarts
  /\ restarts' = restarts + 1
  /\ up' = FALSE
  /\ session' = (session /\ durable)
  /\ age' = IF durable THEN age ELSE TTL
  /\ fresh' = (fresh /\ durable)
  /\ misses' = IF durable THEN misses ELSE 0
  /\ DropRequest
  /\ UNCHANGED <<durable, phase, timer, stop, exit, faults>>

MatchmakerStarts ==
  /\ ~up
  /\ up' = TRUE
  /\ UNCHANGED <<durable, session, age, late, lateStamps, restarts,
                 processVars, misses, fresh, faults>>

-----------------------------------------------------------------------------
Older(a) == IF a < TTL THEN a + 1 ELSE TTL

(* A tick.  The process is scheduled: a wait that is over is left before   *)
(* the next tick, and no request lasts longer than Timeout.                *)
Tick ==
  /\ phase \in {"health", "sleeping"} => timer > 0
  /\ phase = "sleeping" => ~stop
  /\ phase = "beating" => timer < Timeout
  /\ phase # "loop"
  /\ age' = Older(age)
  /\ reqAge' = IF req = "stamped" THEN Older(reqAge) ELSE reqAge
  /\ lateStamps' = [i \in DOMAIN lateStamps |-> Older(lateStamps[i])]
  /\ timer' = CASE phase \in {"health", "sleeping"} -> timer - 1
                [] phase = "beating" -> timer + 1
                [] OTHER -> timer
  /\ UNCHANGED <<durable, up, session, late, restarts, phase, req, stop, exit,
                 misses, fresh, faults>>

ProcessNext ==
  \/ WaitForHealth \/ RegisterThenLogin \/ BindUdp
  \/ SendBeat \/ LeaveLoop \/ BeatEnds \/ Wake

MatchmakerAnswers ==
  StampBeat \/ AnswerBeat \/ FailBeat \/ StampLate \/ StoreLate

GameServerNext ==
  \/ ProcessNext \/ BeatTimesOut \/ SleepRaises \/ Signal \/ Kill
  \/ MatchmakerAnswers \/ MatchmakerDies \/ MatchmakerStarts
  \/ Tick

GameServerSpec == GameServerInit /\ [][GameServerNext]_gameServerVars

(* The process runs, the matchmaker answers what it receives and is        *)
(* started again, and time passes.  Nobody has to signal or to fail.       *)
GameServerFairness ==
  /\ WF_gameServerVars(ProcessNext)
  /\ WF_gameServerVars(StampBeat \/ AnswerBeat \/ FailBeat)
  /\ WF_gameServerVars(StampLate \/ StoreLate)
  /\ WF_gameServerVars(MatchmakerStarts)
  /\ WF_gameServerVars(Tick)

-----------------------------------------------------------------------------
(* Between two beats, and through as many missed beats as the windows      *)
(* leave room for, the row is inside the listing's TTL: its age is at most *)
(* what one sleep and one slow request per missed beat, and the wait for   *)
(* the lock and the answer of the last beat, add up to, until a beat its   *)
(* client gave up overwrites the row by an older stamp; the next beat that *)
(* lands restores the bound.  With 25 s, 10 s and 60 s that covers no      *)
(* missed beat when requests may be slow, one when they are not.           *)
(* (fake_game_server.py:343-369 and matchmaking_server.py:289-296 against  *)
(* SERVER_TTL_SEC.)                                                        *)
Covered == (misses + 1) * (HeartbeatS + Timeout) + Timeout < TTL

ListedWhileBeatsLand ==
  fresh /\ InLoop /\ misses < MaxMisses /\ Covered => age < TTL

(* The loop never logs in again: once the matchmaker has lost the token    *)
(* while the loop runs (a restart on the in-memory backend), the row is    *)
(* gone and this process does not bring it back (fake_game_server.py:      *)
(* 341-369 keeps the token of line 288).                                   *)
LostTokenStaysLost ==
  [][InLoop /\ ~session /\ InLoop' => ~session' /\ age' = TTL]_gameServerVars

(* On SQLite a server whose loop goes on is listed again, and for good,    *)
(* after a finite number of faults and restarts.                           *)
RunningServerStaysListed == <>[](durable /\ InLoop) => <>[]Listed

(* A server that has exited, cleanly or not, leaves the list for good,     *)
(* late heartbeats included.                                               *)
ExitedServerLeaves == phase = "exited" ~> [](age = TTL)
=============================================================================
