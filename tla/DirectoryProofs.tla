--------------------------- MODULE DirectoryProofs ---------------------------
(***************************************************************************)
(* Theorems about the server directory: heartbeats, listings and the purge *)
(* of Matchmaker, for every value of its constants.                        *)
(***************************************************************************)
EXTENDS MatchmakerProofs

(* No thread has a clock reading from the future.                          *)
TimesPast ==
  /\ \A h \in Handlers : stamp[h] <= clock
  /\ loopNow <= clock

TimesInv == TypeOK /\ Shape /\ TimesPast

LEMMA TimesStep ==
  ASSUME TimesInv, [Next]_vars
  PROVE  TimesInv'
<1>1. TypeOK' /\ Shape'
  BY NextTypes DEF TimesInv
<1>2. TimesPast'
  <2> USE DEF TimesInv, TimesPast, TypeOK, StorageTypeOK, HandlersTypeOK,
              MaintenanceTypeOK
  <2>1. ASSUME NEW h \in Handlers, Handle(h)
        PROVE  TimesPast'
    <3>1. clock' = clock /\ loopNow' = loopNow
      BY <2>1 DEF Handle, maintenanceVars
    <3>2. CASE Receive(h)
      BY <3>1, <3>2 DEF Receive, Arrive, ArriveRegister, ArriveLogin,
                        ArriveHeartbeat, ArriveServers
    <3>3. CASE Serve(h)
      <4>1. stamp'[h] \in {stamp[h], clock, 0}
        BY <3>3 DEF Serve, AddUser, GetUser, IssueToken, Authenticate,
                    ReadClock, UpsertServer, ListServers, Publish, Reply
      <4>2. \A g \in Handlers : g # h => stamp'[g] = stamp[g]
        BY <3>3, ServeTouches DEF Touches
      <4>3. stamp'[h] <= clock
        BY <4>1
      <4>4. \A g \in Handlers : stamp'[g] <= clock'
        BY <3>1, <4>2, <4>3
      <4> HIDE DEF TypeOK, StorageTypeOK, HandlersTypeOK, MaintenanceTypeOK
      <4> QED BY <3>1, <4>4
    <3> QED BY <2>1, <3>2, <3>3 DEF Handle
  <2>2. CASE Maintain
    <3>1. clock' = clock /\ stamp' = stamp
      BY <2>2 DEF Maintain, handlerVars, localVars
    <3>2. loopNow' \in {loopNow, clock, 0}
      BY <2>2 DEF Maintain, Cycle, CallLoop, Checkpoint, ReadLoopClock, Purge,
                  EndCycle, ReportCycle, WaitReturns, CycleFails,
                  SetStopEvent
    <3> QED BY <3>1, <3>2
  <2>3. CASE Tick
    BY <2>3 DEF Tick, handlerVars, localVars, maintenanceVars
  <2>4. CASE Crash
    BY <2>4 DEF Crash, DropRequests
  <2>5. CASE Restart
    BY <2>5 DEF Restart, StartLoop, handlerVars, localVars
  <2>6. CASE UNCHANGED vars
    BY <2>6 DEF vars, handlerVars, localVars, maintenanceVars
  <2> QED BY <2>1, <2>2, <2>3, <2>4, <2>5, <2>6 DEF Next
<1> QED BY <1>1, <1>2 DEF TimesInv

LEMMA TimesInit == Init => TimesInv
<1> SUFFICES ASSUME Init PROVE TimesPast
  BY InitTypes DEF TimesInv
<1> QED BY DEF Init, StorageInit, HandlersInit, MaintenanceInit, TimesPast

LEMMA TimesInvariance == Spec => []TimesInv
<1>1. TimesInv /\ [Next]_vars => TimesInv'
  BY TimesStep
<1> QED BY <1>1, TimesInit, PTL DEF Spec

-----------------------------------------------------------------------------
(* The row of s is at least as recent as t, or t is out of the purge's     *)
(* window and the row may be gone.                                         *)
OutOfWindow(t, now) ==
  IF Durable THEN t < now - MAINTENANCE_PURGE_TTL_SEC
             ELSE now - t >= MAINTENANCE_PURGE_TTL_SEC

(* A step deletes a row only by a purge, for which it is too old, or by a  *)
(* crash of the in-memory backend.                                         *)
LEMMA RowsLeaveByPurge ==
  ASSUME TimesInv, [Next]_vars, ~Crash,
         NEW s \in ServerIds, servers[s] # None, servers'[s] = None
  PROVE  OutOfWindow(servers[s].last_heartbeat, clock)
<1> USE DEF TimesInv, TypeOK, StorageTypeOK, MaintenanceTypeOK
<1>1. servers[s] \in Row
  BY DEF Row
<1>2. \A h \in Handlers : ~Handle(h)
  <2> SUFFICES ASSUME NEW h \in Handlers, Handle(h) PROVE FALSE
    OBVIOUS
  <2>1. \A n \in Nat, p \in PlayerCounts \union {Malformed} :
          [players |-> p, last_heartbeat |-> n] # None
    BY StorageAssumption DEF Row
  <2>2. CASE Receive(h)
    BY <2>2 DEF Receive, Arrive, ArriveRegister, ArriveLogin, ArriveHeartbeat,
                ArriveServers, storageVars
  <2>3. CASE Serve(h) /\ ~UpsertServer(h)
    BY <2>3 DEF Serve, AddUser, GetUser, IssueToken, Authenticate, ReadClock,
                ListServers, Publish, Reply, add_user, add_token, storageVars
  <2>4. CASE UpsertServer(h)
    <3>1. /\ req[h].players \in PlayerCounts \union {Malformed}
          /\ stamp[h] \in Nat
      BY <2>4 DEF UpsertServer, Shape, RequestShape, StepFits, FieldsFit,
                  HandlersTypeOK
    <3> QED BY <2>1, <2>4, <3>1 DEF UpsertServer, upsert_server, storageVars
  <2> QED BY <2>2, <2>3, <2>4 DEF Handle
<1>3. Purge
  BY <1>2 DEF Next, Maintain, Tick, Restart, vars, Cycle, CallLoop, Checkpoint,
              ReadLoopClock, WaitReturns, CycleFails, SetStopEvent, storageVars
<1>4. s \notin LiveIds(loopNow, MAINTENANCE_PURGE_TTL_SEC)
  BY <1>3 DEF Purge, purge_stale_servers
<1>5. loopNow <= clock /\ loopNow \in Nat /\ clock \in Nat
      /\ servers[s].last_heartbeat \in Nat
  BY <1>1 DEF TimesPast, Row
<1> QED BY <1>4, <1>5, StorageAssumption DEF LiveIds, IsLive, OutOfWindow

(* The grace period between the two windows: no purge takes a row from     *)
(* under a prompt listing that has read its clock and not yet the table    *)
(* (purge_stale_servers against list_servers).                             *)
THEOREM PurgeSparesInFlightAlways == Spec => PurgeSparesInFlight
<1> DEFINE Spares ==
      \A h \in Handlers, s \in ServerIds :
        /\ pc[h] = "query" /\ Prompt(h)
        /\ s \in LiveIds(stamp[h], SERVER_TTL_SEC)
        /\ up'
        => servers'[s] # None
<1>1. TimesInv /\ [Next]_vars => [Spares]_vars
  <2> SUFFICES ASSUME TimesInv, Next,
                      NEW h \in Handlers, NEW s \in ServerIds,
                      Prompt(h), s \in LiveIds(stamp[h], SERVER_TTL_SEC),
                      up', servers'[s] = None
               PROVE  FALSE
    OBVIOUS
  <2>1. ~Crash
    BY DEF Crash
  <2>2. servers[s] # None /\ IsLive(servers[s], stamp[h], SERVER_TTL_SEC)
    BY DEF LiveIds
  <2>3. OutOfWindow(servers[s].last_heartbeat, clock)
    BY <2>1, <2>2, RowsLeaveByPurge
  <2>4. /\ servers[s].last_heartbeat \in Nat /\ stamp[h] \in Nat
        /\ clock \in Nat
    BY <2>2 DEF TimesInv, TypeOK, StorageTypeOK, HandlersTypeOK, Row
  <2> QED
    BY <2>2, <2>3, <2>4, StorageAssumption DEF Prompt, IsLive, OutOfWindow
<1> QED BY <1>1, TimesInvariance, PTL DEF Spec, PurgeSparesInFlight

-----------------------------------------------------------------------------
(***************************************************************************)
(* An acknowledged heartbeat.  Its row is there, at least as recent, or    *)
(* the heartbeat is out of the purge's window.                             *)
(***************************************************************************)
Kept(s, t) ==
  \/ servers[s] # None /\ servers[s].last_heartbeat >= t
  \/ OutOfWindow(t, clock)

Beating(h) == req[h].endpoint = "heartbeat" /\ req[h].server_id # None

(* Nothing older than the floor of h waits to be stored for its server.    *)
FloorHolds(h) ==
  Beating(h) =>
    /\ floor[h] <= clock
    /\ \A g \in Handlers :
         pc[g] = "upsert" /\ req[g].server_id = req[h].server_id
           => floor[h] <= stamp[g]

(* What a heartbeat is about to store is not older than what was promised  *)
(* of its server, and what it has stored is not overtaken by older stamps  *)
(* than its floor before it replies.                                       *)
BeatFits(h) ==
  LET s == req[h].server_id IN
  /\ pc[h] = "upsert" => beats[s] = None \/ beats[s] <= stamp[h]
  /\ result[h] = "beat" => Kept(s, floor[h])

AckedKept ==
  \A s \in ServerIds :
    beats[s] # None => beats[s] <= clock /\ Kept(s, beats[s])

DirectoryInv ==
  /\ TimesInv
  /\ \A h \in Handlers : FloorHolds(h)
  /\ \A h \in Handlers : BeatFits(h)
  /\ AckedKept

(* Every step keeps the floors: a heartbeat that reads the clock later     *)
(* reads at least the floor of every heartbeat in flight.                  *)
LEMMA FloorsHold ==
  ASSUME TimesInv, \A h \in Handlers : FloorHolds(h), [Next]_vars
  PROVE  (\A h \in Handlers : FloorHolds(h))'
<1> USE DEF TimesInv
<1>0. /\ clock \in Nat /\ stamp \in [Handlers -> Nat]
      /\ floor \in [Handlers -> Nat] /\ pc \in [Handlers -> Pc]
      /\ req \in [Handlers -> Request] /\ result \in [Handlers -> Results]
  BY DEF TypeOK, StorageTypeOK, HandlersTypeOK
<1>1. ASSUME NEW h \in Handlers, Handle(h)
      PROVE  (\A f \in Handlers : FloorHolds(f))'
  <2>0. clock' = clock
    BY <1>1 DEF Handle
  <2>1. CASE Receive(h)
    <3>1. /\ pc'[h] # "upsert" /\ UNCHANGED stamp /\ pc[h] = "idle"
          /\ \A g \in Handlers : g # h => pc'[g] = pc[g] /\ req'[g] = req[g]
      BY <1>0, <2>1 DEF Receive, Arrive, ArriveRegister, ArriveLogin,
                        ArriveHeartbeat, ArriveServers, Goto
    <3>2. \A g \in Handlers : g # h => floor'[g] = floor[g]
      BY <1>0, <2>1 DEF Receive, ArriveRegister, ArriveLogin, ArriveHeartbeat,
                        ArriveServers
    <3>3. \A g \in Handlers : g # h => FloorHolds(g)'
      BY <2>0, <3>1, <3>2 DEF FloorHolds, Beating
    <3>4. FloorHolds(h)'
      <4>1. CASE ArriveHeartbeat(h)
        <5>1. PICK s \in ServerIds \union {None} :
                /\ req'[h].server_id = s
                /\ floor'[h] \in Readings(s)
                /\ \A r \in Readings(s) : floor'[h] <= r
          BY <1>0, <4>1 DEF ArriveHeartbeat, Arrive, NoRequest
        <5>2. clock \in Readings(s)
              /\ \A g \in Handlers :
                   pc[g] = "upsert" /\ req[g].server_id = s
                     => stamp[g] \in Readings(s)
          BY DEF Readings
        <5> QED BY <2>0, <3>1, <5>1, <5>2 DEF FloorHolds
      <4>2. CASE ~ArriveHeartbeat(h)
        <5>1. req'[h].endpoint # "heartbeat"
          BY <1>0, <2>1, <4>2 DEF Receive, Arrive, ArriveRegister, ArriveLogin,
                                  ArriveServers, NoRequest
        <5> QED BY <5>1 DEF FloorHolds, Beating
      <4> QED BY <4>1, <4>2
    <3> QED BY <3>3, <3>4
  <2>2. CASE Serve(h)
    <3>1. Touches(h)
      BY <2>2, ServeTouches
    <3>2. req'[h] \in {req[h], NoRequest}
      BY <1>0, <2>2 DEF Serve, AddUser, GetUser, IssueToken, Authenticate,
                  ReadClock, UpsertServer, ListServers, Publish, Reply
    <3>3. Beating(h)' => floor'[h] = floor[h] /\ req'[h] = req[h]
      <4>1. Reply(h) => ~Beating(h)'
        BY <1>0 DEF Reply, NoRequest, Beating
      <4>2. ~Reply(h) => floor' = floor
        BY <2>2 DEF Serve, AddUser, GetUser, IssueToken, Authenticate,
                    ReadClock, UpsertServer, ListServers, Publish, clientVars
      <4> QED BY <3>2, <4>1, <4>2 DEF Beating, NoRequest
    <3>4. pc'[h] = "upsert" => stamp'[h] = clock
      BY <1>0, <2>2 DEF Serve, AddUser, GetUser, IssueToken, Authenticate,
                  ReadClock, UpsertServer, ListServers, Publish, Reply, Goto,
                  Answer
    <3>5. ASSUME NEW f \in Handlers, Beating(f)'
          PROVE  Beating(f) /\ floor'[f] = floor[f] /\ req'[f] = req[f]
      BY <3>1, <3>3, <3>5 DEF Touches, Beating
    <3>6. ASSUME NEW f \in Handlers, Beating(f)', NEW g \in Handlers,
                 pc'[g] = "upsert", req'[g].server_id = req'[f].server_id
          PROVE  floor'[f] <= stamp'[g]
      <4>1. Beating(f) /\ floor'[f] = floor[f] /\ req'[f] = req[f]
            /\ FloorHolds(f)
        BY <3>5, <3>6
      <4>2. CASE g = h
        BY <3>4, <3>6, <4>1, <4>2 DEF FloorHolds
      <4>3. CASE g # h
        BY <3>1, <3>6, <4>1, <4>3 DEF FloorHolds, Touches
      <4> QED BY <4>2, <4>3
    <3> QED BY <2>0, <3>5, <3>6 DEF FloorHolds
  <2> QED BY <1>1, <2>1, <2>2 DEF Handle
<1>2. CASE Crash
  BY <1>2 DEF Crash, DropRequests, NoRequest, FloorHolds, Beating
<1>3. CASE Maintain \/ Tick \/ Restart \/ UNCHANGED vars
  <2>1. UNCHANGED <<pc, req, stamp, floor>> /\ clock <= clock'
    BY <1>0, <1>3 DEF Maintain, Tick, Restart, vars, handlerVars, localVars,
                      clientVars
  <2>2. clock' \in Nat
    BY <1>0, <1>3 DEF Maintain, Tick, Restart, vars
  <2> QED BY <1>0, <2>1, <2>2 DEF FloorHolds, Beating
<1> QED BY <1>1, <1>2, <1>3 DEF Next

(* Kept outlives every step that does not store a row for s.               *)
LEMMA KeptSurvives ==
  ASSUME TimesInv, [Next]_vars, ~Crash \/ Durable,
         NEW s \in ServerIds, NEW t \in Nat, Kept(s, t),
         servers'[s] \in {servers[s], None}
  PROVE  Kept(s, t)'
<1>1. clock \in Nat /\ clock' \in Nat /\ clock <= clock'
  <2>1. clock \in Nat
    BY DEF TimesInv, TypeOK, StorageTypeOK
  <2>2. clock' = clock \/ clock' = clock + 1
    BY DEF Next, Handle, Maintain, Tick, Crash, Restart, vars
  <2> QED BY <2>1, <2>2
<1>2. OutOfWindow(t, clock) => OutOfWindow(t, clock')
  BY <1>1, StorageAssumption DEF OutOfWindow
<1>3. CASE servers'[s] = servers[s]
  BY <1>2, <1>3 DEF Kept
<1>4. CASE servers'[s] = None /\ servers[s] # None
  <2>1. ~Crash
    BY <1>4 DEF Crash, reopen, storageVars
  <2>2. OutOfWindow(servers[s].last_heartbeat, clock)
    BY <1>4, <2>1, RowsLeaveByPurge
  <2>3. servers[s].last_heartbeat \in Nat
    BY <1>4 DEF TimesInv, TypeOK, StorageTypeOK, Row
  <2>4. OutOfWindow(t, clock)
    BY <1>1, <2>2, <2>3, StorageAssumption DEF Kept, OutOfWindow
  <2> QED BY <1>2, <2>4 DEF Kept
<1> QED BY <1>3, <1>4

(* What a step does to a handler that is not its own, where no row with a  *)
(* claim on it is overwritten.                                             *)
LEMMA OthersFit ==
  ASSUME TimesInv, [Next]_vars, ~Crash, NEW g \in Handlers, BeatFits(g),
         pc'[g] = pc[g], req'[g] = req[g], stamp'[g] = stamp[g],
         result'[g] = result[g], floor'[g] = floor[g],
         pc[g] = "upsert" \/ result[g] = "beat"
           => /\ beats'[req[g].server_id] = beats[req[g].server_id]
              /\ servers'[req[g].server_id]
                   \in {servers[req[g].server_id], None}
  PROVE  BeatFits(g)'
<1> DEFINE s == req[g].server_id
<1>1. floor[g] \in Nat
  BY DEF TimesInv, TypeOK, HandlersTypeOK
<1>2. ASSUME result[g] = "beat" PROVE Kept(s, floor[g])'
  <2>1. s \in ServerIds
    BY <1>2 DEF TimesInv, Shape, RequestShape
  <2>2. Kept(s, floor[g])
    BY <1>2 DEF BeatFits
  <2>3. servers'[s] \in {servers[s], None}
    BY <1>2
  <2>4. PICK r \in ServerIds, t \in Nat : r = s /\ t = floor[g]
    BY <1>1, <2>1
  <2>5. Kept(r, t)'
    BY <2>2, <2>3, <2>4, KeptSurvives
  <2>6. r = s' /\ t = floor'[g]
    BY <2>4
  <2> QED BY <2>5, <2>6 DEF Kept
<1> QED BY <1>2 DEF BeatFits, Kept

LEMMA ServeKeepsDirectory ==
  ASSUME DirectoryInv, NEW h \in Handlers, Handle(h), Serve(h), ~Crash
  PROVE  (\A g \in Handlers : BeatFits(g))' /\ AckedKept'
<1> DEFINE s == req[h].server_id
<1> USE DEF DirectoryInv
<1>0. Next
  BY DEF Next
<1>1. clock' = clock /\ clock \in Nat
  BY DEF Handle, TimesInv, TypeOK, StorageTypeOK
<1>2. Touches(h)
  BY ServeTouches DEF TimesInv
<1>3. RequestShape(h) /\ BeatFits(h) /\ FloorHolds(h)
      /\ stamp[h] \in Nat /\ stamp[h] <= clock /\ floor[h] \in Nat
  BY DEF TimesInv, Shape, TimesPast, TypeOK, HandlersTypeOK
<1>4. ASSUME NEW g \in Handlers, pc[g] = "upsert" \/ result[g] = "beat"
      PROVE  Beating(g) /\ req[g].server_id \in ServerIds
  BY <1>4, StorageAssumption
     DEF TimesInv, Shape, RequestShape, StepFits, ResultFits, Beating
<1>5. CASE UpsertServer(h) /\ result'[h] = "beat"
  <2>1. s \in ServerIds /\ s # None /\ req[h].endpoint = "heartbeat"
    BY <1>3, <1>5, StorageAssumption
       DEF UpsertServer, RequestShape, StepFits
  <2>2. /\ servers'[s] = [players |-> req[h].players,
                          last_heartbeat |-> stamp[h]]
        /\ \A r \in ServerIds : r # s => servers'[r] = servers[r]
    <3>1. servers \in [ServerIds -> Row \union {None}] /\ result \in [Handlers -> Results]
      BY DEF TimesInv, TypeOK, StorageTypeOK, HandlersTypeOK
    <3> QED BY <1>5, <2>1, <3>1 DEF UpsertServer, upsert_server, Answer
  <2>3. servers'[s] # None /\ servers'[s].last_heartbeat = stamp[h]
    <3>1. req[h].players \in PlayerCounts \union {Malformed}
      BY <1>3, <2>1 DEF RequestShape, FieldsFit
    <3>2. [players |-> req[h].players, last_heartbeat |-> stamp[h]] \in Row
      BY <1>3, <3>1 DEF Row
    <3> QED BY <2>2, <3>2, StorageAssumption
  <2>4. UNCHANGED <<beats, floor>> /\ pc'[h] = "reply"
    BY <1>5 DEF UpsertServer, Answer, Goto, clientVars, TimesInv, TypeOK,
                HandlersTypeOK
  <2>5. UNCHANGED <<req, stamp>> /\ pc[h] = "upsert"
    BY <1>5 DEF UpsertServer
  <2>6. BeatFits(h)'
    <3>1. floor[h] <= stamp[h]
      BY <1>3, <1>4, <2>5 DEF FloorHolds
    <3> QED BY <1>3, <2>3, <2>4, <2>5, <3>1 DEF BeatFits, Kept
  <2>7. ASSUME NEW g \in Handlers, g # h PROVE BeatFits(g)'
    <3>1. CASE result[g] = "beat" /\ req[g].server_id = s
      <4>1. floor[g] <= stamp[h] /\ floor[g] \in Nat
        BY <1>4, <2>5, <3>1 DEF FloorHolds, TimesInv, TypeOK, HandlersTypeOK
      <4>2. s' = s /\ floor' = floor
        BY <2>4, <2>5
      <4>3. servers'[s] # None /\ servers'[s].last_heartbeat >= floor[g]
        BY <1>3, <2>3, <4>1
      <4>4. pc'[g] # "upsert"
        BY <1>2, <2>7, <3>1 DEF Touches, TimesInv, Shape, RequestShape
      <4>5. req'[g].server_id = s
        BY <2>5, <3>1
      <4> QED BY <4>2, <4>3, <4>4, <4>5 DEF BeatFits, Kept
    <3>2. CASE pc[g] = "upsert" /\ result[g] # "beat"
      <4>1. /\ pc'[g] = "upsert" /\ result'[g] # "beat"
            /\ UNCHANGED <<beats, req, stamp>> /\ BeatFits(g)
        BY <1>2, <2>4, <2>5, <2>7, <3>2 DEF Touches
      <4> QED BY <3>2, <4>1 DEF BeatFits
    <3>3. CASE ~(result[g] = "beat" /\ req[g].server_id = s)
               /\ ~(pc[g] = "upsert" /\ result[g] # "beat")
      <4>1. pc[g] = "upsert" \/ result[g] = "beat"
              => req[g].server_id \in ServerIds /\ req[g].server_id # s
        BY <1>4, <3>3
      <4> QED BY <1>0, <1>2, <2>2, <2>4, <2>7, <4>1, OthersFit DEF Touches
    <3> QED BY <3>1, <3>2, <3>3
  <2>8. ASSUME NEW r \in ServerIds, beats'[r] # None
        PROVE  beats'[r] <= clock' /\ Kept(r, beats[r])'
    <3>1. beats[r] # None /\ beats[r] <= clock /\ beats[r] \in Nat
      BY <2>4, <2>8 DEF AckedKept, TimesInv, TypeOK, HandlersTypeOK
    <3>2. CASE r = s
      <4>1. beats[r] <= stamp[h]
        BY <1>3, <1>5, <3>1, <3>2 DEF BeatFits, UpsertServer
      <4> QED BY <1>1, <1>3, <2>3, <2>4, <3>1, <3>2, <4>1 DEF Kept
    <3>3. CASE r # s
      <4>1. Kept(r, beats[r]) /\ servers'[r] = servers[r]
        BY <2>2, <3>1, <3>3 DEF AckedKept
      <4> QED BY <1>1, <2>4, <3>1, <4>1 DEF Kept
    <3> QED BY <3>2, <3>3
  <2> QED BY <2>6, <2>7, <2>8 DEF AckedKept, Kept
<1>6. CASE Reply(h) /\ result[h] = "beat"
  <2>1. s \in ServerIds /\ Beating(h)
    BY <1>4, <1>6
  <2>2. /\ beats' = [beats EXCEPT ![s] = floor[h]]
        /\ pc'[h] = "idle" /\ result'[h] = "none"
        /\ UNCHANGED servers
    BY <1>6 DEF Reply, Goto, storageVars, TimesInv, TypeOK, HandlersTypeOK
  <2>3. BeatFits(h)'
    BY <2>2 DEF BeatFits
  <2>0. beats \in [ServerIds -> Nat \union {None}]
    BY DEF TimesInv, TypeOK, HandlersTypeOK
  <2>4. ASSUME NEW g \in Handlers, g # h PROVE BeatFits(g)'
    <3>1. CASE pc[g] = "upsert" /\ req[g].server_id = s
      <4>1. floor[h] <= stamp[g]
        BY <1>3, <2>1, <3>1 DEF FloorHolds
      <4>2. result[g] # "beat"
        BY <3>1 DEF TimesInv, Shape, RequestShape
      <4>3. /\ beats'[s] = floor[h] /\ req'[g].server_id = s
            /\ stamp'[g] = stamp[g] /\ result'[g] # "beat"
        BY <1>2, <2>0, <2>1, <2>2, <2>4, <3>1, <4>2 DEF Touches
      <4> QED BY <4>1, <4>3 DEF BeatFits
    <3>2. CASE result[g] = "beat" /\ pc[g] # "upsert"
      <4>1. /\ pc'[g] # "upsert" /\ req'[g] = req[g] /\ floor'[g] = floor[g]
            /\ result'[g] = "beat"
        BY <1>2, <2>4, <3>2 DEF Touches
      <4>2. Kept(req[g].server_id, floor[g])
        BY <3>2 DEF BeatFits
      <4> QED BY <1>1, <2>2, <4>1, <4>2 DEF BeatFits, Kept
    <3>3. CASE ~(pc[g] = "upsert" /\ req[g].server_id = s)
               /\ ~(result[g] = "beat" /\ pc[g] # "upsert")
      <4>1. pc[g] = "upsert" \/ result[g] = "beat"
              => req[g].server_id \in ServerIds /\ req[g].server_id # s
        BY <1>4, <3>3
      <4> QED BY <1>0, <1>2, <2>0, <2>2, <2>4, <4>1, OthersFit DEF Touches
    <3> QED BY <3>1, <3>2, <3>3
  <2>5. AckedKept'
    <3>1. Kept(s, floor[h])
      BY <1>3, <1>6 DEF BeatFits
    <3>2. floor[h] <= clock
      BY <1>3, <2>1 DEF FloorHolds
    <3>3. \A r \in ServerIds : beats'[r] = IF r = s THEN floor[h] ELSE beats[r]
      BY <2>0, <2>1, <2>2
    <3> QED BY <1>1, <2>2, <3>1, <3>2, <3>3 DEF AckedKept, Kept
  <2> QED BY <2>3, <2>4, <2>5
<1>7. CASE ~(UpsertServer(h) /\ result'[h] = "beat")
           /\ ~(Reply(h) /\ result[h] = "beat")
  <2>1. UNCHANGED <<servers, beats>>
    BY <1>7 DEF Serve, AddUser, GetUser, IssueToken, Authenticate, ReadClock,
                UpsertServer, ListServers, Publish, Reply, add_user, add_token,
                storageVars, clientVars, Answer, TimesInv, TypeOK,
                HandlersTypeOK
  <2>2. AckedKept'
    BY <1>1, <2>1 DEF AckedKept, Kept
  <2>3. \A g \in Handlers : g # h => BeatFits(g)'
    BY <1>0, <1>2, <2>1, OthersFit DEF Touches
  <2>4. BeatFits(h)'
    <3>1. CASE ReadClock(h) /\ pc[h] = "now_beat"
      <4>1. /\ s \in ServerIds /\ stamp'[h] = clock /\ req' = req
            /\ result' = result /\ result[h] # "beat"
        BY <1>3, <3>1 DEF ReadClock, RequestShape, TimesInv, TypeOK,
                          HandlersTypeOK
      <4> QED BY <2>1, <4>1 DEF BeatFits, AckedKept
    <3>2. CASE ~(ReadClock(h) /\ pc[h] = "now_beat")
      <4>1. pc'[h] # "upsert" /\ result'[h] # "beat"
        BY <1>3, <1>7, <3>2
           DEF Serve, AddUser, GetUser, IssueToken, Authenticate, ReadClock,
               UpsertServer, ListServers, Publish, Reply, Goto, Answer,
               RequestShape, TimesInv, TypeOK, HandlersTypeOK
      <4> QED BY <4>1 DEF BeatFits
    <3> QED BY <3>1, <3>2
  <2> QED BY <2>2, <2>3, <2>4
<1> QED BY <1>5, <1>6, <1>7

(* The other steps: the maintenance thread, the clock, a crash, a restart. *)
LEMMA OthersKeepDirectory ==
  ASSUME DirectoryInv, Maintain \/ Tick \/ Crash \/ Restart \/ UNCHANGED vars
  PROVE  (\A g \in Handlers : BeatFits(g))' /\ AckedKept'
<1> USE DEF DirectoryInv
<1>0. [Next]_vars
  BY DEF Next
<1>1. CASE Crash
  <2>1. \A g \in Handlers : pc'[g] = "idle" /\ result'[g] = "none"
    BY <1>1 DEF Crash, DropRequests
  <2>2. CASE Durable
    BY <1>1, <2>1, <2>2 DEF Crash, DropRequests, reopen, storageVars, BeatFits,
                            AckedKept, Kept
  <2>3. CASE ~Durable
    BY <1>1, <2>1, <2>3 DEF Crash, DropRequests, BeatFits, AckedKept
  <2> QED BY <2>2, <2>3
<1>2. CASE ~Crash
  <2>1. UNCHANGED <<pc, req, stamp, result, floor, beats>>
    BY <1>2 DEF Maintain, Tick, Restart, vars, handlerVars, localVars, clientVars
  <2>2. \A r \in ServerIds : servers'[r] \in {servers[r], None}
    BY <1>2 DEF Maintain, Tick, Restart, vars, storageVars, Cycle, CallLoop,
                Checkpoint, ReadLoopClock, Purge, purge_stale_servers,
                WaitReturns, CycleFails, SetStopEvent
  <2>3. ASSUME NEW g \in Handlers PROVE BeatFits(g)'
    <3>1. pc[g] = "upsert" \/ result[g] = "beat"
            => req[g].server_id \in ServerIds
      BY DEF TimesInv, Shape, RequestShape
    <3> QED BY <1>0, <1>2, <2>1, <2>2, <3>1, OthersFit
  <2>4. ASSUME NEW r \in ServerIds, beats[r] # None
        PROVE  beats[r] <= clock' /\ Kept(r, beats[r])'
    <3>1. beats[r] \in Nat /\ beats[r] <= clock /\ Kept(r, beats[r])
      BY <2>4 DEF AckedKept, TimesInv, TypeOK, HandlersTypeOK
    <3>2. beats[r] <= clock'
      <4>1. clock \in Nat
        BY DEF TimesInv, TypeOK, StorageTypeOK
      <4>2. clock' = clock \/ clock' = clock + 1
        BY <1>2 DEF Maintain, Tick, Restart, vars
      <4> QED BY <3>1, <4>1, <4>2
    <3>3. PICK t \in Nat : t = beats[r]
      BY <3>1
    <3>4. Kept(r, t)'
      BY <1>0, <1>2, <2>2, <3>1, <3>3, KeptSurvives
    <3>5. t = beats'[r]
      BY <2>1, <3>3
    <3> QED BY <3>2, <3>4, <3>5 DEF Kept
  <2>5. AckedKept'
    BY <2>1, <2>4 DEF AckedKept, Kept
  <2> QED BY <2>3, <2>5
<1> QED BY <1>1, <1>2

(* A request that arrives is not at a step the invariant speaks of.        *)
LEMMA ArrivalsKeepDirectory ==
  ASSUME DirectoryInv, NEW h \in Handlers, Handle(h), Receive(h), ~Crash
  PROVE  (\A g \in Handlers : BeatFits(g))' /\ AckedKept'
<1> USE DEF DirectoryInv
<1>1. /\ UNCHANGED <<servers, beats, clock, stamp, result>>
      /\ \A g \in Handlers : g # h => pc'[g] = pc[g] /\ req'[g] = req[g]
                                    /\ floor'[g] = floor[g]
      /\ pc[h] = "idle" /\ pc'[h] # "upsert"
  BY DEF Handle, Receive, Arrive, ArriveRegister, ArriveLogin, ArriveHeartbeat,
         ArriveServers, Goto, storageVars, clientVars, TimesInv, TypeOK,
         HandlersTypeOK
<1>2. result'[h] # "beat"
  BY <1>1 DEF TimesInv, Shape, RequestShape
<1>3. \A g \in Handlers : BeatFits(g)'
  BY <1>1, <1>2 DEF BeatFits, Kept
<1>4. AckedKept'
  BY <1>1 DEF AckedKept, Kept
<1> QED BY <1>3, <1>4

LEMMA DirectoryStep ==
  ASSUME DirectoryInv, [Next]_vars
  PROVE  DirectoryInv'
<1>1. TimesInv' /\ (\A h \in Handlers : FloorHolds(h))'
  BY TimesStep, FloorsHold DEF DirectoryInv
<1>2. ASSUME NEW h \in Handlers, Handle(h)
      PROVE  (\A g \in Handlers : BeatFits(g))' /\ AckedKept'
  <2>1. CASE ~Crash
    BY <1>2, <2>1, ServeKeepsDirectory, ArrivalsKeepDirectory DEF Handle
  <2>2. CASE Crash
    BY <2>2, OthersKeepDirectory
  <2> QED BY <2>1, <2>2
<1>3. (\A g \in Handlers : BeatFits(g))' /\ AckedKept'
  BY <1>2, OthersKeepDirectory DEF Next
<1> QED BY <1>1, <1>3 DEF DirectoryInv

LEMMA DirectoryInit == Init => DirectoryInv
<1> SUFFICES ASSUME Init PROVE DirectoryInv
  OBVIOUS
<1>1. TimesInv
  BY TimesInit
<1> QED BY <1>1 DEF Init, HandlersInit, NoRequest, DirectoryInv, FloorHolds,
                    Beating, BeatFits, AckedKept

(***************************************************************************)
(* A server whose heartbeat was answered is in every prompt listing of the *)
(* window that starts at the heartbeat's floor, on either backend, in      *)
(* spite of overlapping heartbeats, other requests, purges, crashes and    *)
(* restarts (heartbeat, list_servers and run_maintenance_loop together).   *)
(***************************************************************************)
THEOREM AckedServerListedAlways == Spec => AckedServerListed
<1> DEFINE Lists ==
      \A h \in Handlers :
        pc[h] = "query" /\ pc'[h] = "publish" /\ Prompt(h)
          => ListsAckedServers(h)
<1>1. DirectoryInv /\ [Next]_vars => DirectoryInv'
  BY DirectoryStep
<1>2. DirectoryInv /\ [Next]_vars => [Lists]_vars
  <2> SUFFICES ASSUME DirectoryInv, Next,
                      NEW h \in Handlers, NEW s \in ServerIds,
                      pc[h] = "query", pc'[h] = "publish", Prompt(h),
                      beats[s] # None, stamp[h] - beats[s] < SERVER_TTL_SEC
               PROVE  \E i \in DOMAIN listing'[h] : listing'[h][i].id = s
    BY DEF ListsAckedServers
  <2> USE DEF DirectoryInv, TimesInv, TypeOK, StorageTypeOK, HandlersTypeOK
  <2>1. /\ stamp[h] \in Nat /\ beats[s] \in Nat /\ clock \in Nat
        /\ SERVER_TTL_SEC \in Nat /\ MAINTENANCE_PURGE_TTL_SEC \in Nat
    BY StorageAssumption
  <2>2. servers[s] # None /\ servers[s].last_heartbeat >= beats[s]
    <3>1. clock - stamp[h] <= MAINTENANCE_PURGE_TTL_SEC - SERVER_TTL_SEC
      BY DEF Prompt
    <3>2. clock - beats[s] < MAINTENANCE_PURGE_TTL_SEC
      BY <2>1, <3>1
    <3>3. ~OutOfWindow(beats[s], clock)
      BY <2>1, <3>2 DEF OutOfWindow
    <3>4. Kept(s, beats[s])
      BY Zenon DEF AckedKept
    <3> QED BY <3>3, <3>4 DEF Kept
  <2>3. servers[s].last_heartbeat \in Nat
    BY <2>2 DEF Row
  <2>4. s \in LiveIds(stamp[h], SERVER_TTL_SEC)
    BY <2>1, <2>2, <2>3 DEF LiveIds, IsLive
  <2> DEFINE rows == list_live_servers(stamp[h], SERVER_TTL_SEC)
  <2>5. \E r \in rows : r.id = s
    <3> DEFINE r == [id |-> s, players |-> servers[s].players,
                     last_heartbeat |-> servers[s].last_heartbeat]
    <3>1. r \in rows /\ r.id = s
      BY <2>4 DEF list_live_servers
    <3> QED BY <3>1
  <2>6. ListServers(h)
    <3>1. PICK g \in Handlers : Handle(g)
      BY DEF Next, Maintain, Tick, Crash, Restart, handlerVars, localVars,
             DropRequests
    <3>2. CASE Receive(g)
      BY <3>1, <3>2 DEF Receive, Arrive, ArriveRegister, ArriveLogin,
                        ArriveHeartbeat, ArriveServers, Goto
    <3>3. CASE Serve(g)
      BY <3>3 DEF Serve, AddUser, GetUser, IssueToken, Authenticate, ReadClock,
                  UpsertServer, ListServers, Publish, Reply, Goto, Answer
    <3> QED BY <3>1, <3>2, <3>3 DEF Handle
  <2>7. PICK q \in ByPlayersDesc(rows) : listing' = [listing EXCEPT ![h] = q]
    BY <2>6 DEF ListServers, Answer, Goto
  <2>8. listing'[h] = q /\ DOMAIN q = 1..Cardinality(rows)
    BY <2>7 DEF ByPlayersDesc
  <2>9. \A r \in rows : \E i \in 1..Cardinality(rows) : q[i] = r
    BY <2>7 DEF ByPlayersDesc
  <2> QED BY <2>5, <2>8, <2>9
<1> QED BY <1>1, <1>2, DirectoryInit, PTL DEF Spec, AckedServerListed

-----------------------------------------------------------------------------
(***************************************************************************)
(* Listings.  SqliteStorage converts a row's numbers before it stores the  *)
(* row, so there is never one in the table that a listing cannot convert.  *)
(***************************************************************************)
RowsConvert ==
  \A s \in ServerIds : servers[s] # None => servers[s].players # Malformed

ListingInv == TypeOK /\ Shape /\ RowsConvert /\ ListingNeverFails

LEMMA ServeKeepsRows ==
  ASSUME TypeOK, Shape, RowsConvert, Durable, NEW h \in Handlers, Serve(h)
  PROVE  RowsConvert'
<1>1. CASE UpsertServer(h)
  <2>1. CASE UNCHANGED storageVars
    BY <2>1 DEF storageVars, RowsConvert
  <2>2. CASE upsert_server(req[h].server_id, req[h].players, stamp[h])
    <3>1. req[h].players # Malformed
      BY <2>2 DEF upsert_server, UpsertRaises
    <3> QED BY <2>2, <3>1
            DEF upsert_server, RowsConvert, TypeOK, StorageTypeOK
  <2> QED BY <1>1, <2>1, <2>2 DEF UpsertServer
<1>2. CASE ~UpsertServer(h)
  <2>1. servers' = servers
    BY <1>2 DEF Serve, AddUser, GetUser, IssueToken, Authenticate, ReadClock,
                ListServers, Publish, Reply, add_user, add_token, storageVars
  <2> QED BY <2>1 DEF RowsConvert
<1> QED BY <1>1, <1>2

LEMMA ServeKeepsListings ==
  ASSUME TypeOK, Shape, RowsConvert, ListingNeverFails, NEW h \in Handlers,
         Serve(h)
  PROVE  ListingNeverFails'
<1>1. ~(req'[h].endpoint = "servers" /\ result'[h] = "error")
  <2>1. ~ListingRaises(stamp[h], SERVER_TTL_SEC)
    BY DEF RowsConvert, ListingRaises, LiveIds
  <2>2. pc[h] # "reply" => result[h] # "error"
    BY DEF Shape, RequestShape
  <2>3. CASE UpsertServer(h)
    BY <2>3 DEF UpsertServer, Shape, RequestShape, StepFits
  <2>4. CASE Reply(h)
    BY <2>4 DEF Reply, TypeOK, HandlersTypeOK
  <2>5. CASE ~UpsertServer(h) /\ ~Reply(h)
    <3>1. result'[h] # "error"
      BY <2>1, <2>2, <2>5
         DEF Serve, AddUser, GetUser, IssueToken, Authenticate, ReadClock,
             ListServers, Publish, Answer, Goto, TypeOK, HandlersTypeOK
    <3> QED BY <3>1
  <2> QED BY <2>3, <2>4, <2>5
<1>2. ASSUME NEW g \in Handlers, g # h
      PROVE  ~(req'[g].endpoint = "servers" /\ result'[g] = "error")
  BY <1>2, ServeTouches DEF Touches, ListingNeverFails
<1> QED BY <1>1, <1>2 DEF ListingNeverFails

LEMMA ListingStep ==
  ASSUME ListingInv, Durable, [Next]_vars
  PROVE  ListingInv'
<1> USE DEF ListingInv
<1>1. TypeOK' /\ Shape'
  BY NextTypes
<1>2. ASSUME UNCHANGED <<servers, req, result>>
      PROVE  ListingInv'
  BY <1>1, <1>2 DEF RowsConvert, ListingNeverFails
<1>3. ASSUME NEW h \in Handlers, Handle(h)
      PROVE  ListingInv'
  <2>1. CASE Serve(h)
    BY <1>1, <2>1, ServeKeepsRows, ServeKeepsListings
  <2>2. CASE Receive(h)
    <3>1. PICK endpoint, first, r : Arrive(h, endpoint, first, r)
      BY <2>2 DEF Receive, ArriveRegister, ArriveLogin, ArriveHeartbeat,
                  ArriveServers
    <3>2. /\ servers' = servers /\ result' = result /\ pc[h] = "idle"
          /\ \A g \in Handlers : g # h => req'[g] = req[g]
      BY <3>1 DEF Arrive, storageVars, TypeOK, HandlersTypeOK
    <3>3. result[h] = "none"
      BY <3>2 DEF Shape, RequestShape
    <3> QED BY <1>1, <3>2, <3>3 DEF RowsConvert, ListingNeverFails
  <2> QED BY <1>3, <2>1, <2>2 DEF Handle
<1>4. CASE Maintain
  <2>1. \A s \in ServerIds : servers'[s] \in {servers[s], None}
    BY <1>4 DEF Maintain, Cycle, CallLoop, Checkpoint, ReadLoopClock, Purge,
                WaitReturns, CycleFails, SetStopEvent, purge_stale_servers,
                storageVars, TypeOK, StorageTypeOK
  <2>2. UNCHANGED <<req, result>>
    BY <1>4 DEF Maintain, handlerVars, localVars
  <2> QED BY <1>1, <2>1, <2>2 DEF RowsConvert, ListingNeverFails
<1>5. CASE Tick
  BY <1>2, <1>5 DEF Tick, storageVars, handlerVars, localVars
<1>6. CASE Crash
  BY <1>1, <1>6 DEF Crash, DropRequests, reopen, storageVars, RowsConvert,
                    ListingNeverFails
<1>7. CASE Restart
  BY <1>2, <1>7 DEF Restart, storageVars, handlerVars, localVars
<1>8. CASE UNCHANGED vars
  BY <1>2, <1>8 DEF vars, storageVars, handlerVars, localVars
<1> QED BY <1>3, <1>4, <1>5, <1>6, <1>7, <1>8 DEF Next

(***************************************************************************)
(* On SQLite no heartbeat, however malformed, makes a later listing fail.  *)
(* The premise is needed: InMemoryStorage stores what it is sent.          *)
(***************************************************************************)
THEOREM ListingNeverFailsOnSqlite ==
  ASSUME Durable PROVE Spec => []ListingNeverFails
<1>1. Init => ListingInv
  <2> SUFFICES ASSUME Init PROVE ListingInv
    OBVIOUS
  <2>1. RowsConvert /\ ListingNeverFails
    BY DEF Init, StorageInit, HandlersInit, RowsConvert, ListingNeverFails
  <2> QED BY <2>1, InitTypes DEF ListingInv
<1>2. ListingInv /\ [Next]_vars => ListingInv'
  BY ListingStep
<1>3. ListingInv => ListingNeverFails
  BY DEF ListingInv
<1> QED BY <1>1, <1>2, <1>3, PTL DEF Spec
=============================================================================
