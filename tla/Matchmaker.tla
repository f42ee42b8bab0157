----------------------------- MODULE Matchmaker ------------------------------
(***************************************************************************)
(* The matchmaker: the request handlers and the maintenance thread over    *)
(* one storage instance, in a process that may die and be started again.   *)
(* The clock advances on its own.                                          *)
(***************************************************************************)
EXTENDS RequestHandlers, Maintenance

CONSTANT MaxCrashes   (* bound of the model *)

ASSUME MaxCrashesAssumption == MaxCrashes \in Nat

VARIABLES
  up,          (* is the process running?                                  *)
  crashes,     (* how often it has died                                    *)
  inherited    (* users and tokens in the tables when the process started  *)

lifecycleVars == <<up, crashes, inherited>>

vars == <<storageVars, clock, handlerVars, maintenanceVars, lifecycleVars>>

Accounts == {u \in Usernames : users[u] # None}
Sessions == {t \in Tokens : tokens[t] # None}

TypeOK ==
  /\ StorageTypeOK
  /\ HandlersTypeOK
  /\ MaintenanceTypeOK
  /\ up \in BOOLEAN
  /\ crashes \in Nat
  /\ inherited \in [users : Nat, tokens : Nat]

Init ==
  /\ StorageInit
  /\ HandlersInit
  /\ MaintenanceInit
  /\ up = TRUE
  /\ crashes = 0
  /\ inherited = [users |-> 0, tokens |-> 0]

Handle(h) ==
  /\ \/ up /\ Receive(h)
     \/ Serve(h)
  /\ UNCHANGED <<clock, maintenanceVars, lifecycleVars>>

Maintain ==
  /\ Cycle \/ CycleFails \/ SetStopEvent
  /\ UNCHANGED <<clock, handlerVars, lifecycleVars>>

Tick ==
  /\ clock < MaxTime
  /\ clock' = clock + 1
  /\ UNCHANGED <<storageVars, handlerVars, maintenanceVars, lifecycleVars>>

(* The process is killed between any two steps.                            *)
Crash ==
  /\ up /\ crashes < MaxCrashes
  /\ up' = FALSE
  /\ crashes' = crashes + 1
  /\ reopen
  /\ DropRequests
  /\ loop' = "off"
  /\ loopNow' = 0 /\ wake' = 0
  /\ UNCHANGED <<clock, stopSet, faults, inherited>>

Restart ==
  /\ ~up
  /\ up' = TRUE
  /\ inherited' = [users |-> Cardinality(Accounts),
                   tokens |-> Cardinality(Sessions)]
  /\ StartLoop
  /\ UNCHANGED <<storageVars, clock, handlerVars, crashes>>

Next ==
  \/ \E h \in Handlers : Handle(h)
  \/ Maintain
  \/ Tick
  \/ Crash
  \/ Restart

Spec == Init /\ [][Next]_vars

(* Threads are scheduled, time passes and a dead process is started again; *)
(* nothing makes a client send, a process crash or a storage call raise.   *)
Fairness ==
  /\ \A h \in Handlers : WF_vars(Serve(h) /\ Handle(h))
  /\ WF_vars(Cycle /\ Maintain)
  /\ WF_vars(Tick)
  /\ WF_vars(Restart)

FairSpec == Spec /\ Fairness

-----------------------------------------------------------------------------
(* Sessions belong to accounts: every token in the table names a user in   *)
(* the user table, although a login looks the user up in one storage call  *)
(* and stores the token in a later one, with a crash possible between.     *)
SessionsHaveAccounts == \A t \in Sessions : tokens[t] \in Accounts

(* What a client was told stays true, across restarts too on SQLite: the   *)
(* account of every 201 has the password it was created with, so no name   *)
(* is given away twice; the token of every login's 200 is a session of the *)
(* account whose password that client gave.                                *)
PromisesKept ==
  /\ \A a \in acked : users[a[1]] = a[2]
  /\ \A g \in granted : tokens[g.token] = g.username
                        /\ users[g.username] = g.password

(* The counters tell the truth: the accounts and sessions in the tables    *)
(* are those the process found when it started, those it has counted, and  *)
(* those whose handler has yet to count them.                              *)
Uncounted(r) == {h \in Handlers : pc[h] = "reply" /\ result[h] = r}

CountersAgree ==
  up => /\ Cardinality(Accounts)
             = inherited.users + created + Cardinality(Uncounted("created"))
        /\ Cardinality(Sessions)
             = inherited.tokens + loginsOk + Cardinality(Uncounted("granted"))

(* A listing is prompt if the table is read within the difference of the   *)
(* two windows of the clock reading it is filtered with.                   *)
Prompt(h) ==
  clock - stamp[h] <= MAINTENANCE_PURGE_TTL_SEC - SERVER_TTL_SEC

(* A game server whose heartbeat was answered 200 is in every prompt       *)
(* listing whose clock reading is less than SERVER_TTL_SEC past that       *)
(* heartbeat's arrival, or past an older clock reading of another of its   *)
(* heartbeats that was waiting for the storage lock when it arrived:       *)
(* whatever requests, purges and restarts come between, nothing older than *)
(* that is ever stored over it.                                            *)
ListsAckedServers(h) ==
  \A s \in ServerIds :
    beats[s] # None /\ stamp[h] - beats[s] < SERVER_TTL_SEC
      => \E i \in DOMAIN listing'[h] : listing'[h][i].id = s

AckedServerListed ==
  [][\A h \in Handlers :
       pc[h] = "query" /\ pc'[h] = "publish" /\ Prompt(h)
         => ListsAckedServers(h)]_vars

(* The purge's longer window leaves a grace period: it never takes a row   *)
(* from under a listing that has read its clock but not yet the table and  *)
(* is still prompt.                                                        *)
PurgeSparesInFlight ==
  [][\A h \in Handlers, s \in ServerIds :
       /\ pc[h] = "query" /\ Prompt(h)
       /\ s \in LiveIds(stamp[h], SERVER_TTL_SEC)
       /\ up'
       => servers'[s] # None]_vars

(* On SQLite GET /api/servers never fails because of a row some heartbeat  *)
(* stored: what cannot be listed is refused when it is sent.               *)
ListingNeverFails ==
  \A h \in Handlers : ~(req[h].endpoint = "servers" /\ result[h] = "error")

(* Every request is answered, unless the process dies with it.             *)
EveryRequestAnswered ==
  \A h \in Handlers : pc[h] # "idle" ~> pc[h] = "idle"

(* A row nobody refreshes is deleted by the maintenance loop once it is    *)
(* older than the purge window, unless the loop is told to stop: what the  *)
(* docstring of run_maintenance_loop says of it.  The bound on k leaves    *)
(* the model's clock enough room.                                          *)
StampedAt(s, k) == servers[s] # None /\ servers[s].last_heartbeat = k

StaleRowsPurged ==
  \A s \in ServerIds, k \in 0..MaxTime :
    k + MAINTENANCE_PURGE_TTL_SEC < MaxTime =>
      (StampedAt(s, k) ~> ~StampedAt(s, k) \/ stopSet)

(* What is left of that where the thread may die: a stale row goes, or the *)
(* loop was stopped, or its thread is dead, of a fault or of the first     *)
(* cycle that deleted a row.  Until then no cycle ends the loop, over      *)
(* crashes and restarts of the process too.                                *)
StaleRowsPurgedWhileAlive ==
  \A s \in ServerIds, k \in 0..MaxTime :
    k + MAINTENANCE_PURGE_TTL_SEC < MaxTime =>
      (StampedAt(s, k) ~> ~StampedAt(s, k) \/ stopSet \/ loop = "dead")

-----------------------------------------------------------------------------
(* The handlers implement the atomic account service.                      *)

AbstractCall(h) ==
  LET r == req[h]
      progress == IF pc[h] = "reply" THEN result[h] ELSE "pending"
  IN CASE r.endpoint \in {"register", "login"} ->
            <<[op |-> r.endpoint, username |-> r.username,
               password |-> r.password], progress>>
       [] r.endpoint = "heartbeat" ->
            <<[op |-> "heartbeat", token |-> r.token,
               server_id |-> r.server_id, payload |-> r.players], progress>>
       [] OTHER -> <<None, "idle">>

Service == INSTANCE AccountService WITH
  Payloads <- PlayerCounts \union {Malformed},
  Callers <- Handlers,
  Refused <- IF Durable THEN {Malformed} ELSE {},
  Volatile <- ~Durable,
  accounts <- users,
  sessions <- tokens,
  call <- [h \in Handlers |-> AbstractCall(h)]

ImplementsAccountService == Service!Spec
=============================================================================
