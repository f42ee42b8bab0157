-------------------------- MODULE MatchmakerProofs ---------------------------
(***************************************************************************)
(* Theorems about Matchmaker, for every value of its constants.            *)
(***************************************************************************)
EXTENDS Matchmaker, FiniteSetTheorems, TLAPS

(***************************************************************************)
(* The step a handler is at and the label it answers with fit the endpoint *)
(* of its request, and the fields that endpoint needs are there.           *)
(***************************************************************************)
StepFits(step, endpoint) ==
  /\ (step = "idle") = (endpoint = "none")
  /\ step = "add_user" => endpoint = "register"
  /\ step \in {"get_user", "issue"} => endpoint = "login"
  /\ step \in {"auth", "now_beat", "upsert"} => endpoint = "heartbeat"
  /\ step \in {"now_list", "query", "publish"} => endpoint = "servers"

ResultFits(r, endpoint) ==
  /\ r \in {"created", "duplicate", "invalid"} => endpoint = "register"
  /\ r \in {"granted", "unknown_user", "bad_pw"} => endpoint = "login"
  /\ r \in {"beat", "invalid_token", "server_id_required"}
       => endpoint = "heartbeat"
  /\ r = "listed" => endpoint = "servers"
  /\ r = "error" => endpoint \in {"heartbeat", "servers"}

FieldsFit(r) ==
  /\ r.endpoint \in {"register", "login"} => r.password \in Passwords
  /\ r.endpoint = "login" => r.username \in Usernames
  /\ r.endpoint = "heartbeat" => r.players \in PlayerCounts \union {Malformed}

RequestShape(h) ==
  /\ StepFits(pc[h], req[h].endpoint)
  /\ ResultFits(result[h], req[h].endpoint)
  /\ (result[h] = "none") = (pc[h] # "reply")
  /\ FieldsFit(req[h])
  /\ pc[h] \in {"now_beat", "upsert"} \/ result[h] = "beat"
       => req[h].server_id \in ServerIds
  /\ result[h] = "created" => req[h].username \in Usernames
  /\ result[h] = "granted" => token[h] \in Tokens

Shape == \A h \in Handlers : RequestShape(h)

(***************************************************************************)
(* What a handler has learned from one storage call is still true when it  *)
(* makes the next one or replies.                                          *)
(***************************************************************************)
StillTrue(h) ==
  LET r == req[h] IN
  /\ pc[h] = "issue" => users[r.username] = r.password
  /\ result[h] = "created" => users[r.username] = r.password
  /\ result[h] = "granted" => /\ users[r.username] = r.password
                              /\ tokens[token[h]] = r.username

Learned == \A h \in Handlers : StillTrue(h)

AccountInv == TypeOK /\ Shape /\ Learned /\ SessionsHaveAccounts /\ PromisesKept

-----------------------------------------------------------------------------
(* A sorted listing is a sequence of well-formed rows.                     *)
LEMMA ListingType ==
  ASSUME TypeOK, NEW now \in Nat, NEW ttl \in Nat,
         ~ListingRaises(now, ttl),
         NEW q \in ByPlayersDesc(list_live_servers(now, ttl))
  PROVE  q \in Seq(ListedRow) /\ Len(q) \in Nat
<1> DEFINE rows == list_live_servers(now, ttl)
<1>1. rows \subseteq ListedRow
  BY StorageAssumption
     DEF list_live_servers, LiveIds, ListingRaises, ListedRow, Row,
         TypeOK, StorageTypeOK
<1>2. Cardinality(rows) \in Nat
  <2> DEFINE row == [s \in LiveIds(now, ttl) |->
                       [id |-> s, players |-> servers[s].players,
                        last_heartbeat |-> servers[s].last_heartbeat]]
  <2>1. IsFiniteSet(LiveIds(now, ttl))
    BY FS_Subset, StorageAssumption DEF LiveIds
  <2>2. row \in Surjection(LiveIds(now, ttl), rows)
    BY DEF list_live_servers, Surjection
  <2>3. IsFiniteSet(rows)
    BY <2>1, <2>2, FS_Surjection
  <2> QED BY <2>3, FS_CardinalityType
<1>3. q \in [1..Cardinality(rows) -> rows]
  BY DEF ByPlayersDesc
<1>4. q \in Seq(rows) /\ Len(q) \in Nat
  BY <1>2, <1>3
<1> QED BY <1>1, <1>4

(* A request that arrives finds a handler idle, and leaves the rest alone. *)
LEMMA ArriveShape ==
  ASSUME TypeOK, Shape, NEW h \in Handlers,
         NEW endpoint, NEW first \in Pc \ {"reply", "now_beat", "upsert"},
         NEW r \in Request,
         r.endpoint = endpoint, StepFits(first, endpoint), FieldsFit(r),
         Arrive(h, endpoint, first, r), floor' \in [Handlers -> Nat]
  PROVE  HandlersTypeOK' /\ Shape'
<1> USE DEF Arrive, Goto, storageVars, clientVars, metricVars
<1>1. HandlersTypeOK'
  BY DEF TypeOK, HandlersTypeOK
<1>2. /\ pc'[h] = first /\ req'[h] = r
      /\ result'[h] = result[h] /\ result[h] = "none"
  BY DEF TypeOK, HandlersTypeOK, Shape, RequestShape
<1>3. RequestShape(h)'
  BY <1>2 DEF RequestShape, StepFits, ResultFits, FieldsFit
<1>4. ASSUME NEW g \in Handlers, g # h
      PROVE  RequestShape(g)'
  BY <1>4 DEF TypeOK, HandlersTypeOK, Shape, RequestShape
<1> QED BY <1>1, <1>3, <1>4 DEF Shape

LEMMA ReceiveShape ==
  ASSUME TypeOK, Shape, NEW h \in Handlers, Receive(h)
  PROVE  HandlersTypeOK' /\ Shape'
<1>0. floor' \in [Handlers -> Nat]
  <2>1. \A s : Readings(s) \subseteq Nat
    BY DEF Readings, TypeOK, StorageTypeOK, HandlersTypeOK
  <2> QED
    BY <2>1 DEF Receive, ArriveRegister, ArriveLogin, ArriveHeartbeat,
                ArriveServers, TypeOK, HandlersTypeOK
<1>1. ASSUME NEW u \in Usernames \union {None}, NEW pw \in Passwords,
             NEW r, r = [NoRequest EXCEPT !.endpoint = "register",
                                          !.username = u, !.password = pw],
             Arrive(h, "register", "add_user", r)
      PROVE  HandlersTypeOK' /\ Shape'
  <2>1. r \in Request /\ r.endpoint = "register" /\ r.password = pw
    BY <1>1 DEF NoRequest, Request
  <2>2. FieldsFit(r) /\ StepFits("add_user", "register")
    BY <2>1 DEF FieldsFit, StepFits
  <2>3. "add_user" \in Pc \ {"reply", "now_beat", "upsert"}
    BY DEF Pc
  <2> QED BY <1>0, <1>1, <2>1, <2>2, <2>3, ArriveShape
<1>2. ASSUME NEW u \in Usernames, NEW pw \in Passwords,
             NEW r, r = [NoRequest EXCEPT !.endpoint = "login",
                                          !.username = u, !.password = pw],
             Arrive(h, "login", "get_user", r)
      PROVE  HandlersTypeOK' /\ Shape'
  <2>1. r \in Request /\ r.endpoint = "login" /\ r.password = pw
        /\ r.username = u
    BY <1>2 DEF NoRequest, Request
  <2>2. FieldsFit(r) /\ StepFits("get_user", "login")
    BY <2>1 DEF FieldsFit, StepFits
  <2>3. "get_user" \in Pc \ {"reply", "now_beat", "upsert"}
    BY DEF Pc
  <2> QED BY <1>0, <1>2, <2>1, <2>2, <2>3, ArriveShape
<1>3. ASSUME NEW t \in Tokens \union {None}, NEW s \in ServerIds \union {None},
             NEW n \in PlayerCounts \union {Malformed},
             NEW r, r = [NoRequest EXCEPT !.endpoint = "heartbeat", !.token = t,
                                          !.server_id = s, !.players = n],
             Arrive(h, "heartbeat", "auth", r)
      PROVE  HandlersTypeOK' /\ Shape'
  <2>1. r \in Request /\ r.endpoint = "heartbeat" /\ r.players = n
    BY <1>3 DEF NoRequest, Request
  <2>2. FieldsFit(r) /\ StepFits("auth", "heartbeat")
    BY <2>1 DEF FieldsFit, StepFits
  <2>3. "auth" \in Pc \ {"reply", "now_beat", "upsert"}
    BY DEF Pc
  <2> QED BY <1>0, <1>3, <2>1, <2>2, <2>3, ArriveShape
<1>4. ASSUME NEW r, r = [NoRequest EXCEPT !.endpoint = "servers"],
             Arrive(h, "servers", "now_list", r)
      PROVE  HandlersTypeOK' /\ Shape'
  <2>1. r \in Request /\ r.endpoint = "servers"
    BY <1>4 DEF NoRequest, Request
  <2>2. FieldsFit(r) /\ StepFits("now_list", "servers")
    BY <2>1 DEF FieldsFit, StepFits
  <2>3. "now_list" \in Pc \ {"reply", "now_beat", "upsert"}
    BY DEF Pc
  <2> QED BY <1>0, <1>4, <2>1, <2>2, <2>3, ArriveShape
<1>5. Known \subseteq Tokens
  BY DEF Known, TypeOK, HandlersTypeOK, Grant
<1> QED
  BY <1>1, <1>2, <1>3, <1>4, <1>5
     DEF Receive, ArriveRegister, ArriveLogin, ArriveHeartbeat, ArriveServers

(* A step of handler h leaves the locals of the others alone.              *)
Touches(h) ==
  \A g \in Handlers :
    g # h => /\ pc'[g] = pc[g] /\ req'[g] = req[g] /\ stamp'[g] = stamp[g]
             /\ result'[g] = result[g] /\ token'[g] = token[g]
             /\ listing'[g] = listing[g] /\ floor'[g] = floor[g]

LEMMA ServeTouches ==
  ASSUME TypeOK, NEW h \in Handlers, Serve(h)
  PROVE  Touches(h)
<1>1. \A g \in Handlers : g # h => floor'[g] = floor[g]
  BY DEF TypeOK, HandlersTypeOK, Serve, AddUser, GetUser, IssueToken,
         Authenticate, ReadClock, UpsertServer, ListServers, Publish, Reply,
         clientVars
<1> QED
  BY <1>1
     DEF TypeOK, HandlersTypeOK, Touches, Serve, Goto, Answer, AddUser, GetUser,
         IssueToken, Authenticate, ReadClock, UpsertServer, ListServers,
         Publish, Reply

(* A step of a handler keeps the types.                                    *)
LEMMA ServeTypes ==
  ASSUME TypeOK, Shape, NEW h \in Handlers, Serve(h), clock' = clock
  PROVE  StorageTypeOK' /\ HandlersTypeOK'
<1> USE StorageAssumption
<1> USE DEF TypeOK, StorageTypeOK, HandlersTypeOK, Goto, Answer,
            storageVars, clientVars, metricVars, Pc, Results
<1>0. RequestShape(h) /\ req[h] \in Request
  BY DEF Shape
<1>1. CASE AddUser(h)
  <2>1. req[h].password \in Passwords
        /\ req[h].username \in Usernames \union {None}
    BY <1>0, <1>1 DEF AddUser, RequestShape, FieldsFit, StepFits, Request
  <2>2. StorageTypeOK'
    BY <1>1, <2>1 DEF AddUser, add_user
  <2> QED BY <1>1, <2>2 DEF AddUser
<1>2. CASE GetUser(h)
  BY <1>2 DEF GetUser, get_user
<1>3. CASE IssueToken(h)
  BY <1>0, <1>3 DEF IssueToken, add_token, Unissued, RequestShape, FieldsFit, StepFits
<1>4. CASE Authenticate(h)
  BY <1>4 DEF Authenticate, get_token_username
<1>5. CASE UpsertServer(h)
  <2>1. req[h].players \in PlayerCounts \union {Malformed}
        /\ req[h].server_id \in ServerIds
    BY <1>0, <1>5 DEF UpsertServer, RequestShape, FieldsFit, StepFits
  <2>2. [players |-> req[h].players, last_heartbeat |-> stamp[h]] \in Row
    BY <2>1 DEF Row
  <2>3. \/ UNCHANGED storageVars
        \/ upsert_server(req[h].server_id, req[h].players, stamp[h])
    BY <1>5 DEF UpsertServer
  <2>4. CASE upsert_server(req[h].server_id, req[h].players, stamp[h])
    <3>1. servers' \in [ServerIds -> Row \union {None}]
      BY <2>1, <2>2, <2>4 DEF upsert_server
    <3> QED BY <1>5, <2>4, <3>1 DEF UpsertServer, upsert_server
  <2>5. CASE UNCHANGED storageVars
    BY <1>5, <2>5 DEF UpsertServer
  <2> QED BY <2>3, <2>4, <2>5
<1>6. CASE ReadClock(h)
  BY <1>6 DEF ReadClock
<1>7. CASE ListServers(h)
  <2>1. StorageTypeOK'
    BY <1>7 DEF ListServers
  <2>2. CASE ListingRaises(stamp[h], SERVER_TTL_SEC)
    BY <1>7, <2>1, <2>2 DEF ListServers
  <2>3. CASE ~ListingRaises(stamp[h], SERVER_TTL_SEC)
    <3>1. PICK q \in ByPlayersDesc(list_live_servers(stamp[h],
                                                     SERVER_TTL_SEC)) :
            listing' = [listing EXCEPT ![h] = q]
      BY <1>7, <2>3 DEF ListServers
    <3>2. q \in Seq(ListedRow)
      BY <2>3, ListingType
    <3>3. listing' \in [Handlers -> Seq(ListedRow)]
      BY <3>1, <3>2
    <3> QED BY <1>7, <2>1, <2>3, <3>3 DEF ListServers
  <2> QED BY <2>2, <2>3
<1>8. CASE Publish(h)
  BY <1>8 DEF Publish
<1>9. CASE Reply(h)
  BY <1>0, <1>9 DEF Reply, Count, Grant, NoRequest, RequestShape, FieldsFit,
                    ResultFits, Request
<1> QED BY <1>1, <1>2, <1>3, <1>4, <1>5, <1>6, <1>7, <1>8, <1>9 DEF Serve

LEMMA ServeShape ==
  ASSUME TypeOK, Shape, NEW h \in Handlers, Serve(h)
  PROVE  Shape'
<1> USE DEF RequestShape, FieldsFit, StepFits, ResultFits
<1>0. RequestShape(h) /\ req[h] \in Request
  BY DEF Shape, TypeOK, HandlersTypeOK
<1>1. RequestShape(h)'
  <2> USE DEF TypeOK, HandlersTypeOK, Goto, Answer
  <2>1. CASE AddUser(h)
    BY <1>0, <2>1 DEF AddUser, Request
  <2>2. CASE GetUser(h)
    BY <1>0, <2>2 DEF GetUser
  <2>3. CASE IssueToken(h)
    BY <1>0, <2>3 DEF IssueToken, Unissued
  <2>4. CASE Authenticate(h)
    BY <1>0, <2>4 DEF Authenticate, Request
  <2>5. CASE UpsertServer(h)
    BY <1>0, <2>5 DEF UpsertServer
  <2>6. CASE ReadClock(h)
    BY <1>0, <2>6 DEF ReadClock
  <2>7. CASE ListServers(h)
    BY <1>0, <2>7 DEF ListServers
  <2>8. CASE Publish(h)
    BY <1>0, <2>8 DEF Publish
  <2>9. CASE Reply(h)
    BY <1>0, <2>9 DEF Reply, NoRequest
  <2> QED BY <2>1, <2>2, <2>3, <2>4, <2>5, <2>6, <2>7, <2>8, <2>9 DEF Serve
<1>2. ASSUME NEW g \in Handlers, g # h
      PROVE  RequestShape(g)'
  BY <1>2, ServeTouches DEF Touches, Shape
<1> QED BY <1>1, <1>2 DEF Shape

(* A step of the maintenance thread keeps the types.                       *)
LEMMA MaintainTypes ==
  ASSUME TypeOK, Maintain
  PROVE  StorageTypeOK' /\ MaintenanceTypeOK'
<1> USE StorageAssumption, MaintenanceAssumption
<1> USE DEF Maintain, TypeOK, StorageTypeOK, MaintenanceTypeOK, storageVars,
            EndCycle
<1>1. CASE CallLoop
  BY <1>1 DEF CallLoop
<1>2. CASE Checkpoint
  BY <1>2 DEF Checkpoint
<1>3. CASE ReadLoopClock
  BY <1>3 DEF ReadLoopClock
<1>4. CASE Purge
  BY <1>4 DEF Purge, purge_stale_servers, ReportCycle
<1>5. CASE WaitReturns
  BY <1>5 DEF WaitReturns
<1>6. CASE CycleFails
  BY <1>6 DEF CycleFails, ReportCycle
<1>7. CASE SetStopEvent
  BY <1>7 DEF SetStopEvent
<1> QED BY <1>1, <1>2, <1>3, <1>4, <1>5, <1>6, <1>7 DEF Cycle

(* A crash leaves well-typed tables and idle handlers behind.              *)
LEMMA CrashTypes ==
  ASSUME TypeOK, Shape, Crash
  PROVE  TypeOK' /\ Shape'
<1> USE DEF Crash, DropRequests
<1>1. StorageTypeOK'
  BY DEF TypeOK, StorageTypeOK, reopen, storageVars
<1>2. NoRequest \in Request
  BY DEF NoRequest, Request
<1>3. HandlersTypeOK'
  BY <1>2 DEF TypeOK, HandlersTypeOK, Pc, Results, Known, Grant
<1>4. MaintenanceTypeOK'
  BY DEF TypeOK, MaintenanceTypeOK
<1>5. Shape'
  BY DEF Shape, RequestShape, StepFits, ResultFits, FieldsFit, NoRequest
<1> HIDE DEF Crash, DropRequests
<1>6. up' \in BOOLEAN
  BY Zenon DEF Crash
<1>7. crashes' \in Nat
  BY SMT DEF Crash, TypeOK
<1>8. inherited' = inherited
  BY Zenon DEF Crash
<1> QED BY <1>1, <1>3, <1>4, <1>5, <1>6, <1>7, <1>8 DEF TypeOK

LEMMA RestartTypes ==
  ASSUME TypeOK, Restart
  PROVE  TypeOK'
<1>1. IsFiniteSet(Accounts) /\ IsFiniteSet(Sessions)
  BY StorageAssumption, FS_Subset DEF Accounts, Sessions
<1>2. Cardinality(Accounts) \in Nat /\ Cardinality(Sessions) \in Nat
  BY <1>1, FS_CardinalityType
<1>3. MaintenanceTypeOK'
  BY DEF TypeOK, MaintenanceTypeOK, Restart, StartLoop, Started
<1> QED
  BY <1>2, <1>3 DEF Restart, TypeOK, StorageTypeOK, HandlersTypeOK, storageVars,
                    handlerVars, localVars, metricVars, clientVars

LEMMA InitTypes == Init => TypeOK /\ Shape
<1> SUFFICES ASSUME Init PROVE TypeOK /\ Shape
  OBVIOUS
<1> USE DEF Init, HandlersInit
<1>1. NoRequest \in Request
  BY DEF NoRequest, Request
<1>2. StorageTypeOK
  BY DEF StorageInit, StorageTypeOK
<1>3. HandlersTypeOK
  BY <1>1 DEF HandlersTypeOK, Pc, Results
<1>4. MaintenanceTypeOK
  BY DEF MaintenanceInit, MaintenanceTypeOK, Started
<1>5. Shape
  BY DEF Shape, RequestShape, StepFits, ResultFits, FieldsFit, NoRequest
<1> QED BY <1>2, <1>3, <1>4, <1>5 DEF TypeOK

LEMMA NextTypes ==
  ASSUME TypeOK, Shape, [Next]_vars
  PROVE  TypeOK' /\ Shape'
<1>1. ASSUME NEW h \in Handlers, Handle(h)
      PROVE  TypeOK' /\ Shape'
  <2>1. clock' = clock /\ UNCHANGED maintenanceVars /\ UNCHANGED lifecycleVars
    BY <1>1 DEF Handle
  <2>2. MaintenanceTypeOK' /\ up' \in BOOLEAN /\ crashes' \in Nat
        /\ inherited' \in [users : Nat, tokens : Nat]
    BY <2>1 DEF TypeOK, MaintenanceTypeOK, maintenanceVars, lifecycleVars
  <2>3. CASE Receive(h)
    <3>1. UNCHANGED storageVars
      BY <2>3 DEF Receive, Arrive, ArriveRegister, ArriveLogin,
                  ArriveHeartbeat, ArriveServers
    <3>2. StorageTypeOK'
      BY <2>1, <3>1 DEF TypeOK, StorageTypeOK, storageVars
    <3> QED BY <2>2, <2>3, <3>2, ReceiveShape DEF TypeOK
  <2>4. CASE Serve(h)
    BY <2>1, <2>2, <2>4, ServeTypes, ServeShape DEF TypeOK
  <2> QED BY <1>1, <2>3, <2>4 DEF Handle
<1>2. CASE Maintain
  <2>1. UNCHANGED <<handlerVars, lifecycleVars>>
    BY <1>2 DEF Maintain
  <2>2. HandlersTypeOK' /\ Shape'
    BY <2>1 DEF TypeOK, HandlersTypeOK, handlerVars, localVars, metricVars,
                clientVars, Shape, RequestShape, StepFits, ResultFits, FieldsFit
  <2> QED BY <1>2, <2>1, <2>2, MaintainTypes DEF TypeOK, lifecycleVars
<1>3. CASE Tick
  BY <1>3 DEF Tick, TypeOK, StorageTypeOK, HandlersTypeOK, MaintenanceTypeOK,
              storageVars, handlerVars, localVars, metricVars, clientVars,
              maintenanceVars, lifecycleVars, Shape, RequestShape
<1>4. CASE Crash
  BY <1>4, CrashTypes
<1>5. CASE Restart
  BY <1>5, RestartTypes DEF Restart, handlerVars, localVars, Shape, RequestShape
<1>6. CASE UNCHANGED vars
  BY <1>6 DEF vars, TypeOK, StorageTypeOK, HandlersTypeOK, MaintenanceTypeOK,
              storageVars, handlerVars, localVars, metricVars, clientVars,
              maintenanceVars, lifecycleVars, Shape, RequestShape
<1> QED BY <1>1, <1>2, <1>3, <1>4, <1>5, <1>6 DEF Next

(***************************************************************************)
(* Every variable keeps its type: tables keyed and filled as the schema    *)
(* says, handlers at a step their request has, listings sequences of       *)
(* rows with numbers in them.                                              *)
(***************************************************************************)
THEOREM TypeCorrect == Spec => []TypeOK
<1>1. Init => TypeOK /\ Shape
  BY InitTypes
<1>2. TypeOK /\ Shape /\ [Next]_vars => TypeOK' /\ Shape'
  BY NextTypes
<1> QED BY <1>1, <1>2, PTL DEF Spec

-----------------------------------------------------------------------------
(***************************************************************************)
(* Accounts and sessions.  Outside a crash that loses the tables, a user's *)
(* password and a token's owner never change once they are there.          *)
(***************************************************************************)
StoreGrows ==
  /\ \A u \in Usernames : users[u] # None => users'[u] = users[u]
  /\ \A t \in Tokens : tokens[t] # None => tokens'[t] = tokens[t]

LEMMA ServeGrows ==
  ASSUME TypeOK, Shape, NEW h \in Handlers, Serve(h)
  PROVE  StoreGrows
<1> USE DEF TypeOK, StorageTypeOK, StoreGrows, storageVars
<1>1. CASE AddUser(h)
  BY <1>1 DEF AddUser, add_user, UserExists
<1>2. CASE IssueToken(h)
  BY <1>2 DEF IssueToken, add_token, Unissued
<1>3. CASE UpsertServer(h)
  BY <1>3 DEF UpsertServer, upsert_server
<1> QED
  BY <1>1, <1>2, <1>3
     DEF Serve, GetUser, Authenticate, ReadClock, ListServers, Publish, Reply

LEMMA MaintainGrows ==
  ASSUME Maintain
  PROVE  UNCHANGED <<users, tokens>>
BY DEF Maintain, Cycle, CallLoop, Checkpoint, ReadLoopClock, Purge,
       WaitReturns, CycleFails, SetStopEvent, purge_stale_servers, storageVars

(* What was promised survives every step that only adds to the tables.     *)
LEMMA PromisesSurvive ==
  ASSUME TypeOK, SessionsHaveAccounts, PromisesKept, StoreGrows
  PROVE  /\ \A a \in acked : users'[a[1]] = a[2]
         /\ \A g \in granted : tokens'[g.token] = g.username
                               /\ users'[g.username] = g.password
         /\ \A t \in Sessions :
              tokens'[t] = tokens[t] /\ tokens[t] \in Usernames
              /\ users'[tokens[t]] # None
<1> USE StorageAssumption
<1> USE DEF TypeOK, StorageTypeOK, HandlersTypeOK, StoreGrows
<1>1. ASSUME NEW a \in acked
      PROVE  users'[a[1]] = a[2]
  <2>1. a[1] \in Usernames /\ a[2] \in Passwords /\ users[a[1]] = a[2]
    BY DEF PromisesKept
  <2> QED BY <2>1
<1>2. ASSUME NEW g \in granted
      PROVE  tokens'[g.token] = g.username /\ users'[g.username] = g.password
  <2>1. g.token \in Tokens /\ g.username \in Usernames
        /\ g.password \in Passwords
    BY DEF Grant
  <2>2. tokens[g.token] = g.username /\ users[g.username] = g.password
    BY DEF PromisesKept
  <2> QED BY <2>1, <2>2
<1>3. ASSUME NEW t \in Sessions
      PROVE  tokens'[t] = tokens[t] /\ tokens[t] \in Usernames
             /\ users'[tokens[t]] # None
  BY DEF SessionsHaveAccounts, Sessions, Accounts
<1> QED BY <1>1, <1>2, <1>3

(* What a handler has learned survives the steps of the others.            *)
LEMMA LearnedSurvives ==
  ASSUME TypeOK, Shape, Learned, StoreGrows, NEW g \in Handlers,
         pc'[g] = pc[g], req'[g] = req[g], result'[g] = result[g],
         token'[g] = token[g]
  PROVE  StillTrue(g)'
<1>1. StillTrue(g) /\ RequestShape(g)
  BY DEF Learned, Shape
<1>2. req[g].endpoint \in {"register", "login"} => req[g].password # None
  BY <1>1, StorageAssumption DEF RequestShape, FieldsFit
<1>3. pc[g] = "issue" => /\ req[g].endpoint = "login"
                         /\ req[g].username \in Usernames
  BY <1>1 DEF RequestShape, StepFits, FieldsFit
<1>4. result[g] = "created" => /\ req[g].endpoint = "register"
                               /\ req[g].username \in Usernames
  BY <1>1 DEF RequestShape, ResultFits
<1>5. result[g] = "granted" => /\ req[g].endpoint = "login"
                               /\ req[g].username \in Usernames
                               /\ token[g] \in Tokens
  BY <1>1 DEF RequestShape, ResultFits, FieldsFit
<1>6. None \notin Usernames
  BY StorageAssumption
<1> QED BY <1>1, <1>2, <1>3, <1>4, <1>5, <1>6 DEF StillTrue, StoreGrows

LEMMA ServeKeepsLearned ==
  ASSUME TypeOK, Shape, Learned, NEW h \in Handlers, Serve(h)
  PROVE  Learned'
<1>1. StillTrue(h)'
  <2>1. RequestShape(h) /\ StillTrue(h) /\ req[h] \in Request
    BY DEF Shape, Learned, TypeOK, HandlersTypeOK
  <2> USE StorageAssumption
  <2> USE DEF StillTrue, TypeOK, StorageTypeOK, HandlersTypeOK, Goto, Answer
  <2>2. CASE AddUser(h)
    BY <2>1, <2>2 DEF AddUser, add_user, RequestShape, StepFits, FieldsFit,
                      Request
  <2>3. CASE GetUser(h)
    BY <2>1, <2>3 DEF GetUser, get_user, storageVars, RequestShape, StepFits,
                      FieldsFit
  <2>4. CASE IssueToken(h)
    BY <2>1, <2>4 DEF IssueToken, add_token, Unissued, RequestShape
  <2>5. CASE Authenticate(h)
    BY <2>1, <2>5 DEF Authenticate, RequestShape
  <2>6. CASE ReadClock(h)
    BY <2>1, <2>6 DEF ReadClock, RequestShape
  <2>7. CASE UpsertServer(h)
    BY <2>1, <2>7 DEF UpsertServer, RequestShape
  <2>8. CASE ListServers(h)
    BY <2>1, <2>8 DEF ListServers, RequestShape
  <2>9. CASE Publish(h)
    BY <2>1, <2>9 DEF Publish, RequestShape
  <2>10. CASE Reply(h)
    BY <2>10 DEF Reply
  <2> QED
    BY <2>2, <2>3, <2>4, <2>5, <2>6, <2>7, <2>8, <2>9, <2>10 DEF Serve
<1>2. ASSUME NEW g \in Handlers, g # h
      PROVE  StillTrue(g)'
  BY <1>2, ServeTouches, ServeGrows, LearnedSurvives DEF Touches
<1> QED BY <1>1, <1>2 DEF Learned

LEMMA ServeKeepsSessions ==
  ASSUME TypeOK, Shape, Learned, SessionsHaveAccounts, PromisesKept,
         NEW h \in Handlers, Serve(h)
  PROVE  SessionsHaveAccounts'
<1>1. \A t \in Sessions : tokens'[t] = tokens[t] /\ tokens[t] \in Usernames
                          /\ users'[tokens[t]] # None
  BY ServeGrows, PromisesSurvive
<1>2. CASE IssueToken(h)
  <2>1. req[h].username \in Usernames /\ users[req[h].username] # None
    BY <1>2, StorageAssumption
       DEF IssueToken, Shape, RequestShape, StepFits, FieldsFit, Learned,
           StillTrue
  <2>2. PICK t \in Unissued : add_token(t, req[h].username)
    BY <1>2 DEF IssueToken
  <2> QED
    BY <1>1, <2>1, <2>2
       DEF add_token, SessionsHaveAccounts, Sessions, Accounts, TypeOK,
           StorageTypeOK
<1>3. CASE ~IssueToken(h)
  <2>1. tokens' = tokens
    BY <1>3 DEF Serve, AddUser, GetUser, Authenticate, ReadClock, UpsertServer,
                ListServers, Publish, Reply, add_user, upsert_server, storageVars
  <2> QED BY <1>1, <2>1 DEF SessionsHaveAccounts, Sessions, Accounts
<1> QED BY <1>2, <1>3

LEMMA ServeKeepsPromises ==
  ASSUME TypeOK, Shape, Learned, SessionsHaveAccounts, PromisesKept,
         NEW h \in Handlers, Serve(h)
  PROVE  PromisesKept'
<1>1. /\ \A a \in acked : users'[a[1]] = a[2]
      /\ \A g \in granted : tokens'[g.token] = g.username
                            /\ users'[g.username] = g.password
  BY ServeGrows, PromisesSurvive
<1>2. CASE Reply(h)
  <2>1. StillTrue(h) /\ UNCHANGED storageVars
    BY <1>2 DEF Reply, Learned
  <2>2. \A a \in acked' : users'[a[1]] = a[2]
    BY <1>1, <1>2, <2>1 DEF Reply, StillTrue, storageVars
  <2>3. \A g \in granted' : tokens'[g.token] = g.username
                            /\ users'[g.username] = g.password
    BY <1>1, <1>2, <2>1 DEF Reply, StillTrue, storageVars
  <2> QED BY <2>2, <2>3 DEF PromisesKept
<1>3. CASE ~Reply(h)
  <2>1. acked' = acked /\ granted' = granted
    BY <1>3 DEF Serve, AddUser, GetUser, IssueToken, Authenticate, ReadClock,
                UpsertServer, ListServers, Publish, clientVars
  <2> QED BY <1>1, <2>1 DEF PromisesKept
<1> QED BY <1>2, <1>3

LEMMA NextKeepsAccounts ==
  ASSUME AccountInv, [Next]_vars
  PROVE  AccountInv'
<1> USE DEF AccountInv
<1>1. TypeOK' /\ Shape'
  BY NextTypes
<1>2. ASSUME UNCHANGED <<users, tokens, pc, req, result, token, acked, granted>>
      PROVE  AccountInv'
  BY <1>1, <1>2 DEF Learned, StillTrue, SessionsHaveAccounts, Sessions, Accounts,
                    PromisesKept
<1>3. ASSUME NEW h \in Handlers, Handle(h)
      PROVE  AccountInv'
  <2>1. CASE Serve(h)
    BY <1>1, <2>1, ServeKeepsLearned, ServeKeepsSessions, ServeKeepsPromises
  <2>2. CASE Receive(h)
    <3>1. PICK endpoint, first, r :
            /\ first \notin {"issue", "reply"}
            /\ Arrive(h, endpoint, first, r)
      BY <2>2 DEF Receive, ArriveRegister, ArriveLogin, ArriveHeartbeat,
                  ArriveServers
    <3>2. UNCHANGED <<users, tokens, result, token, acked, granted>>
      BY <3>1 DEF Arrive, storageVars, clientVars
    <3>3. SessionsHaveAccounts' /\ PromisesKept'
      BY <3>2 DEF SessionsHaveAccounts, Sessions, Accounts, PromisesKept
    <3>4. ASSUME NEW g \in Handlers, g # h
          PROVE  StillTrue(g)'
      <4>1. pc'[g] = pc[g] /\ req'[g] = req[g]
        BY <3>1, <3>4 DEF Arrive, Goto, TypeOK, HandlersTypeOK
      <4> QED BY <3>2, <4>1 DEF Learned, StillTrue
    <3>5. StillTrue(h)'
      <4>1. pc'[h] = first /\ result'[h] = "none"
        BY <3>1, <3>2 DEF Arrive, Goto, TypeOK, HandlersTypeOK, Shape,
                          RequestShape
      <4> QED BY <3>1, <4>1 DEF StillTrue
    <3> QED BY <1>1, <3>3, <3>4, <3>5 DEF Learned
  <2> QED BY <1>3, <2>1, <2>2 DEF Handle
<1>4. CASE Maintain
  BY <1>2, <1>4, MaintainGrows DEF Maintain, handlerVars, localVars, clientVars
<1>5. CASE Tick
  BY <1>2, <1>5 DEF Tick, storageVars, handlerVars, localVars, clientVars
<1>6. CASE Crash
  <2>1. Learned'
    BY <1>6 DEF Crash, DropRequests, Learned, StillTrue
  <2>2. SessionsHaveAccounts' /\ PromisesKept'
    BY <1>6 DEF Crash, DropRequests, reopen, storageVars, SessionsHaveAccounts,
                Sessions, Accounts, PromisesKept
  <2> QED BY <1>1, <2>1, <2>2
<1>7. CASE Restart
  BY <1>2, <1>7 DEF Restart, storageVars, handlerVars, localVars, clientVars
<1>8. CASE UNCHANGED vars
  BY <1>2, <1>8 DEF vars, storageVars, handlerVars, localVars, clientVars
<1> QED BY <1>3, <1>4, <1>5, <1>6, <1>7, <1>8 DEF Next

LEMMA InitAccounts == Init => AccountInv
<1> SUFFICES ASSUME Init PROVE AccountInv
  OBVIOUS
<1>1. Learned /\ SessionsHaveAccounts /\ PromisesKept
  BY DEF Init, StorageInit, HandlersInit, Learned, StillTrue,
         SessionsHaveAccounts, Sessions, PromisesKept
<1> QED BY <1>1, InitTypes DEF AccountInv

LEMMA AccountInvariance == Spec => []AccountInv
<1>1. AccountInv /\ [Next]_vars => AccountInv'
  BY NextKeepsAccounts
<1> QED BY <1>1, InitAccounts, PTL DEF Spec

(***************************************************************************)
(* Every session names an account, at every point between the lookup of    *)
(* the user and the insertion of the token, on either backend and across   *)
(* any number of restarts.                                                 *)
(***************************************************************************)
THEOREM SessionsHaveAccountsAlways == Spec => []SessionsHaveAccounts
<1>1. AccountInv => SessionsHaveAccounts
  BY DEF AccountInv
<1> QED BY <1>1, AccountInvariance, PTL

(***************************************************************************)
(* No 201 is ever taken back and no name is given away twice; a token that *)
(* was answered stays a session of the account whose password its client   *)
(* gave.                                                                   *)
(***************************************************************************)
THEOREM PromisesKeptAlways == Spec => []PromisesKept
<1>1. AccountInv => PromisesKept
  BY DEF AccountInv
<1> QED BY <1>1, AccountInvariance, PTL

-----------------------------------------------------------------------------
(***************************************************************************)
(* The counters.  While the process is down nothing is counted and nobody  *)
(* waits to be, so that a restart begins with equal sums.                  *)
(***************************************************************************)
DownIsIdle ==
  ~up => /\ \A h \in Handlers : pc[h] = "idle"
         /\ created = 0 /\ loginsOk = 0

CountInv == TypeOK /\ Shape /\ CountersAgree /\ DownIsIdle

LEMMA FiniteCounts ==
  /\ IsFiniteSet(Accounts) /\ IsFiniteSet(Sessions)
  /\ \A r \in Results : IsFiniteSet(Uncounted(r))
BY FS_Subset, StorageAssumption, HandlersAssumption
   DEF Accounts, Sessions, Uncounted

(* A step of h puts h in Uncounted(r), takes it out, or leaves it.         *)
LEMMA UncountedStep ==
  ASSUME TypeOK, Shape, NEW h \in Handlers, Serve(h), NEW r \in Results
  PROVE  /\ pc[h] # "reply" /\ result'[h] = r /\ r # "none"
              => Uncounted(r)' = Uncounted(r) \union {h} /\ h \notin Uncounted(r)
         /\ pc[h] = "reply" /\ result[h] = r
              => Uncounted(r)' = Uncounted(r) \ {h} /\ h \in Uncounted(r)
         /\ result[h] # r /\ result'[h] # r => Uncounted(r)' = Uncounted(r)
<1>1. Touches(h) /\ Shape'
  BY ServeTouches, ServeShape
<1>2. /\ pc[h] = "reply" <=> result[h] # "none"
      /\ pc'[h] = "reply" <=> result'[h] # "none"
  BY <1>1 DEF Shape, RequestShape
<1>3. pc[h] = "reply" => pc'[h] = "idle"
  BY DEF Serve, AddUser, GetUser, IssueToken, Authenticate, ReadClock,
         UpsertServer, ListServers, Publish, Reply, Goto, TypeOK,
         HandlersTypeOK
<1> QED BY <1>1, <1>2, <1>3 DEF Uncounted, Touches

(* What one step of a handler adds to a table it adds to those uncounted,  *)
(* and what it counts it takes from them.                                  *)
LEMMA ServeCountsUsers ==
  ASSUME TypeOK, Shape, NEW h \in Handlers, Serve(h),
         Cardinality(Accounts)
           = inherited.users + created + Cardinality(Uncounted("created"))
  PROVE  Cardinality(Accounts')
           = inherited.users + created' + Cardinality(Uncounted("created")')
<1> DEFINE waiting == Uncounted("created")
<1>0. "created" \in Results /\ inherited.users \in Nat /\ created \in Nat
  BY DEF Results, TypeOK, HandlersTypeOK
<1>1. IsFiniteSet(Accounts) /\ IsFiniteSet(waiting)
      /\ Cardinality(Accounts) \in Nat /\ Cardinality(waiting) \in Nat
  BY <1>0, FiniteCounts, FS_CardinalityType
<1>2. CASE AddUser(h) /\ result'[h] = "created"
  <2>1. add_user(req[h].username, req[h].password) /\ pc[h] = "add_user"
        /\ created' = created
    BY <1>2 DEF AddUser, Answer, TypeOK, HandlersTypeOK, metricVars
  <2>2. req[h].username \in Usernames /\ req[h].password \in Passwords
    BY <1>2 DEF AddUser, Answer, TypeOK, HandlersTypeOK, Request, Shape,
                RequestShape, StepFits, FieldsFit
  <2>3. Accounts' = Accounts \union {req[h].username}
        /\ req[h].username \notin Accounts
    BY <2>1, <2>2, StorageAssumption
       DEF add_user, UserExists, Accounts, TypeOK, StorageTypeOK
  <2>4. waiting' = waiting \union {h} /\ h \notin waiting
    BY <1>0, <1>2, <2>1, UncountedStep
  <2>5. Cardinality(Accounts') = Cardinality(Accounts) + 1
        /\ Cardinality(waiting') = Cardinality(waiting) + 1
    BY <1>1, <2>3, <2>4, FS_AddElement
  <2> QED BY <1>0, <1>1, <2>1, <2>5
<1>3. CASE Reply(h) /\ result[h] = "created"
  <2>1. Accounts' = Accounts /\ created' = created + 1 /\ pc[h] = "reply"
    BY <1>3 DEF Reply, Count, Accounts, storageVars
  <2>2. waiting' = waiting \ {h} /\ h \in waiting
    BY <1>0, <1>3, <2>1, UncountedStep
  <2>3. Cardinality(waiting') = Cardinality(waiting) - 1
    BY <1>1, <2>2, FS_RemoveElement
  <2> QED BY <1>0, <1>1, <2>1, <2>3
<1>4. CASE /\ ~(AddUser(h) /\ result'[h] = "created")
           /\ ~(Reply(h) /\ result[h] = "created")
  <2>1. users' = users /\ created' = created
    BY <1>4 DEF Serve, AddUser, GetUser, IssueToken, Authenticate, ReadClock,
                UpsertServer, ListServers, Publish, Reply, Count, Answer,
                add_token, upsert_server, storageVars, metricVars, TypeOK,
                HandlersTypeOK
  <2>2. result[h] # "created" /\ result'[h] # "created"
    BY <1>4 DEF Serve, AddUser, GetUser, IssueToken, Authenticate, ReadClock,
                UpsertServer, ListServers, Publish, Reply, Answer, Goto,
                Shape, RequestShape, TypeOK, HandlersTypeOK
  <2>3. waiting' = waiting /\ Accounts' = Accounts
    BY <1>0, <2>1, <2>2, UncountedStep DEF Accounts
  <2> QED BY <2>1, <2>3
<1> QED BY <1>2, <1>3, <1>4

LEMMA ServeCountsTokens ==
  ASSUME TypeOK, Shape, NEW h \in Handlers, Serve(h),
         Cardinality(Sessions)
           = inherited.tokens + loginsOk + Cardinality(Uncounted("granted"))
  PROVE  Cardinality(Sessions')
           = inherited.tokens + loginsOk' + Cardinality(Uncounted("granted")')
<1> DEFINE waiting == Uncounted("granted")
<1>0. "granted" \in Results /\ inherited.tokens \in Nat /\ loginsOk \in Nat
  BY DEF Results, TypeOK, HandlersTypeOK
<1>1. IsFiniteSet(Sessions) /\ IsFiniteSet(waiting)
      /\ Cardinality(Sessions) \in Nat /\ Cardinality(waiting) \in Nat
  BY <1>0, FiniteCounts, FS_CardinalityType
<1>2. CASE IssueToken(h)
  <2>1. PICK t \in Unissued : add_token(t, req[h].username)
    BY <1>2 DEF IssueToken
  <2>2. req[h].username \in Usernames /\ pc[h] = "issue"
        /\ result'[h] = "granted" /\ loginsOk' = loginsOk
    BY <1>2 DEF IssueToken, Answer, metricVars, TypeOK, HandlersTypeOK, Shape,
                RequestShape, StepFits, FieldsFit
  <2>3. Sessions' = Sessions \union {t} /\ t \notin Sessions
    BY <2>1, <2>2, StorageAssumption
       DEF add_token, Unissued, Sessions, TypeOK, StorageTypeOK
  <2>4. waiting' = waiting \union {h} /\ h \notin waiting
    BY <1>0, <2>2, UncountedStep
  <2>5. Cardinality(Sessions') = Cardinality(Sessions) + 1
        /\ Cardinality(waiting') = Cardinality(waiting) + 1
    BY <1>1, <2>3, <2>4, FS_AddElement
  <2> QED BY <1>0, <1>1, <2>2, <2>5
<1>3. CASE Reply(h) /\ result[h] = "granted"
  <2>1. Sessions' = Sessions /\ loginsOk' = loginsOk + 1 /\ pc[h] = "reply"
    BY <1>3 DEF Reply, Count, Sessions, storageVars
  <2>2. waiting' = waiting \ {h} /\ h \in waiting
    BY <1>0, <1>3, <2>1, UncountedStep
  <2>3. Cardinality(waiting') = Cardinality(waiting) - 1
    BY <1>1, <2>2, FS_RemoveElement
  <2> QED BY <1>0, <1>1, <2>1, <2>3
<1>4. CASE ~IssueToken(h) /\ ~(Reply(h) /\ result[h] = "granted")
  <2>1. tokens' = tokens /\ loginsOk' = loginsOk
    BY <1>4 DEF Serve, AddUser, GetUser, Authenticate, ReadClock,
                UpsertServer, ListServers, Publish, Reply, Count, Answer,
                add_user, upsert_server, storageVars, metricVars
  <2>2. result[h] # "granted" /\ result'[h] # "granted"
    BY <1>4 DEF Serve, AddUser, GetUser, Authenticate, ReadClock,
                UpsertServer, ListServers, Publish, Reply, Answer, Goto,
                Shape, RequestShape, TypeOK, HandlersTypeOK
  <2>3. waiting' = waiting /\ Sessions' = Sessions
    BY <1>0, <2>1, <2>2, UncountedStep DEF Sessions
  <2> QED BY <2>1, <2>3
<1> QED BY <1>2, <1>3, <1>4

LEMMA NextKeepsCounts ==
  ASSUME CountInv, [Next]_vars
  PROVE  CountInv'
<1> USE DEF CountInv
<1>1. TypeOK' /\ Shape'
  BY NextTypes
<1>2. ASSUME UNCHANGED <<users, tokens, pc, result, created, loginsOk, up,
                         inherited>>
      PROVE  CountInv'
  BY <1>1, <1>2 DEF CountersAgree, DownIsIdle, Accounts, Sessions, Uncounted
<1>3. ASSUME NEW h \in Handlers, Handle(h)
      PROVE  CountInv'
  <2>1. up' = up /\ inherited' = inherited
    BY <1>3 DEF Handle, lifecycleVars
  <2>2. CASE Serve(h)
    <3>1. pc[h] # "idle"
      BY <2>2 DEF Serve, AddUser, GetUser, IssueToken, Authenticate, ReadClock,
                  UpsertServer, ListServers, Publish, Reply
    <3>2. up
      BY <3>1 DEF DownIsIdle, TypeOK
    <3>3. CountersAgree'
      BY <2>1, <2>2, <3>2, ServeCountsUsers, ServeCountsTokens
         DEF CountersAgree
    <3> QED BY <1>1, <2>1, <3>2, <3>3 DEF DownIsIdle
  <2>3. CASE up /\ Receive(h)
    <3>1. PICK endpoint, first, r :
            first # "reply" /\ Arrive(h, endpoint, first, r)
      BY <2>3 DEF Receive, ArriveRegister, ArriveLogin, ArriveHeartbeat,
                  ArriveServers
    <3>2. /\ UNCHANGED <<users, tokens, result, created, loginsOk>>
          /\ pc[h] = "idle" /\ pc'[h] = first
          /\ \A g \in Handlers : g # h => pc'[g] = pc[g]
      BY <3>1 DEF Arrive, Goto, storageVars, metricVars, TypeOK, HandlersTypeOK
    <3>3. \A l \in Results : Uncounted(l)' = Uncounted(l)
      BY <3>1, <3>2 DEF Uncounted
    <3>4. Uncounted("created")' = Uncounted("created")
          /\ Uncounted("granted")' = Uncounted("granted")
      BY <3>3 DEF Results
    <3> QED BY <1>1, <2>1, <2>3, <3>2, <3>4
            DEF CountersAgree, DownIsIdle, Accounts, Sessions
  <2> QED BY <1>3, <2>2, <2>3 DEF Handle
<1>4. CASE Maintain
  BY <1>2, <1>4, MaintainGrows
     DEF Maintain, handlerVars, localVars, metricVars, lifecycleVars
<1>5. CASE Tick
  BY <1>2, <1>5 DEF Tick, storageVars, handlerVars, localVars, metricVars,
                    lifecycleVars
<1>6. CASE Crash
  BY <1>1, <1>6 DEF Crash, DropRequests, CountersAgree, DownIsIdle
<1>7. CASE Restart
  <2>1. ~up /\ UNCHANGED <<users, tokens, pc, result, created, loginsOk>>
    BY <1>7 DEF Restart, storageVars, handlerVars, localVars, metricVars
  <2>2. /\ created' = 0 /\ loginsOk' = 0 /\ up'
        /\ \A h \in Handlers : pc'[h] = "idle"
    BY <1>7, <2>1 DEF DownIsIdle, Restart
  <2>3. Cardinality(Uncounted("created")') = 0
        /\ Cardinality(Uncounted("granted")') = 0
    <3>1. Uncounted("created")' = {} /\ Uncounted("granted")' = {}
      BY <2>2 DEF Uncounted
    <3> QED BY <3>1, FS_EmptySet
  <2>4. Accounts' = Accounts /\ Sessions' = Sessions
    BY <2>1 DEF Accounts, Sessions
  <2>5. /\ inherited'.users = Cardinality(Accounts)
        /\ inherited'.tokens = Cardinality(Sessions)
    BY <1>7 DEF Restart
  <2>6. Cardinality(Accounts) \in Nat /\ Cardinality(Sessions) \in Nat
    BY FiniteCounts, FS_CardinalityType
  <2>7. CountersAgree'
    <3>1. Cardinality(Accounts)
            = inherited'.users + created' + Cardinality(Uncounted("created")')
      BY <2>2, <2>3, <2>5, <2>6
    <3>2. Cardinality(Sessions)
            = inherited'.tokens + loginsOk' + Cardinality(Uncounted("granted")')
      BY <2>2, <2>3, <2>5, <2>6
    <3> QED BY <2>4, <3>1, <3>2 DEF CountersAgree
  <2> QED BY <1>1, <2>2, <2>7 DEF DownIsIdle
<1>8. CASE UNCHANGED vars
  BY <1>2, <1>8 DEF vars, storageVars, handlerVars, localVars, metricVars,
                    lifecycleVars
<1> QED BY <1>3, <1>4, <1>5, <1>6, <1>7, <1>8 DEF Next

LEMMA InitCounts == Init => CountInv
<1> SUFFICES ASSUME Init PROVE CountInv
  OBVIOUS
<1>1. Accounts = {} /\ Sessions = {} /\ Uncounted("created") = {}
      /\ Uncounted("granted") = {}
  BY DEF Init, StorageInit, HandlersInit, Accounts, Sessions, Uncounted
<1>2. Cardinality({}) = 0
  BY FS_EmptySet
<1>3. /\ up = TRUE /\ created = 0 /\ loginsOk = 0
      /\ inherited.users = 0 /\ inherited.tokens = 0
  BY DEF Init, HandlersInit
<1>4. CountersAgree
  BY <1>1, <1>2, <1>3 DEF CountersAgree
<1>5. DownIsIdle
  BY <1>3 DEF DownIsIdle
<1> QED BY <1>4, <1>5, InitTypes DEF CountInv

(***************************************************************************)
(* The counters account for every row: at every point between the storage  *)
(* of a user or a token and the increment, in every thread, and after any  *)
(* number of restarts.                                                     *)
(***************************************************************************)
THEOREM CountersAgreeAlways == Spec => []CountersAgree
<1>1. CountInv /\ [Next]_vars => CountInv'
  BY NextKeepsCounts
<1>2. CountInv => CountersAgree
  BY DEF CountInv
<1> QED BY <1>1, <1>2, InitCounts, PTL DEF Spec
=============================================================================
