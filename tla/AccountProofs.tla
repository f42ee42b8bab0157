---------------------------- MODULE AccountProofs ----------------------------
(***************************************************************************)
(* Matchmaker implements AccountService, for every value of the constants: *)
(* the handlers, interleaved between their storage calls, are operations   *)
(* that take effect atomically.                                            *)
(***************************************************************************)
EXTENDS MatchmakerProofs

Mapped == [h \in Handlers |-> AbstractCall(h)]

(* The arguments of a call, by endpoint.                                   *)
CredArgs(r) == [op |-> r.endpoint, username |-> r.username,
                password |-> r.password]
BeatArgs(r) == [op |-> "heartbeat", token |-> r.token,
                server_id |-> r.server_id, payload |-> r.players]

Progress(h) == IF pc[h] = "reply" THEN result[h] ELSE "pending"

(* A step of one handler changes one call.                                 *)
LEMMA OneCall ==
  ASSUME NEW h \in Handlers, NEW c, c = AbstractCall(h)',
         \A g \in Handlers : g # h => /\ pc'[g] = pc[g] /\ req'[g] = req[g]
                                      /\ result'[g] = result[g]
  PROVE  Mapped' = [Mapped EXCEPT ![h] = c]
<1>1. \A g \in Handlers : g # h => AbstractCall(g)' = AbstractCall(g)
  BY DEF AbstractCall
<1> QED BY <1>1 DEF Mapped

LEMMA SameCall ==
  ASSUME NEW h \in Handlers, AbstractCall(h)' = AbstractCall(h),
         \A g \in Handlers : g # h => /\ pc'[g] = pc[g] /\ req'[g] = req[g]
                                      /\ result'[g] = result[g]
  PROVE  Mapped' = Mapped
<1>1. \A g \in Handlers : AbstractCall(g)' = AbstractCall(g)
  BY DEF AbstractCall
<1> QED BY <1>1 DEF Mapped

(* What the call of a handler is.                                          *)
LEMMA CallIs ==
  ASSUME NEW h \in Handlers
  PROVE  /\ req[h].endpoint \in {"none", "servers"} => AbstractCall(h) = <<None, "idle">>
         /\ req[h].endpoint \in {"register", "login"}
              => AbstractCall(h) = <<CredArgs(req[h]), Progress(h)>>
         /\ req[h].endpoint = "heartbeat"
              => AbstractCall(h) = <<BeatArgs(req[h]), Progress(h)>>
BY DEF AbstractCall, CredArgs, BeatArgs, Progress

LEMMA RegisterStep ==
  ASSUME AccountInv, NEW h \in Handlers, AddUser(h)
  PROVE  Service!Register(h)
<1> USE DEF AccountInv, TypeOK, StorageTypeOK, HandlersTypeOK
<1> DEFINE r == req[h]
<1>1. r.endpoint = "register" /\ pc[h] = "add_user" /\ r \in Request
  BY DEF AddUser, Shape, RequestShape, StepFits, Pc
<1>2. AbstractCall(h) = <<CredArgs(r), "pending">>
  BY <1>1, CallIs DEF Progress
<1>3. Mapped[h] = <<CredArgs(r), "pending">>
  BY <1>2 DEF Mapped
<1>4. r' = r /\ pc'[h] = "reply"
  BY DEF AddUser, Answer, Goto
<1>5. AbstractCall(h)' = <<CredArgs(r), result'[h]>>
  BY <1>1, <1>4 DEF AbstractCall, CredArgs
<1>6. Mapped' = [Mapped EXCEPT ![h] = <<CredArgs(r), result'[h]>>]
  BY <1>5, OneCall DEF AddUser, Answer, Goto
<1>7. Mapped[h][2] = "pending" /\ Mapped[h][1].op = "register"
      /\ Mapped[h][1].username = r.username
      /\ Mapped[h][1].password = r.password /\ Mapped[h][1] = CredArgs(r)
  BY <1>1, <1>3 DEF CredArgs
<1> HIDE DEF r
<1> QED
  BY <1>6, <1>7
  DEF Service!Register, Service!Pending, Service!Result, Mapped,
      AddUser, Answer, add_user, UserExists, storageVars, r

(* A login takes effect where it is refused, or where it issues a token.   *)
LEMMA LoginStep ==
  ASSUME AccountInv, NEW h \in Handlers, GetUser(h) \/ IssueToken(h)
  PROVE  \/ Service!Login(h)
         \/ UNCHANGED <<users, tokens>> /\ Mapped' = Mapped
<1> USE DEF AccountInv, TypeOK, StorageTypeOK, HandlersTypeOK
<1> DEFINE r == req[h]
<1>1. /\ r.endpoint = "login" /\ pc[h] \in {"get_user", "issue"}
      /\ r.username \in Usernames /\ r.password \in Passwords
  BY DEF GetUser, IssueToken, Shape, RequestShape, StepFits, FieldsFit
<1>2. Mapped[h] = <<CredArgs(r), "pending">>
  BY <1>1, CallIs DEF Progress, Mapped
<1>3. Mapped[h][2] = "pending" /\ Mapped[h][1].op = "login"
      /\ Mapped[h][1].username = r.username
      /\ Mapped[h][1].password = r.password /\ Mapped[h][1] = CredArgs(r)
  BY <1>1, <1>2 DEF CredArgs
<1>4. r' = r
  BY DEF GetUser, IssueToken
<1>5. CASE pc'[h] = "reply"
  <2>1. AbstractCall(h)' = <<CredArgs(r), result'[h]>>
    BY <1>1, <1>4, <1>5 DEF AbstractCall, CredArgs
  <2>2. Mapped' = [Mapped EXCEPT ![h] = <<CredArgs(r), result'[h]>>]
    BY <2>1, OneCall DEF GetUser, IssueToken, Answer, Goto
  <2>3. CASE GetUser(h)
    <3>1. \/ users[r.username] = None /\ result'[h] = "unknown_user"
          \/ /\ users[r.username] # None /\ users[r.username] # r.password
             /\ result'[h] = "bad_pw"
      BY <1>1, <1>5, <2>3, StorageAssumption DEF GetUser, get_user, Goto, Answer
    <3>2. UNCHANGED <<users, tokens>>
      BY <2>3 DEF GetUser, storageVars
    <3> HIDE DEF r
    <3> QED BY <1>3, <2>2, <3>1, <3>2
            DEF Service!Login, Service!Pending, Service!Result, Mapped
  <2>4. CASE IssueToken(h)
    <3>1. users[r.username] = r.password /\ result'[h] = "granted"
      BY <2>4 DEF IssueToken, Answer, Learned, StillTrue
    <3>2. \E t \in Tokens : /\ tokens[t] = None
                           /\ tokens' = [tokens EXCEPT ![t] = r.username]
      BY <2>4 DEF IssueToken, Unissued, add_token
    <3>3. users' = users
      BY <2>4 DEF IssueToken, add_token
    <3> HIDE DEF r
    <3> QED BY <1>3, <2>2, <3>1, <3>2, <3>3
            DEF Service!Login, Service!Pending, Service!Result, Mapped
  <2> QED BY <2>3, <2>4
<1>6. CASE pc'[h] # "reply"
  <2>1. GetUser(h) /\ UNCHANGED <<users, tokens, result>>
    BY <1>6 DEF GetUser, IssueToken, Answer, Goto, storageVars
  <2>2. AbstractCall(h)' = AbstractCall(h)
    BY <1>1, <1>4, <1>6 DEF AbstractCall
  <2>3. \A g \in Handlers : g # h => /\ pc'[g] = pc[g] /\ req'[g] = req[g]
                                    /\ result'[g] = result[g]
    BY <2>1 DEF GetUser, Goto, Answer
  <2>4. Mapped' = Mapped
    BY <2>2, <2>3, SameCall
  <2> QED BY <2>1, <2>4
<1> QED BY <1>5, <1>6

(* The session a heartbeat has shown is open until the row is stored.      *)
SessionOpen ==
  \A h \in Handlers : pc[h] \in {"now_beat", "upsert"}
    => req[h].token \in Tokens /\ tokens[req[h].token] # None

LEMMA HeartbeatStep ==
  ASSUME AccountInv, SessionOpen, NEW h \in Handlers,
         Authenticate(h) \/ UpsertServer(h)
  PROVE  \/ Service!Heartbeat(h)
         \/ UNCHANGED <<users, tokens>> /\ Mapped' = Mapped
<1> USE DEF AccountInv, TypeOK, StorageTypeOK, HandlersTypeOK
<1> DEFINE r == req[h]
<1>1. r.endpoint = "heartbeat" /\ pc[h] \in {"auth", "upsert"}
  BY DEF Authenticate, UpsertServer, Shape, RequestShape, StepFits
<1>2. Mapped[h] = <<BeatArgs(r), "pending">>
  BY <1>1, CallIs DEF Progress, Mapped
<1>3. /\ Mapped[h][2] = "pending" /\ Mapped[h][1].op = "heartbeat"
      /\ Mapped[h][1].token = r.token /\ Mapped[h][1].server_id = r.server_id
      /\ Mapped[h][1].payload = r.players /\ Mapped[h][1] = BeatArgs(r)
  BY <1>1, <1>2 DEF BeatArgs
<1>4. r' = r /\ UNCHANGED <<users, tokens>>
  BY DEF Authenticate, UpsertServer, upsert_server, storageVars
<1>5. CASE pc'[h] = "reply"
  <2>1. AbstractCall(h)' = <<BeatArgs(r), result'[h]>>
    BY <1>1, <1>4, <1>5 DEF AbstractCall, BeatArgs
  <2>2. Mapped' = [Mapped EXCEPT ![h] = <<BeatArgs(r), result'[h]>>]
    BY <2>1, OneCall DEF Authenticate, UpsertServer, Answer, Goto
  <2>3. CASE Authenticate(h)
    <3>1. \/ /\ r.token = None \/ tokens[r.token] = None
             /\ result'[h] = "invalid_token"
          \/ /\ r.token # None /\ tokens[r.token] # None
             /\ r.server_id = None /\ result'[h] = "server_id_required"
      BY <1>5, <2>3 DEF Authenticate, get_token_username, Goto, Answer
    <3> HIDE DEF r
    <3> QED BY <1>3, <1>4, <2>2, <3>1
            DEF Service!Heartbeat, Service!Pending, Service!Result, Mapped
  <2>4. CASE UpsertServer(h)
    <3>1. /\ r.token # None /\ tokens[r.token] # None
          /\ r.server_id # None
      BY <2>4, StorageAssumption
         DEF UpsertServer, SessionOpen, Shape, RequestShape
    <3>2. \/ /\ Durable /\ r.players = Malformed
             /\ result'[h] = "error"
          \/ /\ ~(Durable /\ r.players = Malformed)
             /\ result'[h] = "beat"
      BY <2>4 DEF UpsertServer, UpsertRaises, upsert_server, Answer
    <3> HIDE DEF r
    <3> QED BY <1>3, <1>4, <2>2, <3>1, <3>2
            DEF Service!Heartbeat, Service!Pending, Service!Result, Mapped
  <2> QED BY <2>3, <2>4
<1>6. CASE pc'[h] # "reply"
  <2>1. Authenticate(h) /\ UNCHANGED result
    BY <1>6 DEF Authenticate, UpsertServer, Answer, Goto
  <2>2. AbstractCall(h)' = AbstractCall(h)
    BY <1>1, <1>4, <1>6 DEF AbstractCall
  <2>3. \A g \in Handlers : g # h => /\ pc'[g] = pc[g] /\ req'[g] = req[g]
                                    /\ result'[g] = result[g]
    BY <2>1 DEF Authenticate, Goto, Answer
  <2>4. Mapped' = Mapped
    BY <2>2, <2>3, SameCall
  <2> QED BY <1>4, <2>4
<1> QED BY <1>5, <1>6

-----------------------------------------------------------------------------
(* The steps that the service does not see, and the ones that open, close  *)
(* or drop a call.                                                         *)
LEMMA InnerStep ==
  ASSUME AccountInv, NEW h \in Handlers,
         ReadClock(h) \/ ListServers(h) \/ Publish(h)
  PROVE  UNCHANGED <<users, tokens>> /\ Mapped' = Mapped
<1> USE DEF AccountInv, TypeOK, HandlersTypeOK
<1>1. /\ UNCHANGED <<users, tokens>> /\ req' = req
      /\ \A g \in Handlers : g # h => pc'[g] = pc[g] /\ result'[g] = result[g]
  BY DEF ReadClock, ListServers, Publish, Goto, Answer, storageVars
<1>2. CASE ReadClock(h) /\ pc[h] = "now_beat"
  <2>1. /\ req[h].endpoint = "heartbeat" /\ pc'[h] # "reply" /\ pc[h] # "reply"
    BY <1>2 DEF ReadClock, Goto, Shape, RequestShape, StepFits
  <2>2. AbstractCall(h)' = AbstractCall(h)
    BY <1>1, <2>1 DEF AbstractCall
  <2> QED BY <1>1, <2>2, SameCall
<1>3. CASE ~(ReadClock(h) /\ pc[h] = "now_beat")
  <2>1. req[h].endpoint = "servers"
    BY <1>3 DEF ReadClock, ListServers, Publish, Shape, RequestShape, StepFits
  <2>2. AbstractCall(h)' = AbstractCall(h)
    BY <1>1, <2>1 DEF AbstractCall
  <2> QED BY <1>1, <2>2, SameCall
<1> QED BY <1>2, <1>3

LEMMA ReplyStep ==
  ASSUME AccountInv, NEW h \in Handlers, Reply(h)
  PROVE  \/ Service!Return(h)
         \/ UNCHANGED <<users, tokens>> /\ Mapped' = Mapped
<1> USE DEF AccountInv, TypeOK, HandlersTypeOK
<1>1. /\ UNCHANGED <<users, tokens>>
      /\ pc[h] = "reply" /\ result[h] # "none" /\ req'[h] = NoRequest
      /\ \A g \in Handlers : g # h => /\ pc'[g] = pc[g] /\ req'[g] = req[g]
                                      /\ result'[g] = result[g]
  BY DEF Reply, Goto, storageVars, Shape, RequestShape
<1>2. AbstractCall(h)' = <<None, "idle">>
  BY <1>1 DEF AbstractCall, NoRequest
<1>3. CASE req[h].endpoint = "servers"
  <2>1. AbstractCall(h) = <<None, "idle">>
    BY <1>3, CallIs
  <2> QED BY <1>1, <1>2, <2>1, SameCall
<1>4. CASE req[h].endpoint \in {"register", "login", "heartbeat"}
  <2>1. Mapped[h][2] = result[h]
    BY <1>1, <1>4, CallIs DEF Mapped, Progress
  <2>2. Mapped[h][2] \notin {"idle", "pending"}
    BY <1>1, <2>1 DEF Results
  <2>3. Mapped' = [Mapped EXCEPT ![h] = <<None, "idle">>]
    BY <1>1, <1>2, OneCall
  <2> QED BY <1>1, <2>2, <2>3 DEF Service!Return, Service!Idle, Mapped
<1>5. req[h].endpoint # "none"
  BY <1>1 DEF Shape, RequestShape, StepFits
<1> QED BY <1>3, <1>4, <1>5 DEF Request

LEMMA ReceiveStep ==
  ASSUME AccountInv, NEW h \in Handlers, Receive(h)
  PROVE  \/ Service!Invoke(h)
         \/ UNCHANGED <<users, tokens>> /\ Mapped' = Mapped
<1> USE DEF AccountInv, TypeOK, HandlersTypeOK
<1>1. /\ UNCHANGED <<users, tokens, result>>
      /\ pc[h] = "idle" /\ req'[h] \in Request
      /\ \A g \in Handlers : g # h => pc'[g] = pc[g] /\ req'[g] = req[g]
      /\ req[h].endpoint = "none" /\ pc'[h] # "reply"
  <2>1. /\ UNCHANGED <<users, tokens, result>> /\ pc[h] = "idle"
        /\ \A g \in Handlers : g # h => pc'[g] = pc[g] /\ req'[g] = req[g]
        /\ pc'[h] # "reply"
    BY DEF Receive, ArriveRegister, ArriveLogin, ArriveHeartbeat,
           ArriveServers, Arrive, Goto, storageVars
  <2>2. req'[h] \in Request
    BY ReceiveShape DEF HandlersTypeOK
  <2>3. req[h].endpoint = "none"
    BY <2>1 DEF Shape, RequestShape, StepFits
  <2> QED BY <2>1, <2>2, <2>3
<1>2. Mapped[h] = <<None, "idle">>
  BY <1>1, CallIs DEF Mapped
<1>3. CASE req'[h].endpoint = "servers"
  <2>1. AbstractCall(h)' = AbstractCall(h)
    BY <1>1, <1>3 DEF AbstractCall
  <2> QED BY <1>1, <2>1, SameCall
<1>4. ASSUME NEW args \in Service!Calls,
             AbstractCall(h)' = <<args, "pending">>
      PROVE  Service!Invoke(h)
  <2>1. Mapped' = [Mapped EXCEPT ![h] = <<args, "pending">>]
    BY <1>1, <1>4, OneCall
  <2> QED BY <1>1, <1>2, <2>1 DEF Service!Invoke, Service!Idle, Mapped
<1>5. FieldsFit(req'[h]) /\ req'[h].endpoint # "none"
  <2>1. RequestShape(h)'
    BY ReceiveShape DEF Shape
  <2>2. pc'[h] # "idle"
    BY DEF Receive, ArriveRegister, ArriveLogin, ArriveHeartbeat,
           ArriveServers, Arrive, Goto
  <2> QED BY <2>1, <2>2 DEF RequestShape, StepFits
<1>6. CASE req'[h].endpoint \in {"register", "login"}
  <2>1. CredArgs(req'[h]) \in Service!Calls
    BY <1>1, <1>5, <1>6 DEF CredArgs, Service!Calls, FieldsFit, Request
  <2>2. AbstractCall(h)' = <<CredArgs(req'[h]), "pending">>
    BY <1>1, <1>6 DEF AbstractCall, CredArgs
  <2> QED BY <1>4, <2>1, <2>2
<1>7. CASE req'[h].endpoint = "heartbeat"
  <2>1. BeatArgs(req'[h]) \in Service!Calls
    BY <1>1, <1>5, <1>7 DEF BeatArgs, Service!Calls, FieldsFit, Request
  <2>2. AbstractCall(h)' = <<BeatArgs(req'[h]), "pending">>
    BY <1>1, <1>7 DEF AbstractCall, BeatArgs
  <2> QED BY <1>4, <2>1, <2>2
<1> QED BY <1>1, <1>3, <1>5, <1>6, <1>7 DEF Request

LEMMA CrashStep ==
  ASSUME Crash
  PROVE  Service!Crash
<1>1. \A h \in Handlers : AbstractCall(h)' = <<None, "idle">>
  BY DEF Crash, DropRequests, AbstractCall, NoRequest
<1>2. Mapped' = [h \in Handlers |-> <<None, "idle">>]
  BY <1>1 DEF Mapped
<1> QED BY <1>2 DEF Crash, reopen, storageVars, Service!Crash, Service!Idle,
                    Mapped

-----------------------------------------------------------------------------
(* The invariant: what MatchmakerProofs shows of accounts, and SessionOpen. *)
ServiceInv == AccountInv /\ SessionOpen

LEMMA ServiceInvStep ==
  ASSUME ServiceInv, [Next]_vars
  PROVE  ServiceInv'
<1> USE DEF ServiceInv
<1>1. AccountInv'
  BY NextKeepsAccounts
<1>2. ASSUME NEW h \in Handlers, Handle(h)
      PROVE  SessionOpen'
  <2> USE DEF AccountInv, TypeOK, StorageTypeOK, HandlersTypeOK, SessionOpen
  <2>1. CASE Receive(h)
    BY <2>1 DEF Receive, ArriveRegister, ArriveLogin, ArriveHeartbeat,
                ArriveServers, Arrive, Goto, storageVars
  <2>2. CASE Serve(h)
    <3>1. \A t \in Tokens : tokens[t] # None => tokens'[t] # None
      BY <2>2, ServeGrows DEF StoreGrows
    <3>2. ASSUME NEW g \in Handlers, g # h, pc'[g] \in {"now_beat", "upsert"}
          PROVE  req'[g].token \in Tokens /\ tokens'[req'[g].token] # None
      BY <2>2, <3>1, <3>2, ServeTouches DEF Touches
    <3>3. ASSUME pc'[h] \in {"now_beat", "upsert"}
          PROVE  req'[h].token \in Tokens /\ tokens'[req'[h].token] # None
      <4>1. req[h].token \in Tokens \union {None}
        BY DEF Request
      <4>2. \/ Authenticate(h) /\ get_token_username(req[h].token) # None
            \/ ReadClock(h) /\ pc[h] = "now_beat"
        BY <2>2, <3>3 DEF Serve, AddUser, GetUser, IssueToken, Authenticate,
                          ReadClock, UpsertServer, ListServers, Publish, Reply,
                          Goto, Answer
      <4>3. req' = req
        BY <4>2 DEF Authenticate, ReadClock
      <4>4. req[h].token \in Tokens /\ tokens[req[h].token] # None
        BY <4>1, <4>2 DEF get_token_username
      <4> QED BY <3>1, <4>3, <4>4
    <3> QED BY <3>2, <3>3
  <2> QED BY <1>2, <2>1, <2>2 DEF Handle
<1>3. CASE Crash
  <2>1. \A h \in Handlers : pc'[h] = "idle"
    BY <1>3 DEF Crash, DropRequests
  <2> QED BY <1>1, <2>1 DEF SessionOpen
<1>4. ASSUME UNCHANGED <<pc, req, tokens>>
      PROVE  SessionOpen'
  BY <1>4 DEF SessionOpen
<1>5. CASE Maintain
  <2>1. UNCHANGED <<pc, req, tokens>>
    BY <1>5, MaintainGrows DEF Maintain, handlerVars, localVars
  <2> QED BY <1>1, <1>4, <2>1
<1>6. CASE Tick \/ Restart \/ UNCHANGED vars
  <2>1. UNCHANGED <<pc, req, tokens>>
    BY <1>6 DEF Tick, Restart, vars, storageVars, handlerVars, localVars
  <2> QED BY <1>1, <1>4, <2>1
<1> QED BY <1>1, <1>2, <1>3, <1>5, <1>6 DEF Next

LEMMA ServiceInvariance == Spec => []ServiceInv
<1>1. Init => ServiceInv
  BY InitAccounts DEF ServiceInv, SessionOpen, Init, HandlersInit
<1>2. ServiceInv /\ [Next]_vars => ServiceInv'
  BY ServiceInvStep
<1> QED BY <1>1, <1>2, PTL DEF Spec

(***************************************************************************)
(* The handlers of register, login and heartbeat, each a sequence of       *)
(* storage calls that others interleave with and a crash may cut short,    *)
(* implement the service whose operations are atomic.                      *)
(***************************************************************************)
THEOREM ImplementsAccountServiceAlways == Spec => ImplementsAccountService
<1>1. Init => Service!Init
  <2> SUFFICES ASSUME Init PROVE Service!Init
    OBVIOUS
  <2>1. \A h \in Handlers : AbstractCall(h) = <<None, "idle">>
    BY DEF Init, HandlersInit, AbstractCall, NoRequest
  <2> QED BY <2>1 DEF Init, StorageInit, Service!Init, Service!Idle
<1>2. ServiceInv /\ [Next]_vars => [Service!Next]_Service!vars
  <2> SUFFICES ASSUME ServiceInv, [Next]_vars
               PROVE  \/ Service!Next
                      \/ UNCHANGED <<users, tokens>> /\ Mapped' = Mapped
    BY DEF Service!vars, Mapped
  <2> USE DEF ServiceInv
  <2>1. ASSUME NEW h \in Handlers, Handle(h)
        PROVE  \/ Service!Next
               \/ UNCHANGED <<users, tokens>> /\ Mapped' = Mapped
    <3>1. CASE Receive(h)
      BY <3>1, ReceiveStep DEF Service!Next
    <3>2. CASE AddUser(h)
      BY <3>2, RegisterStep DEF Service!Next
    <3>3. CASE GetUser(h) \/ IssueToken(h)
      BY <3>3, LoginStep DEF Service!Next
    <3>4. CASE Authenticate(h) \/ UpsertServer(h)
      BY <3>4, HeartbeatStep DEF Service!Next
    <3>5. CASE ReadClock(h) \/ ListServers(h) \/ Publish(h)
      BY <3>5, InnerStep
    <3>6. CASE Reply(h)
      BY <3>6, ReplyStep DEF Service!Next
    <3> QED BY <2>1, <3>1, <3>2, <3>3, <3>4, <3>5, <3>6 DEF Handle, Serve
  <2>2. CASE Crash
    BY <2>2, CrashStep DEF Service!Next
  <2>3. ASSUME UNCHANGED <<users, tokens, pc, req, result>>
        PROVE  Mapped' = Mapped
    BY <2>3 DEF Mapped, AbstractCall
  <2>4. CASE Maintain
    BY <2>3, <2>4, MaintainGrows DEF Maintain, handlerVars, localVars
  <2>5. CASE Tick \/ Restart \/ UNCHANGED vars
    BY <2>3, <2>5 DEF Tick, Restart, vars, storageVars, handlerVars, localVars
  <2> QED BY <2>1, <2>2, <2>4, <2>5 DEF Next
<1> QED BY <1>1, <1>2, ServiceInvariance, PTL
        DEF Spec, ImplementsAccountService, Service!Spec
=============================================================================
