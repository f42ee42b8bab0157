--------------------------- MODULE RequestHandlers ---------------------------
(***************************************************************************)
(* The HTTP handlers of matchmaking_server.py.                             *)
(*                                                                         *)
(* Flask's development server runs every request in a thread of its own    *)
(* and only the storage methods are locked, so a handler is a short        *)
(* program whose steps are the storage calls, the reads of the clock and   *)
(* the reply; pc[h] names the step handler h takes next.                   *)
(*                                                                         *)
(* The counters of refused requests, the latency histogram and the event   *)
(* log decide nothing in a handler and are left out; the log is module     *)
(* EventLog's subject.                                                     *)
(***************************************************************************)
EXTENDS MatchmakerStorage

CONSTANTS
  Handlers,      (* threads, so also the requests in flight at once        *)
  Endpoints      (* the endpoints the clients of a model use               *)

ASSUME HandlersAssumption ==
  /\ Endpoints \subseteq {"register", "login", "heartbeat", "servers"}
  /\ IsFiniteSet(Handlers)

VARIABLES
  pc,        (* the next step of each handler; "idle": no request          *)
  req,       (* the request a handler serves                               *)
  stamp,     (* the handler's own copy of time.time()                      *)
  result,    (* the label the request is counted and answered with         *)
  token,     (* the token a login has issued                               *)
  listing,   (* the list GET /api/servers has fetched and sorted           *)
  created,   (* REGISTRATIONS_TOTAL{result="created"}                      *)
  loginsOk,  (* LOGINS_TOTAL{result="ok"}                                  *)
  gauge      (* ACTIVE_SERVERS_COUNT                                       *)

(* What clients have been told; no part of the program.                    *)
VARIABLES
  acked,     (* the <<username, password>> of every 201                    *)
  granted,   (* the [token, username, password] of every login's 200       *)
  stale,     (* tokens granted by a process whose memory is gone           *)
  floor,     (* the oldest stamp that may be stored over a heartbeat's     *)
  beats      (* server id -> floor of the last heartbeat answered 200      *)

localVars == <<pc, req, stamp, result, token, listing>>
metricVars == <<created, loginsOk, gauge>>
clientVars == <<acked, granted, stale, floor, beats>>
handlerVars == <<localVars, metricVars, clientVars>>

Pc == {"idle", "add_user", "get_user", "issue", "auth", "now_beat", "upsert",
       "now_list", "query", "publish", "reply"}

Results == {"none", "created", "duplicate", "invalid",
            "granted", "unknown_user", "bad_pw",
            "beat", "invalid_token", "server_id_required",
            "listed", "error"}

Request == [endpoint  : {"none", "register", "login", "heartbeat", "servers"},
            username  : Usernames \union {None},
            password  : Passwords \union {None},
            token     : Tokens \union {None},
            server_id : ServerIds \union {None},
            players   : PlayerCounts \union {Malformed, None}]

NoRequest == [endpoint |-> "none", username |-> None, password |-> None,
              token |-> None, server_id |-> None, players |-> None]

Grant == [token : Tokens, username : Usernames, password : Passwords]

(* The tokens clients hold; the ones a login may still draw.  A token      *)
(* drawn twice would be a failure of the random source and is not modelled. *)
Known == stale \union {g.token : g \in granted}
Unissued == {t \in Tokens : t \notin Known /\ tokens[t] = None}

HandlersTypeOK ==
  /\ pc \in [Handlers -> Pc]
  /\ req \in [Handlers -> Request]
  /\ stamp \in [Handlers -> Nat]
  /\ result \in [Handlers -> Results]
  /\ token \in [Handlers -> Tokens \union {None}]
  /\ listing \in [Handlers -> Seq(ListedRow)]
  /\ created \in Nat /\ loginsOk \in Nat /\ gauge \in Nat
  /\ acked \in SUBSET (Usernames \X Passwords)
  /\ granted \in SUBSET Grant
  /\ stale \in SUBSET Tokens
  /\ floor \in [Handlers -> Nat]
  /\ beats \in [ServerIds -> Nat \union {None}]

HandlersInit ==
  /\ pc = [h \in Handlers |-> "idle"]
  /\ req = [h \in Handlers |-> NoRequest]
  /\ stamp = [h \in Handlers |-> 0]
  /\ result = [h \in Handlers |-> "none"]
  /\ token = [h \in Handlers |-> None]
  /\ listing = [h \in Handlers |-> <<>>]
  /\ created = 0 /\ loginsOk = 0 /\ gauge = 0
  /\ acked = {} /\ granted = {} /\ stale = {}
  /\ floor = [h \in Handlers |-> 0]
  /\ beats = [s \in ServerIds |-> None]

Goto(h, step) == pc' = [pc EXCEPT ![h] = step]

(* The request's fate is decided: answer with label r.                     *)
Answer(h, r) ==
  /\ Goto(h, "reply")
  /\ result' = [result EXCEPT ![h] = r]

-----------------------------------------------------------------------------
(* A request arrives.                                                      *)

Arrive(h, endpoint, first, fields) ==
  /\ endpoint \in Endpoints
  /\ pc[h] = "idle"
  /\ Goto(h, first)
  /\ req' = [req EXCEPT ![h] = fields]
  /\ UNCHANGED <<stamp, result, token, listing, metricVars>>
  /\ UNCHANGED <<acked, granted, stale, beats>>
  /\ UNCHANGED storageVars

(* A body whose name or password is too short is one without a username.   *)
ArriveRegister(h) ==
  /\ \E u \in Usernames \union {None}, pw \in Passwords :
       Arrive(h, "register", "add_user",
              [NoRequest EXCEPT !.endpoint = "register", !.username = u,
                                !.password = pw])
  /\ UNCHANGED floor

(* LoginsInFlight bounds the model: the set of tokens is finite, and a     *)
(* login never waits for one in the program.                               *)
LoginsInFlight ==
  Cardinality({h \in Handlers : pc[h] \in {"get_user", "issue"}})

ArriveLogin(h) ==
  /\ LoginsInFlight < Cardinality(Unissued)
  /\ \E u \in Usernames, pw \in Passwords :
       Arrive(h, "login", "get_user",
              [NoRequest EXCEPT !.endpoint = "login", !.username = u,
                                !.password = pw])
  /\ UNCHANGED floor

(* The clock readings a heartbeat of s that arrives now may find stored    *)
(* over its own: its own will be at least the clock, but an older one of   *)
(* another heartbeat of s may still be waiting for the storage lock.       *)
Readings(s) ==
  {clock} \union {stamp[g] : g \in {g \in Handlers :
                              pc[g] = "upsert" /\ req[g].server_id = s}}

ArriveHeartbeat(h) ==
  \E t \in Known \union {None}, s \in ServerIds \union {None},
     n \in PlayerCounts \union {Malformed} :
    /\ Arrive(h, "heartbeat", "auth",
              [NoRequest EXCEPT !.endpoint = "heartbeat", !.token = t,
                                !.server_id = s, !.players = n])
    /\ \E oldest \in Readings(s) :
         /\ \A r \in Readings(s) : oldest <= r
         /\ floor' = [floor EXCEPT ![h] = oldest]

ArriveServers(h) ==
  /\ Arrive(h, "servers", "now_list", [NoRequest EXCEPT !.endpoint = "servers"])
  /\ UNCHANGED floor

-----------------------------------------------------------------------------
(* POST /api/register                                                      *)

AddUser(h) ==
  LET u == req[h].username IN
  /\ pc[h] = "add_user"
  /\ \/ /\ u = None
        /\ Answer(h, "invalid")
        /\ UNCHANGED storageVars
     \/ /\ u # None /\ UserExists(u)
        /\ Answer(h, "duplicate")
        /\ UNCHANGED storageVars
     \/ /\ u # None /\ add_user(u, req[h].password)
        /\ Answer(h, "created")
  /\ UNCHANGED <<req, stamp, token, listing, metricVars, clientVars>>

-----------------------------------------------------------------------------
(* POST /api/login: the user is read in one storage call, the token is     *)
(* stored in another.                                                      *)

(* Mutant: an unknown user is not turned away.                             *)
GetUser_unknown(h) ==
  LET pw == get_user(req[h].username) IN
  /\ pc[h] = "get_user"
  /\ \/ pw # None /\ pw # req[h].password /\ Answer(h, "bad_pw")
     \/ pw \in {None, req[h].password} /\ Goto(h, "issue") /\ UNCHANGED result
  /\ UNCHANGED <<req, stamp, token, listing, metricVars, clientVars>>
  /\ UNCHANGED storageVars

(* Mutant: the password is not compared.                                   *)
GetUser_unchecked(h) ==
  /\ pc[h] = "get_user"
  /\ IF get_user(req[h].username) = None
     THEN Answer(h, "unknown_user")
     ELSE Goto(h, "issue") /\ UNCHANGED result
  /\ UNCHANGED <<req, stamp, token, listing, metricVars, clientVars>>
  /\ UNCHANGED storageVars

GetUser(h) ==
  LET pw == get_user(req[h].username) IN
  /\ pc[h] = "get_user"
  /\ \/ pw = None /\ Answer(h, "unknown_user")
     \/ pw # None /\ pw # req[h].password /\ Answer(h, "bad_pw")
     \/ pw = req[h].password /\ Goto(h, "issue") /\ UNCHANGED result
  /\ UNCHANGED <<req, stamp, token, listing, metricVars, clientVars>>
  /\ UNCHANGED storageVars

IssueToken(h) ==
  /\ pc[h] = "issue"
  /\ \E t \in Unissued :
       /\ add_token(t, req[h].username)
       /\ token' = [token EXCEPT ![h] = t]
  /\ Answer(h, "granted")
  /\ UNCHANGED <<req, stamp, listing, metricVars, clientVars>>

-----------------------------------------------------------------------------
(* POST /api/heartbeat: the token is checked in one storage call, the      *)
(* clock is read, the row is stored in another storage call.               *)

Authenticate(h) ==
  LET owner == get_token_username(req[h].token) IN
  /\ pc[h] = "auth"
  /\ \/ owner = None /\ Answer(h, "invalid_token")
     \/ /\ owner # None /\ req[h].server_id = None
        /\ Answer(h, "server_id_required")
     \/ /\ owner # None /\ req[h].server_id # None
        /\ Goto(h, "now_beat") /\ UNCHANGED result
  /\ UNCHANGED <<req, stamp, token, listing, metricVars, clientVars>>
  /\ UNCHANGED storageVars

ReadClock(h) ==
  /\ \/ pc[h] = "now_beat" /\ Goto(h, "upsert")
     \/ pc[h] = "now_list" /\ Goto(h, "query")
  /\ stamp' = [stamp EXCEPT ![h] = clock]
  /\ UNCHANGED <<req, result, token, listing, metricVars, clientVars>>
  /\ UNCHANGED storageVars

(* Mutant: the thread is stuck where the storage call raises.              *)
UpsertServer_stuck(h) ==
  /\ pc[h] = "upsert"
  /\ upsert_server(req[h].server_id, req[h].players, stamp[h])
  /\ Answer(h, "beat")
  /\ UNCHANGED <<req, stamp, token, listing, metricVars, clientVars>>

UpsertServer(h) ==
  /\ pc[h] = "upsert"
  /\ \/ /\ UpsertRaises(req[h].players)
        /\ Answer(h, "error")
        /\ UNCHANGED storageVars
     \/ /\ upsert_server(req[h].server_id, req[h].players, stamp[h])
        /\ Answer(h, "beat")
  /\ UNCHANGED <<req, stamp, token, listing, metricVars, clientVars>>

-----------------------------------------------------------------------------
(* GET /api/servers                                                        *)

(* list.sort(key=players, reverse=True), with the order of equal rows left *)
(* open.                                                                   *)
ByPlayersDesc(rows) ==
  {q \in [1..Cardinality(rows) -> rows] :
     /\ \A r \in rows : \E i \in 1..Cardinality(rows) : q[i] = r
     /\ \A i, j \in 1..Cardinality(rows) :
          i < j => q[i].players >= q[j].players}

ListServers(h) ==
  /\ pc[h] = "query"
  /\ \/ /\ ListingRaises(stamp[h], SERVER_TTL_SEC)
        /\ Answer(h, "error")
        /\ UNCHANGED listing
     \/ /\ ~ListingRaises(stamp[h], SERVER_TTL_SEC)
        /\ \E q \in ByPlayersDesc(list_live_servers(stamp[h], SERVER_TTL_SEC)) :
             listing' = [listing EXCEPT ![h] = q]
        /\ Goto(h, "publish") /\ UNCHANGED result
  /\ stamp' = [stamp EXCEPT ![h] = 0]
  /\ UNCHANGED <<req, token, metricVars, clientVars>>
  /\ UNCHANGED storageVars

Publish(h) ==
  /\ pc[h] = "publish"
  /\ gauge' = Len(listing[h])
  /\ Answer(h, "listed")
  /\ UNCHANGED <<req, stamp, token, listing, created, loginsOk, clientVars>>
  /\ UNCHANGED storageVars

-----------------------------------------------------------------------------
(* The request is counted and answered, and the thread ends.               *)

(* Mutant: a refused registration is counted with the created ones.        *)
Count_attempts(h) ==
  /\ created' = IF result[h] \in {"created", "duplicate"}
                THEN created + 1 ELSE created
  /\ loginsOk' = IF result[h] = "granted" THEN loginsOk + 1 ELSE loginsOk

Count(h) ==
  /\ created' = IF result[h] = "created" THEN created + 1 ELSE created
  /\ loginsOk' = IF result[h] = "granted" THEN loginsOk + 1 ELSE loginsOk

Reply(h) ==
  LET r == req[h] IN
  /\ pc[h] = "reply"
  /\ Count(h)
  /\ acked' = acked \union
       (IF result[h] = "created" THEN {<<r.username, r.password>>} ELSE {})
  /\ granted' = granted \union
       (IF result[h] = "granted"
        THEN {[token |-> token[h], username |-> r.username,
               password |-> r.password]}
        ELSE {})
  /\ beats' = IF result[h] = "beat"
              THEN [beats EXCEPT ![r.server_id] = floor[h]] ELSE beats
  /\ floor' = [floor EXCEPT ![h] = 0]
  /\ Goto(h, "idle")
  /\ req' = [req EXCEPT ![h] = NoRequest]
  /\ stamp' = [stamp EXCEPT ![h] = 0]
  /\ result' = [result EXCEPT ![h] = "none"]
  /\ token' = [token EXCEPT ![h] = None]
  /\ listing' = [listing EXCEPT ![h] = <<>>]
  /\ UNCHANGED <<gauge, stale>>
  /\ UNCHANGED storageVars

(* Everything a handler does once its request has arrived.                 *)
Serve(h) ==
  \/ AddUser(h)
  \/ GetUser(h) \/ IssueToken(h)
  \/ Authenticate(h) \/ UpsertServer(h)
  \/ ReadClock(h)
  \/ ListServers(h) \/ Publish(h)
  \/ Reply(h)

Receive(h) ==
  ArriveRegister(h) \/ ArriveLogin(h) \/ ArriveHeartbeat(h) \/ ArriveServers(h)

(* The process dies: its threads and counters go with it, and with the     *)
(* in-memory backend so does all that clients were promised.               *)
DropRequests ==
  /\ pc' = [h \in Handlers |-> "idle"]
  /\ req' = [h \in Handlers |-> NoRequest]
  /\ stamp' = [h \in Handlers |-> 0]
  /\ result' = [h \in Handlers |-> "none"]
  /\ token' = [h \in Handlers |-> None]
  /\ listing' = [h \in Handlers |-> <<>>]
  /\ created' = 0 /\ loginsOk' = 0 /\ gauge' = 0
  /\ floor' = [h \in Handlers |-> 0]
  /\ IF Durable
     THEN UNCHANGED <<acked, granted, stale, beats>>
     ELSE /\ acked' = {} /\ granted' = {} /\ stale' = Known
          /\ beats' = [s \in ServerIds |-> None]
=============================================================================
