--------------------------- MODULE AccountService ----------------------------
(***************************************************************************)
(* What the matchmaker promises about accounts and sessions, as one object *)
(* whose operations take effect atomically between a call and its return:  *)
(* a name is given away once, a session is granted only for the account's  *)
(* password, and a heartbeat is taken only from a session that exists.     *)
(***************************************************************************)
CONSTANTS
  Usernames, Passwords, Tokens, ServerIds, Payloads,
  Callers,    (* those who may have one call outstanding                   *)
  Refused,    (* payloads the service may refuse                           *)
  Volatile,   (* does a crash lose accounts and sessions?                  *)
  None

VARIABLES
  accounts,   (* username -> password                                      *)
  sessions,   (* token -> username                                         *)
  call        (* caller -> <<arguments, "pending" or the result>>, or Idle *)

vars == <<accounts, sessions, call>>

Calls ==
  [op : {"register"}, username : Usernames \union {None}, password : Passwords]
  \union [op : {"login"}, username : Usernames, password : Passwords]
  \union [op : {"heartbeat"}, token : Tokens \union {None},
          server_id : ServerIds \union {None}, payload : Payloads]

Idle == <<None, "idle">>

Init ==
  /\ accounts = [u \in Usernames |-> None]
  /\ sessions = [t \in Tokens |-> None]
  /\ call = [c \in Callers |-> Idle]

Invoke(c) ==
  /\ call[c] = Idle
  /\ \E args \in Calls : call' = [call EXCEPT ![c] = <<args, "pending">>]
  /\ UNCHANGED <<accounts, sessions>>

Pending(c, op) == call[c][2] = "pending" /\ call[c][1].op = op

Result(c, r) == call' = [call EXCEPT ![c] = <<call[c][1], r>>]

Register(c) ==
  LET u == call[c][1].username IN
  /\ Pending(c, "register")
  /\ \/ u = None /\ Result(c, "invalid") /\ UNCHANGED accounts
     \/ /\ u # None /\ accounts[u] # None
        /\ Result(c, "duplicate") /\ UNCHANGED accounts
     \/ /\ u # None /\ accounts[u] = None
        /\ accounts' = [accounts EXCEPT ![u] = call[c][1].password]
        /\ Result(c, "created")
  /\ UNCHANGED sessions

Login(c) ==
  LET u == call[c][1].username IN
  /\ Pending(c, "login")
  /\ \/ accounts[u] = None /\ Result(c, "unknown_user") /\ UNCHANGED sessions
     \/ /\ accounts[u] # None /\ accounts[u] # call[c][1].password
        /\ Result(c, "bad_pw") /\ UNCHANGED sessions
     \/ /\ accounts[u] = call[c][1].password
        /\ \E t \in Tokens :
             /\ sessions[t] = None
             /\ sessions' = [sessions EXCEPT ![t] = u]
        /\ Result(c, "granted")
  /\ UNCHANGED accounts

Heartbeat(c) ==
  LET t == call[c][1].token
      open == t # None /\ sessions[t] # None IN
  /\ Pending(c, "heartbeat")
  /\ \/ ~open /\ Result(c, "invalid_token")
     \/ open /\ call[c][1].server_id = None /\ Result(c, "server_id_required")
     \/ /\ open /\ call[c][1].server_id # None
        /\ \/ call[c][1].payload \notin Refused /\ Result(c, "beat")
           \/ call[c][1].payload \in Refused /\ Result(c, "error")
  /\ UNCHANGED <<accounts, sessions>>

Return(c) ==
  /\ call[c][2] \notin {"idle", "pending"}
  /\ call' = [call EXCEPT ![c] = Idle]
  /\ UNCHANGED <<accounts, sessions>>

(* A crash drops every outstanding call, whether or not it took effect.    *)
Crash ==
  /\ call' = [c \in Callers |-> Idle]
  /\ IF Volatile
     THEN /\ accounts' = [u \in Usernames |-> None]
          /\ sessions' = [t \in Tokens |-> None]
     ELSE UNCHANGED <<accounts, sessions>>

Next ==
  \/ \E c \in Callers :
       Invoke(c) \/ Register(c) \/ Login(c) \/ Heartbeat(c) \/ Return(c)
  \/ Crash

Spec == Init /\ [][Next]_vars
=============================================================================
