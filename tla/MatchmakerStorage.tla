-------------------------- MODULE MatchmakerStorage --------------------------
(***************************************************************************)
(* The Storage protocol of matchmaker_storage.py and its two backends.     *)
(*                                                                         *)
(* Every method of InMemoryStorage and SqliteStorage runs under the        *)
(* instance's RLock, so within one matchmaker process a method is one      *)
(* atomic step.  The methods are therefore operators on the three tables,  *)
(* and the modules that extend this one decide when they are called.       *)
(*                                                                         *)
(* A table is a total function with None for an absent key.  Of a server's *)
(* row only what the handlers compute with is kept: the player count (the  *)
(* listing's sort key, and the field whose int() conversion may fail) and  *)
(* the time of the last heartbeat.                                         *)
(***************************************************************************)
EXTENDS Integers, FiniteSets, Sequences

CONSTANTS
  Backend,       (* "memory" (InMemoryStorage) or "sqlite" (SqliteStorage) *)
  Usernames,     (* names of at least three characters                     *)
  Passwords,     (* the SHA-256 digests of passwords                       *)
  Tokens,        (* what secrets.token_urlsafe may return                  *)
  ServerIds,     (* game server identifiers                                *)
  PlayerCounts,  (* the "players" values that are numbers                  *)
  Malformed,     (* a "players" value that int() rejects                   *)
  SERVER_TTL_SEC,             (* listing window                            *)
  MAINTENANCE_PURGE_TTL_SEC,  (* hard-delete window of the maintenance loop *)
  MaxTime,       (* bound of the model: the clock stops there              *)
  None           (* Python's None; an absent key                           *)

Row == [players : PlayerCounts \union {Malformed}, last_heartbeat : Nat]

ASSUME StorageAssumption ==
  /\ Backend \in {"memory", "sqlite"}
  /\ PlayerCounts \subseteq Nat
  /\ Malformed \notin PlayerCounts
  /\ IsFiniteSet(Usernames) /\ IsFiniteSet(Tokens) /\ IsFiniteSet(ServerIds)
  /\ SERVER_TTL_SEC \in Nat /\ MAINTENANCE_PURGE_TTL_SEC \in Nat
  /\ SERVER_TTL_SEC < MAINTENANCE_PURGE_TTL_SEC
  /\ MaxTime \in Nat
  /\ None \notin Usernames \union Passwords \union Tokens \union ServerIds
  /\ None \notin Row

VARIABLES
  users,    (* username -> password digest *)
  tokens,   (* token -> username           *)
  servers,  (* server id -> row            *)
  clock     (* time.time()                 *)

storageVars == <<users, tokens, servers>>

StorageTypeOK ==
  /\ users \in [Usernames -> Passwords \union {None}]
  /\ tokens \in [Tokens -> Usernames \union {None}]
  /\ servers \in [ServerIds -> Row \union {None}]
  /\ clock \in Nat

StorageInit ==
  /\ users = [u \in Usernames |-> None]
  /\ tokens = [t \in Tokens |-> None]
  /\ servers = [s \in ServerIds |-> None]
  /\ clock = 0

Durable == Backend = "sqlite"

-----------------------------------------------------------------------------
(* The key lookups: None in, None out, as dict.get and an empty SELECT do. *)

get_user(u) == IF u = None THEN None ELSE users[u]

get_token_username(t) == IF t = None THEN None ELSE tokens[t]

(* add_user returns False, and writes nothing, for a name that exists.     *)
UserExists(u) == users[u] # None

(* Mutant: INSERT OR REPLACE, and no look at what is there.                *)
add_user_replacing(u, pw) ==
  /\ users' = [users EXCEPT ![u] = pw]
  /\ UNCHANGED <<tokens, servers>>

add_user(u, pw) ==
  /\ ~UserExists(u)
  /\ users' = [users EXCEPT ![u] = pw]
  /\ UNCHANGED <<tokens, servers>>

(* Mutant: the two columns of the INSERT confused.                         *)
add_token_confused(t, u) ==
  /\ tokens' = [tokens EXCEPT ![t] = t]
  /\ UNCHANGED <<users, servers>>

add_token(t, u) ==
  /\ tokens' = [tokens EXCEPT ![t] = u]
  /\ UNCHANGED <<users, servers>>

(* SqliteStorage converts the numbers before it stores the row, and raises *)
(* on one it cannot convert; InMemoryStorage stores what it is given.      *)
(* Mutant (UpsertRaises_never): the row is stored as it came.              *)
UpsertRaises_never(players) == FALSE

UpsertRaises(players) == Durable /\ players = Malformed

(* Mutant: INSERT OR IGNORE, so a row that exists is not refreshed.        *)
upsert_server_ignoring(s, players, now) ==
  /\ ~UpsertRaises(players)
  /\ servers' = IF servers[s] # None THEN servers
                ELSE [servers EXCEPT
                        ![s] = [players |-> players, last_heartbeat |-> now]]
  /\ UNCHANGED <<users, tokens>>

upsert_server(s, players, now) ==
  /\ ~UpsertRaises(players)
  /\ servers' = [servers EXCEPT
                   ![s] = [players |-> players, last_heartbeat |-> now]]
  /\ UNCHANGED <<users, tokens>>

(* The listing window: now - last_heartbeat < ttl in memory, and           *)
(* last_heartbeat >= now - ttl in SQL, which also lists a row exactly ttl  *)
(* old.                                                                    *)
IsLive(row, now, ttl) ==
  IF Durable THEN row.last_heartbeat >= now - ttl
             ELSE now - row.last_heartbeat < ttl

LiveIds(now, ttl) ==
  {s \in ServerIds : servers[s] # None /\ IsLive(servers[s], now, ttl)}

(* InMemoryStorage converts the numbers of the live rows when it lists     *)
(* them, so one malformed live row fails the whole listing.                *)
ListingRaises(now, ttl) ==
  \E s \in LiveIds(now, ttl) : servers[s].players = Malformed

ListedRow == [id : ServerIds, players : PlayerCounts, last_heartbeat : Nat]

list_live_servers(now, ttl) ==
  {[id |-> s, players |-> servers[s].players,
    last_heartbeat |-> servers[s].last_heartbeat] : s \in LiveIds(now, ttl)}

(* Both backends purge exactly the rows outside their own window.          *)
purge_stale_servers(now, ttl) ==
  /\ servers' = [s \in ServerIds |->
                   IF s \in LiveIds(now, ttl) THEN servers[s] ELSE None]
  /\ UNCHANGED <<users, tokens>>

(* What a process that starts finds: the database file, or nothing.        *)
reopen ==
  IF Durable
  THEN UNCHANGED storageVars
  ELSE /\ users' = [u \in Usernames |-> None]
       /\ tokens' = [t \in Tokens |-> None]
       /\ servers' = [s \in ServerIds |-> None]
=============================================================================
