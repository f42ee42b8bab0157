---------------------------- MODULE MCMatchmaker -----------------------------
(* Small instances of Matchmaker; the constants' values are in the .cfg    *)
(* files.                                                                  *)
EXTENDS Matchmaker, TLC

(* Threads, tokens, names and digests are interchangeable.                 *)
Symmetry ==
  Permutations(Handlers) \union Permutations(Tokens)
    \union Permutations(Usernames) \union Permutations(Passwords)

HandlerSymmetry == Permutations(Handlers)

(* The state a first registration and login lead to: the runs about the    *)
(* server table start here, so that they need not repeat them.             *)
InitWithSession ==
  LET u == CHOOSE u \in Usernames : TRUE
      p == CHOOSE p \in Passwords : TRUE
      t == CHOOSE t \in Tokens : TRUE
  IN /\ users = [v \in Usernames |-> IF v = u THEN p ELSE None]
     /\ tokens = [v \in Tokens |-> IF v = t THEN u ELSE None]
     /\ servers = [s \in ServerIds |-> None]
     /\ clock = 0
     /\ pc = [h \in Handlers |-> "idle"]
     /\ req = [h \in Handlers |-> NoRequest]
     /\ stamp = [h \in Handlers |-> 0]
     /\ result = [h \in Handlers |-> "none"]
     /\ token = [h \in Handlers |-> None]
     /\ listing = [h \in Handlers |-> <<>>]
     /\ created = 1 /\ loginsOk = 1 /\ gauge = 0
     /\ acked = {<<u, p>>}
     /\ granted = {[token |-> t, username |-> u, password |-> p]}
     /\ stale = {}
     /\ floor = [h \in Handlers |-> 0]
     /\ beats = [s \in ServerIds |-> None]
     /\ MaintenanceInit
     /\ up = TRUE /\ crashes = 0
     /\ inherited = [users |-> 0, tokens |-> 0]

SessionSpec == InitWithSession /\ [][Next]_vars

FairSessionSpec == SessionSpec /\ Fairness
=============================================================================
