------------------------------ MODULE SavedMap -------------------------------
(***************************************************************************)
(* What launcher_core.SavedDB promises: a map from aliases to server ids   *)
(* in which every change takes effect at one moment, between its call and  *)
(* its return, or not at all when the launcher dies.                       *)
(***************************************************************************)
CONSTANTS
  Launchers,   (* processes that use the map                               *)
  Aliases, Ids,
  None         (* no id: the alias is unknown, the change removes it       *)

Change == [alias : Aliases, id : Ids \union {None}]

VARIABLES
  saved,       (* alias -> id                                              *)
  call         (* launcher -> <<its change or None, how far it is>>        *)

vars == <<saved, call>>

Idle == <<None, "idle">>

Init ==
  /\ saved = [a \in Aliases |-> None]
  /\ call = [p \in Launchers |-> Idle]

Invoke(p) ==
  /\ call[p] = Idle
  /\ \E c \in Change : call' = [call EXCEPT ![p] = <<c, "pending">>]
  /\ UNCHANGED saved

(* A removal of an alias that is not there is refused on the spot.         *)
Refuse(p) ==
  /\ call[p] = Idle
  /\ \E c \in Change :
       /\ c.id = None /\ saved[c.alias] = None
       /\ call' = [call EXCEPT ![p] = <<c, "unknown">>]
  /\ UNCHANGED saved

Commit(p) ==
  \E c \in Change :
    /\ call[p] = <<c, "pending">>
    /\ c.id = None => saved[c.alias] # None
    /\ saved' = [saved EXCEPT ![c.alias] = c.id]
    /\ call' = [call EXCEPT ![p] = <<c, "done">>]

Return(p) ==
  /\ call[p][2] \in {"done", "unknown"}
  /\ call' = [call EXCEPT ![p] = Idle]
  /\ UNCHANGED saved

Die(p) ==
  /\ call' = [call EXCEPT ![p] = Idle]
  /\ UNCHANGED saved

Next ==
  \E p \in Launchers :
    Invoke(p) \/ Refuse(p) \/ Commit(p) \/ Return(p) \/ Die(p)

Spec == Init /\ [][Next]_vars
=============================================================================
