----------------------------- MODULE SavedStore ------------------------------
(***************************************************************************)
(* launcher_core.SavedDB: the launcher's file of saved servers, on a POSIX *)
(* file system.  A change reads the whole file, changes its copy, writes   *)
(* the copy to a temporary file and renames that.  The launcher may die    *)
(* between any two steps.  The temporary file's name is fixed, so several  *)
(* launchers of one user share it.                                         *)
(*                                                                         *)
(* A file is its text, JSON or not (no file at all, just truncated,        *)
(* overwritten in part), and the map _read makes of it, empty where the    *)
(* text is no JSON.                                                        *)
(***************************************************************************)
EXTENDS Integers

CONSTANTS
  Launchers,   (* launcher processes of one user                           *)
  Aliases, Ids,
  MaxCrashes,  (* bound of the model: launchers that die                   *)
  None         (* no id, no change                                         *)

Map == [Aliases -> Ids \union {None}]
Change == [alias : Aliases, id : Ids \union {None}]
File == [text : {"json", "missing", "truncated", "garbled"}, map : Map]

EmptyMap == [a \in Aliases |-> None]
Holding(m) == [text |-> "json", map |-> m]
NoJson(text) == [text |-> text, map |-> EmptyMap]

ASSUME SavedStoreAssumption ==
  /\ MaxCrashes \in Nat
  /\ None \notin Ids /\ None \notin Change

VARIABLES
  file,      (* saved.json                                                 *)
  tmp,       (* saved.json.tmp                                             *)
  pc,        (* launcher -> its next step                                  *)
  change,    (* launcher -> the change it makes, None in the constructor   *)
  data,      (* launcher -> its copy of the map                            *)
  fd,        (* launcher -> the file its open descriptor is of             *)
  outcome,   (* launcher -> what the status bar will say                   *)
  crashes,
  overlapping  (* does the user ever let two launchers write at once?      *)

(* For each launcher, has it been the only one writing since its present   *)
(* change began?  No part of the program.                                  *)
VARIABLE alone

vars == <<file, tmp, pc, change, data, fd, outcome, crashes, overlapping,
          alone>>

TypeOK ==
  /\ \A f \in {file, tmp} :
       f \in File /\ (f.text # "json" => f.map = EmptyMap)
  /\ pc \in [Launchers -> {"off", "idle", "ask", "open", "write", "replace",
                           "reply"}]
  /\ change \in [Launchers -> Change \union {None}]
  /\ data \in [Launchers -> Map]
  /\ fd \in [Launchers -> {"none", "file", "tmp", "unlinked"}]
  /\ outcome \in [Launchers -> {"pending", "done", "unknown"}]
  /\ crashes \in Nat
  /\ overlapping \in BOOLEAN
  /\ alone \in [Launchers -> BOOLEAN]

(* A new user has no file; a test starts from one that is no JSON.         *)
Init ==
  /\ file \in {NoJson("missing"), NoJson("garbled")}
  /\ tmp = NoJson("missing")
  /\ pc = [p \in Launchers |-> "off"]
  /\ change = [p \in Launchers |-> None]
  /\ data = [p \in Launchers |-> EmptyMap]
  /\ fd = [p \in Launchers |-> "none"]
  /\ outcome = [p \in Launchers |-> "pending"]
  /\ crashes = 0
  /\ overlapping \in BOOLEAN
  /\ alone = [p \in Launchers |-> FALSE]

Goto(p, step) == pc' = [pc EXCEPT ![p] = step]

Read == file.map

Busy(p) == pc[p] \in {"open", "write", "replace"}

Others(p) == Launchers \ {p}

(* A read that a write follows.                                            *)
Begin(p) ==
  /\ overlapping \/ \A q \in Others(p) : ~Busy(q)
  /\ alone' = [q \in Launchers |-> q = p /\ \A r \in Others(p) : ~Busy(r)]

-----------------------------------------------------------------------------
(* __init__ writes an empty map where there is no file.                    *)
Start(p) ==
  /\ pc[p] = "off"
  /\ \/ file.text = "missing" /\ Begin(p) /\ Goto(p, "open")
     \/ file.text # "missing" /\ Goto(p, "idle") /\ UNCHANGED alone
  /\ data' = [data EXCEPT ![p] = EmptyMap]
  /\ UNCHANGED <<file, tmp, change, fd, outcome, crashes, overlapping>>

(* save_server reads the map and adds to it.                               *)
SaveServer(p) ==
  /\ pc[p] = "idle"
  /\ Begin(p)
  /\ \E a \in Aliases, i \in Ids :
       /\ change' = [change EXCEPT ![p] = [alias |-> a, id |-> i]]
       /\ data' = [data EXCEPT ![p] = [Read EXCEPT ![a] = i]]
  /\ outcome' = [outcome EXCEPT ![p] = "done"]
  /\ Goto(p, "open")
  /\ UNCHANGED <<file, tmp, fd, crashes, overlapping>>

(* _forget_alias asks which, if there is any; the user may cancel.         *)
AskAlias(p) ==
  /\ \/ pc[p] = "idle" /\ Read # EmptyMap /\ Goto(p, "ask")
     \/ pc[p] = "ask" /\ Goto(p, "idle")
  /\ UNCHANGED <<file, tmp, change, data, fd, outcome, crashes, overlapping,
                 alone>>

(* Mutant: the map is changed, and not written.                            *)
RemoveServer_unwritten(p) ==
  /\ pc[p] = "ask"
  /\ Begin(p)
  /\ \E a \in Aliases :
       /\ change' = [change EXCEPT ![p] = [alias |-> a, id |-> None]]
       /\ data' = [data EXCEPT ![p] = [Read EXCEPT ![a] = None]]
       /\ outcome' = [outcome EXCEPT ![p] =
                        IF Read[a] = None THEN "unknown" ELSE "done"]
  /\ Goto(p, "reply")
  /\ UNCHANGED <<file, tmp, fd, crashes, overlapping>>

(* remove_server reads the map again, and writes it only if it changed.    *)
RemoveServer(p) ==
  /\ pc[p] = "ask"
  /\ Begin(p)
  /\ \E a \in Aliases :
       /\ change' = [change EXCEPT ![p] = [alias |-> a, id |-> None]]
       /\ data' = [data EXCEPT ![p] = [Read EXCEPT ![a] = None]]
       /\ outcome' = [outcome EXCEPT ![p] =
                        IF Read[a] = None THEN "unknown" ELSE "done"]
       /\ Goto(p, IF Read[a] = None THEN "reply" ELSE "open")
  /\ UNCHANGED <<file, tmp, fd, crashes, overlapping>>

-----------------------------------------------------------------------------
(* _write: tmp.write_text opens and truncates, writes and closes; replace  *)
(* renames.                                                                *)

(* Mutant: a temporary file a crash has left is not truncated.             *)
OpenTemp_appending(p) ==
  /\ pc[p] = "open"
  /\ tmp' = IF tmp.text = "missing" THEN NoJson("truncated") ELSE tmp
  /\ fd' = [fd EXCEPT ![p] = "tmp"]
  /\ Goto(p, "write")
  /\ UNCHANGED <<file, change, data, outcome, crashes, overlapping, alone>>

(* Mutant: the file itself is opened.                                      *)
OpenTemp_direct(p) ==
  /\ pc[p] = "open"
  /\ file' = NoJson("truncated")
  /\ fd' = [fd EXCEPT ![p] = "file"]
  /\ Goto(p, "write")
  /\ UNCHANGED <<tmp, change, data, outcome, crashes, overlapping, alone>>

OpenTemp(p) ==
  /\ pc[p] = "open"
  /\ tmp' = NoJson("truncated")
  /\ fd' = [fd EXCEPT ![p] = "tmp"]
  /\ Goto(p, "write")
  /\ UNCHANGED <<file, change, data, outcome, crashes, overlapping, alone>>

(* A write starts at the file's beginning, whatever is there: of a longer  *)
(* text the end remains.                                                   *)
(* Mutant: what remains is taken for the new map.                          *)
Written_lenient(f, m) ==
  {Holding(m)} \union
    (IF f \in {NoJson("truncated"), Holding(m)} THEN {}
     ELSE {[text |-> "garbled", map |-> m]})

Written(f, m) ==
  {Holding(m)} \union
    (IF f \in {NoJson("truncated"), Holding(m)} THEN {}
     ELSE {NoJson("garbled")})

WriteData(p) ==
  /\ pc[p] = "write"
  /\ \/ fd[p] = "tmp" /\ tmp' \in Written(tmp, data[p]) /\ UNCHANGED file
     \/ fd[p] = "file" /\ file' \in Written(file, data[p]) /\ UNCHANGED tmp
     \/ fd[p] = "unlinked" /\ UNCHANGED <<file, tmp>>
  /\ fd' = [fd EXCEPT ![p] = "none"]
  /\ Goto(p, "replace")
  /\ UNCHANGED <<change, data, outcome, crashes, overlapping, alone>>

(* A descriptor stays with its file when the file is renamed or replaced.  *)
Renamed(f) ==
  CASE f = "tmp"  -> "file"
    [] f = "file" -> "unlinked"
    [] OTHER      -> f

Replace(p) ==
  /\ pc[p] = "replace"
  /\ tmp.text # "missing"
  /\ file' = tmp
  /\ tmp' = NoJson("missing")
  /\ fd' = [q \in Launchers |-> Renamed(fd[q])]
  /\ Goto(p, IF change[p] = None THEN "idle" ELSE "reply")
  /\ UNCHANGED <<change, data, outcome, crashes, overlapping, alone>>

(* Another launcher has renamed the temporary file: replace raises.  Tk    *)
(* reports what a callback raises; what the constructor raises ends the    *)
(* launcher.                                                               *)
ReplaceRaises(p) ==
  /\ pc[p] = "replace"
  /\ tmp.text = "missing"
  /\ Goto(p, IF change[p] = None THEN "off" ELSE "idle")
  /\ change' = [change EXCEPT ![p] = None]
  /\ outcome' = [outcome EXCEPT ![p] = "pending"]
  /\ UNCHANGED <<file, tmp, data, fd, crashes, overlapping, alone>>

(* The status bar says what was done.                                      *)
Reply(p) ==
  /\ pc[p] = "reply"
  /\ Goto(p, "idle")
  /\ change' = [change EXCEPT ![p] = None]
  /\ outcome' = [outcome EXCEPT ![p] = "pending"]
  /\ UNCHANGED <<file, tmp, data, fd, crashes, overlapping, alone>>

Crash(p) ==
  /\ pc[p] # "off"
  /\ crashes < MaxCrashes
  /\ crashes' = crashes + 1
  /\ Goto(p, "off")
  /\ change' = [change EXCEPT ![p] = None]
  /\ outcome' = [outcome EXCEPT ![p] = "pending"]
  /\ fd' = [fd EXCEPT ![p] = "none"]
  /\ UNCHANGED <<file, tmp, data, overlapping, alone>>

Next ==
  \E p \in Launchers :
    \/ Start(p)
    \/ SaveServer(p) \/ AskAlias(p) \/ RemoveServer(p)
    \/ OpenTemp(p) \/ WriteData(p) \/ Replace(p) \/ ReplaceRaises(p)
    \/ Reply(p)
    \/ Crash(p)

Spec == Init /\ [][Next]_vars

-----------------------------------------------------------------------------
(* "Atomic writes via tempfile + replace": once the file holds a map, it   *)
(* holds one after every step, so neither a crash nor a reader finds half  *)
(* of it.                                                                  *)
AtomicWrites == [][file.text = "json" => file'.text = "json"]_vars

(* That is so where no two launchers write at once, whoever dies.          *)
NeverTorn ==
  [][~overlapping /\ file.text = "json" => file'.text = "json"]_vars

(* A change made while no other launcher makes one is in the file when the *)
(* status bar says so, whatever earlier races and crashes have left there  *)
(* and in the temporary file.                                              *)
LoneChangesKept ==
  \A p \in Launchers :
    pc[p] = "reply" /\ alone[p] => Read[change[p].alias] = change[p].id

(* Where no two launchers write at once, the file behaves like a map each  *)
(* change of which happens at one moment, crashes and a file that is no    *)
(* JSON included.                                                          *)
Progress(p) ==
  IF change[p] = None \/ overlapping THEN <<None, "idle">>
  ELSE <<change[p], IF pc[p] = "reply" THEN outcome[p] ELSE "pending">>

Promised == INSTANCE SavedMap WITH
  saved <- IF overlapping THEN EmptyMap ELSE Read,
  call <- [p \in Launchers |-> Progress(p)]

ImplementsSavedMap == Promised!Spec
=============================================================================
