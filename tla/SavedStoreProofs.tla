-------------------------- MODULE SavedStoreProofs ---------------------------
(* Proofs about SavedStore, for any number of launchers, aliases and       *)
(* deaths.                                                                 *)
EXTENDS SavedStore, TLAPS

-----------------------------------------------------------------------------
(* Types.                                                                  *)

LEMMA MapsAreMaps ==
  /\ EmptyMap \in Map
  /\ \A m \in Map, a \in Aliases, i \in Ids \union {None} :
       [m EXCEPT ![a] = i] \in Map
BY DEF EmptyMap, Map

LEMMA InitTypes == Init => TypeOK
BY MapsAreMaps, SavedStoreAssumption
   DEF Init, TypeOK, File, NoJson

LEMMA NextTypes == TypeOK /\ [Next]_vars => TypeOK'
<1> SUFFICES ASSUME TypeOK, [Next]_vars
             PROVE  TypeOK'
  OBVIOUS
<1> USE MapsAreMaps DEF TypeOK, File, NoJson
<1>1. Read \in Map
  BY DEF Read
<1>2. ASSUME NEW p \in Launchers, Start(p)
      PROVE  TypeOK'
  BY <1>2 DEF Start, Begin, Goto
<1>3. ASSUME NEW p \in Launchers, SaveServer(p)
      PROVE  TypeOK'
  <2>1. PICK a \in Aliases, i \in Ids :
          /\ change' = [change EXCEPT ![p] = [alias |-> a, id |-> i]]
          /\ data' = [data EXCEPT ![p] = [Read EXCEPT ![a] = i]]
    BY <1>3 DEF SaveServer
  <2>2. [alias |-> a, id |-> i] \in Change /\ [Read EXCEPT ![a] = i] \in Map
    BY <1>1 DEF Change
  <2>3. /\ change' \in [Launchers -> Change \union {None}]
        /\ data' \in [Launchers -> Map]
    BY <2>1, <2>2
  <2> QED BY <1>3, <2>3 DEF SaveServer, Begin, Goto
<1>4. ASSUME NEW p \in Launchers, AskAlias(p)
      PROVE  TypeOK'
  BY <1>4 DEF AskAlias, Goto
<1>5. ASSUME NEW p \in Launchers, RemoveServer(p)
      PROVE  TypeOK'
  <2>1. PICK a \in Aliases :
          /\ change' = [change EXCEPT ![p] = [alias |-> a, id |-> None]]
          /\ data' = [data EXCEPT ![p] = [Read EXCEPT ![a] = None]]
          /\ outcome' = [outcome EXCEPT ![p] =
                           IF Read[a] = None THEN "unknown" ELSE "done"]
          /\ Goto(p, IF Read[a] = None THEN "reply" ELSE "open")
    BY <1>5 DEF RemoveServer
  <2>2. [alias |-> a, id |-> None] \in Change
        /\ [Read EXCEPT ![a] = None] \in Map
    BY <1>1 DEF Change
  <2>3. /\ change' \in [Launchers -> Change \union {None}]
        /\ data' \in [Launchers -> Map]
    BY <2>1, <2>2
  <2> QED BY <1>5, <2>1, <2>3 DEF RemoveServer, Begin, Goto
<1>6. ASSUME NEW p \in Launchers, OpenTemp(p)
      PROVE  TypeOK'
  BY <1>6 DEF OpenTemp, Goto
<1>7. ASSUME NEW p \in Launchers, WriteData(p)
      PROVE  TypeOK'
  <2>1. \A f : \A g \in Written(f, data[p]) :
          g \in File /\ (g.text # "json" => g.map = EmptyMap)
    BY DEF Written, Holding
  <2> QED BY <1>7, <2>1 DEF WriteData, Goto
<1>8. ASSUME NEW p \in Launchers, Replace(p)
      PROVE  TypeOK'
  BY <1>8 DEF Replace, Renamed, Goto
<1>9. ASSUME NEW p \in Launchers, ReplaceRaises(p) \/ Reply(p) \/ Crash(p)
      PROVE  TypeOK'
  BY <1>9 DEF ReplaceRaises, Reply, Crash, Goto
<1>10. CASE UNCHANGED vars
  BY <1>10 DEF vars
<1> QED BY <1>2, <1>3, <1>4, <1>5, <1>6, <1>7, <1>8, <1>9, <1>10 DEF Next

(* Every variable keeps its type, and what is no JSON is read as the empty *)
(* map (_read's except clause).                                            *)
THEOREM SavedStoreTypeCorrect == Spec => []TypeOK
<1> QED BY InitTypes, NextTypes, PTL DEF Spec

-----------------------------------------------------------------------------
(* A launcher that writes alone: its temporary file is its own at every    *)
(* step, and the map it read is still that of the file.                    *)
Reads(p) ==
  \/ /\ change[p] = None
     /\ data[p] = EmptyMap /\ Read = EmptyMap /\ file.text # "json"
  \/ /\ change[p] \in Change
     /\ data[p] = [Read EXCEPT ![change[p].alias] = change[p].id]
     /\ change[p].id = None => Read[change[p].alias] # None

WritesAlone(p) ==
  /\ \A q \in Others(p) : ~Busy(q)
  /\ Reads(p)
  /\ pc[p] = "write" => fd[p] = "tmp" /\ tmp = NoJson("truncated")
  /\ pc[p] = "replace" => tmp = Holding(data[p])

(* Its change is over and nobody has written since.                        *)
HasWritten(p) ==
  /\ \A q \in Others(p) : ~Busy(q)
  /\ Read[change[p].alias] = change[p].id

Shape(p) ==
  /\ pc[p] \in {"off", "idle", "ask"} => change[p] = None
  /\ pc[p] = "reply" => change[p] \in Change /\ outcome[p] # "pending"
  /\ Busy(p) /\ change[p] # None => outcome[p] = "done"
  /\ Busy(p) /\ alone[p] => WritesAlone(p)
  /\ pc[p] = "reply" /\ alone[p] => HasWritten(p)
  /\ Busy(p) /\ ~overlapping => alone[p]

StoreInv == TypeOK /\ \A p \in Launchers : Shape(p)

Begins(p) == (Start(p) /\ file.text = "missing") \/ SaveServer(p) \/ RemoveServer(p)
Writes(p) == OpenTemp(p) \/ WriteData(p) \/ Replace(p) \/ ReplaceRaises(p)
Rests(p) == (Start(p) /\ file.text # "missing") \/ AskAlias(p) \/ Reply(p)
            \/ Crash(p)

(* What p's steps do to the launchers that are not p.                      *)
LEMMA OthersUntouched ==
  ASSUME TypeOK, NEW p \in Launchers, Begins(p) \/ Writes(p) \/ Rests(p)
  PROVE  /\ \A q \in Others(p) :
              /\ pc'[q] = pc[q] /\ change'[q] = change[q]
              /\ data'[q] = data[q] /\ outcome'[q] = outcome[q]
         /\ overlapping' = overlapping
         /\ Begins(p) => \A q \in Others(p) : alone'[q] = FALSE
         /\ Writes(p) \/ Rests(p) => alone' = alone
         /\ Begins(p) \/ Rests(p) =>
              /\ UNCHANGED <<file, tmp>>
              /\ \A q \in Others(p) : fd'[q] = fd[q]
         /\ Writes(p) => Busy(p)
         /\ Rests(p) => ~Busy(p)'
         /\ Begins(p) => (overlapping \/ \A q \in Others(p) : ~Busy(q))
<1> USE DEF Others, Goto, TypeOK
<1>1. CASE Begins(p)
  BY <1>1 DEF Begins, Start, SaveServer, RemoveServer, Begin, Writes, Rests,
              Busy, OpenTemp, WriteData, Replace, ReplaceRaises, AskAlias,
              Reply, Crash
<1>2. CASE Writes(p)
  BY <1>2 DEF Begins, Start, SaveServer, RemoveServer, Begin, Writes, Rests,
              Busy, OpenTemp, WriteData, Replace, ReplaceRaises, AskAlias,
              Reply, Crash
<1>3. CASE Rests(p)
  BY <1>3 DEF Begins, Start, SaveServer, RemoveServer, Begin, Writes, Rests,
              Busy, OpenTemp, WriteData, Replace, ReplaceRaises, AskAlias,
              Reply, Crash
<1> QED BY <1>1, <1>2, <1>3

(* A launcher's invariant survives the steps of the others: one that       *)
(* begins takes the others' alone, one that writes finds no other alone.   *)
LEMMA OthersKeepShape ==
  ASSUME StoreInv, NEW p \in Launchers,
         Begins(p) \/ Writes(p) \/ Rests(p),
         NEW q \in Others(p)
  PROVE  Shape(q)'
<1> USE DEF StoreInv
<1>0. q \in Launchers /\ p \in Others(q) /\ p # q
  BY DEF Others
<1>1. /\ pc'[q] = pc[q] /\ change'[q] = change[q]
      /\ data'[q] = data[q] /\ outcome'[q] = outcome[q]
      /\ overlapping' = overlapping
      /\ Busy(q)' = Busy(q)
  BY OthersUntouched DEF Busy
<1>2. CASE Begins(p)
  <2>1. alone'[q] = FALSE /\ (overlapping \/ ~Busy(q))
    BY <1>2, OthersUntouched
  <2> QED BY <1>0, <1>1, <2>1 DEF Shape
<1>3. CASE Writes(p)
  <2>1. Busy(p) /\ alone' = alone
    BY <1>3, OthersUntouched
  <2>2. ~(Busy(q) /\ alone[q]) /\ ~(pc[q] = "reply" /\ alone[q])
    BY <1>0, <2>1 DEF Shape, WritesAlone, HasWritten
  <2> QED BY <1>0, <1>1, <2>1, <2>2 DEF Shape
<1>4. CASE Rests(p)
  <2>1. alone' = alone /\ UNCHANGED <<file, tmp>> /\ fd'[q] = fd[q]
        /\ ~Busy(p)'
    BY <1>4, OthersUntouched
  <2>2. \A r \in Others(q) : ~Busy(r) => ~Busy(r)'
    BY <2>1, OthersUntouched DEF Busy, Others
  <2>3. WritesAlone(q) => WritesAlone(q)'
    BY <1>1, <2>1, <2>2 DEF WritesAlone, Reads, Read
  <2>4. HasWritten(q) => HasWritten(q)'
    BY <1>1, <2>1, <2>2 DEF HasWritten, Read
  <2> QED BY <1>0, <1>1, <2>1, <2>3, <2>4 DEF Shape
<1> QED BY <1>2, <1>3, <1>4

(* A launcher's own steps keep its invariant.                              *)
LEMMA BeginKeepsShape ==
  ASSUME StoreInv, NEW p \in Launchers, Begins(p)
  PROVE  Shape(p)'
<1> USE DEF StoreInv
<1>1. /\ UNCHANGED <<file, tmp, overlapping>>
      /\ \A q \in Others(p) : Busy(q)' = Busy(q)
  BY OthersUntouched DEF Busy
<1>2. alone'[p] = (\A q \in Others(p) : ~Busy(q))
      /\ (overlapping \/ \A q \in Others(p) : ~Busy(q))
  BY DEF Begins, Start, SaveServer, RemoveServer, Begin
<1>3. CASE Start(p) /\ file.text = "missing"
  <2>1. pc'[p] = "open" /\ data'[p] = EmptyMap /\ change'[p] = None
    BY <1>3 DEF Start, Goto, Shape, TypeOK
  <2>2. Read = EmptyMap /\ file.text # "json"
    BY <1>3 DEF TypeOK, Read
  <2> QED BY <1>1, <1>2, <2>1, <2>2
          DEF Shape, Busy, WritesAlone, Reads, Read
<1>4. CASE SaveServer(p)
  <2>1. PICK a \in Aliases, i \in Ids :
          /\ change'[p] = [alias |-> a, id |-> i]
          /\ data'[p] = [Read EXCEPT ![a] = i]
    BY <1>4 DEF SaveServer, TypeOK
  <2>2. pc'[p] = "open" /\ outcome'[p] = "done"
    BY <1>4 DEF SaveServer, Goto, TypeOK
  <2>3. change'[p] \in Change /\ i # None
    BY <2>1, SavedStoreAssumption DEF Change
  <2>4. Reads(p)'
    BY <1>1, <2>1, <2>3 DEF Reads, Read
  <2> QED BY <1>1, <1>2, <2>2, <2>4 DEF Shape, Busy, WritesAlone
<1>5. CASE RemoveServer(p)
  <2>1. PICK a \in Aliases :
          /\ change'[p] = [alias |-> a, id |-> None]
          /\ data'[p] = [Read EXCEPT ![a] = None]
          /\ outcome'[p] = IF Read[a] = None THEN "unknown" ELSE "done"
          /\ pc'[p] = IF Read[a] = None THEN "reply" ELSE "open"
    BY <1>5 DEF RemoveServer, Goto, TypeOK
  <2>2. change'[p] \in Change
    BY <2>1 DEF Change
  <2>3. CASE Read[a] = None
    BY <1>1, <1>2, <2>1, <2>2, <2>3 DEF Shape, Busy, HasWritten, Read
  <2>4. CASE Read[a] # None
    <3>1. Reads(p)'
      BY <1>1, <2>1, <2>2, <2>4 DEF Reads, Read
    <3> QED BY <1>1, <1>2, <2>1, <2>4, <3>1 DEF Shape, Busy, WritesAlone
  <2> QED BY <2>3, <2>4
<1> QED BY <1>3, <1>4, <1>5 DEF Begins

LEMMA WriteKeepsShape ==
  ASSUME StoreInv, NEW p \in Launchers, Writes(p)
  PROVE  Shape(p)'
<1> USE DEF StoreInv
<1>1. /\ alone' = alone /\ overlapping' = overlapping /\ Busy(p)
      /\ \A q \in Others(p) : Busy(q)' = Busy(q)
  BY OthersUntouched DEF Busy
<1>2. CASE OpenTemp(p)
  <2>1. /\ pc[p] = "open" /\ pc'[p] = "write" /\ fd'[p] = "tmp"
        /\ tmp' = NoJson("truncated")
        /\ UNCHANGED <<file, change, data, outcome>>
    BY <1>2 DEF OpenTemp, Goto, TypeOK
  <2> QED BY <1>1, <2>1 DEF Shape, Busy, WritesAlone, Reads, Read
<1>3. CASE WriteData(p)
  <2>1. /\ pc[p] = "write" /\ pc'[p] = "replace"
        /\ UNCHANGED <<change, data, outcome>>
    BY <1>3 DEF WriteData, Goto, TypeOK
  <2>2. ASSUME alone[p]
        PROVE  file' = file /\ tmp' = Holding(data[p])
    <3>1. fd[p] = "tmp" /\ tmp = NoJson("truncated")
      BY <1>1, <2>1, <2>2 DEF Shape, WritesAlone
    <3> QED BY <1>3, <3>1 DEF WriteData, Written
  <2> QED BY <1>1, <2>1, <2>2 DEF Shape, Busy, WritesAlone, Reads, Read
<1>4. CASE Replace(p)
  <2>1. /\ pc[p] = "replace" /\ file' = tmp
        /\ pc'[p] = IF change[p] = None THEN "idle" ELSE "reply"
        /\ UNCHANGED <<change, data, outcome>>
    BY <1>4 DEF Replace, Goto, TypeOK
  <2>2. change[p] # None => change[p] \in Change /\ outcome[p] = "done"
    BY <1>1 DEF Shape, TypeOK
  <2>3. ASSUME alone[p], change[p] # None
        PROVE  Read'[change[p].alias] = change[p].id
    <3>1. /\ tmp = Holding(data[p])
          /\ data[p] = [Read EXCEPT ![change[p].alias] = change[p].id]
      BY <1>1, <2>1, <2>3 DEF Shape, WritesAlone, Reads
    <3>2. Read \in Map /\ change[p].alias \in Aliases
      BY <2>2, <2>3 DEF Read, TypeOK, File, Change
    <3> QED BY <2>1, <3>1, <3>2 DEF Read, Holding, Map
  <2>4. alone[p] => \A q \in Others(p) : ~Busy(q)'
    BY <1>1 DEF Shape, WritesAlone
  <2> QED BY <1>1, <2>1, <2>2, <2>3, <2>4 DEF Shape, Busy, HasWritten
<1>5. CASE ReplaceRaises(p)
  BY <1>1, <1>5 DEF ReplaceRaises, Goto, TypeOK, Shape, Busy
<1> QED BY <1>2, <1>3, <1>4, <1>5 DEF Writes

LEMMA RestKeepsShape ==
  ASSUME StoreInv, NEW p \in Launchers, Rests(p)
  PROVE  Shape(p)'
<1> USE DEF StoreInv
<1>1. CASE Start(p) /\ file.text # "missing"
  BY <1>1 DEF Start, Goto, TypeOK, Shape, Busy
<1>2. CASE AskAlias(p)
  BY <1>2 DEF AskAlias, Goto, TypeOK, Shape, Busy
<1>3. CASE Reply(p) \/ Crash(p)
  BY <1>3 DEF Reply, Crash, Goto, TypeOK, Shape, Busy
<1> QED BY <1>1, <1>2, <1>3 DEF Rests

LEMMA StepsAre ==
  ASSUME Next
  PROVE  \E p \in Launchers : Begins(p) \/ Writes(p) \/ Rests(p)
BY DEF Next, Begins, Writes, Rests

LEMMA StoreInvariance == Spec => []StoreInv
<1>1. Init => StoreInv
  BY InitTypes DEF Init, StoreInv, Shape, Busy
<1>2. StoreInv /\ [Next]_vars => StoreInv'
  <2> SUFFICES ASSUME StoreInv, [Next]_vars
               PROVE  StoreInv'
    OBVIOUS
  <2>1. TypeOK'
    BY NextTypes DEF StoreInv
  <2>2. CASE Next
    <3>1. PICK p \in Launchers : Begins(p) \/ Writes(p) \/ Rests(p)
      BY <2>2, StepsAre
    <3>2. Shape(p)'
      BY <3>1, BeginKeepsShape, WriteKeepsShape, RestKeepsShape
    <3>3. \A q \in Others(p) : Shape(q)'
      BY <3>1, OthersKeepShape
    <3> QED BY <2>1, <3>2, <3>3 DEF StoreInv, Others
  <2>3. CASE UNCHANGED vars
    BY <2>1, <2>3 DEF vars, StoreInv, Shape, Busy, WritesAlone, Others, Reads,
                      Read, HasWritten
  <2> QED BY <2>2, <2>3
<1> QED BY <1>1, <1>2, PTL DEF Spec

-----------------------------------------------------------------------------
(* However many launchers there are and whatever earlier races and deaths  *)
(* have left in both files, a change no other launcher's write overlaps is *)
(* in the file when the status bar says so (save_server, remove_server).   *)
THEOREM LoneChangesKeptAlways == Spec => []LoneChangesKept
<1>1. StoreInv => LoneChangesKept
  BY DEF StoreInv, Shape, HasWritten, LoneChangesKept
<1> QED BY <1>1, StoreInvariance, PTL

(* Where launchers do not write at once, a file that holds a map holds one *)
(* after every step, deaths included (_write's temporary file and rename). *)
THEOREM NeverTornEver == Spec => NeverTorn
<1>1. StoreInv /\ [Next]_vars
        => [~overlapping /\ file.text = "json" => file'.text = "json"]_vars
  <2> SUFFICES ASSUME StoreInv, Next, ~overlapping, file.text = "json"
               PROVE  file'.text = "json"
    OBVIOUS
  <2>1. PICK p \in Launchers : Begins(p) \/ Writes(p) \/ Rests(p)
    BY StepsAre
  <2>2. CASE Begins(p) \/ Rests(p)
    BY <2>2, OthersUntouched DEF StoreInv
  <2>3. CASE Writes(p)
    <3>1. WritesAlone(p)
      BY <2>3, OthersUntouched DEF StoreInv, Shape
    <3>2. OpenTemp(p) \/ ReplaceRaises(p) => file' = file
      BY DEF OpenTemp, ReplaceRaises
    <3>3. WriteData(p) => file' = file
      BY <3>1 DEF WriteData, WritesAlone
    <3>4. Replace(p) => file' = Holding(data[p])
      BY <3>1 DEF Replace, WritesAlone
    <3> QED BY <2>3, <3>2, <3>3, <3>4 DEF Writes, Holding
  <2> QED BY <2>1, <2>2, <2>3
<1> QED BY <1>1, StoreInvariance, PTL DEF Spec, NeverTorn

-----------------------------------------------------------------------------
(* Refinement.  Calls is what SavedMap's call is mapped to.                *)
Calls == [p \in Launchers |-> Progress(p)]

(* A step of p leaves the other launchers' calls as they are.              *)
LEMMA OneCall ==
  ASSUME TypeOK, NEW p \in Launchers, Begins(p) \/ Writes(p) \/ Rests(p)
  PROVE  Calls' = [Calls EXCEPT ![p] = Progress(p)']
<1>1. ASSUME NEW q \in Others(p)
      PROVE  Progress(q)' = Progress(q)
  <2>1. /\ pc'[q] = pc[q] /\ change'[q] = change[q]
        /\ outcome'[q] = outcome[q] /\ overlapping' = overlapping
    BY OthersUntouched
  <2> QED BY <2>1 DEF Progress
<1> QED BY <1>1 DEF Calls, Others

LEMMA BeginRefines ==
  ASSUME StoreInv, ~overlapping, NEW p \in Launchers, Begins(p)
  PROVE  \/ Promised!Invoke(p) \/ Promised!Refuse(p)
         \/ Read' = Read /\ Calls' = Calls
<1>1. /\ Read' = Read /\ overlapping' = overlapping
      /\ Calls' = [Calls EXCEPT ![p] = Progress(p)']
  BY OthersUntouched, OneCall DEF StoreInv, Read
<1>2. Calls[p] = <<None, "idle">>
  <2>1. pc[p] \in {"off", "idle", "ask"}
    BY DEF Begins, Start, SaveServer, RemoveServer
  <2>2. change[p] = None
    BY <2>1 DEF StoreInv, Shape
  <2> QED BY <2>2 DEF Calls, Progress
<1>3. CASE Start(p)
  <2>1. change' = change
    BY <1>3 DEF Start
  <2>2. Progress(p)' = <<None, "idle">>
    BY <1>2, <2>1 DEF Progress, Calls
  <2>3. Calls' = Calls
    BY <1>1, <1>2, <2>2 DEF Calls
  <2> QED BY <1>1, <2>3
<1>4. ASSUME NEW c \in Change, Progress(p)' = <<c, "pending">>
      PROVE  Promised!Invoke(p)
  <2>1. c \in Promised!Change
    BY DEF Change, Promised!Change
  <2> QED BY <1>1, <1>2, <1>4, <2>1
          DEF Promised!Invoke, Promised!Idle, Calls
<1>5. CASE SaveServer(p)
  <2>1. PICK a \in Aliases, i \in Ids :
          change'[p] = [alias |-> a, id |-> i]
    BY <1>5 DEF SaveServer, StoreInv, TypeOK
  <2>2. pc'[p] = "open"
    BY <1>5 DEF SaveServer, Goto, StoreInv, TypeOK
  <2>3. change'[p] \in Change
    BY <2>1 DEF Change
  <2>4. Progress(p)' = <<change'[p], "pending">>
    BY <1>1, <2>2, <2>3, SavedStoreAssumption DEF Progress
  <2> QED BY <1>4, <2>3, <2>4
<1>6. CASE RemoveServer(p)
  <2>1. PICK a \in Aliases :
          /\ change'[p] = [alias |-> a, id |-> None]
          /\ outcome'[p] = IF Read[a] = None THEN "unknown" ELSE "done"
          /\ pc'[p] = IF Read[a] = None THEN "reply" ELSE "open"
    BY <1>6 DEF RemoveServer, Goto, StoreInv, TypeOK
  <2>2. change'[p] \in Change /\ change'[p] \in Promised!Change
    BY <2>1 DEF Change, Promised!Change
  <2>3. CASE Read[a] = None
    <3>1. Progress(p)' = <<change'[p], "unknown">>
      BY <1>1, <2>1, <2>2, <2>3, SavedStoreAssumption DEF Progress
    <3> QED BY <1>1, <1>2, <2>1, <2>2, <2>3, <3>1
            DEF Promised!Refuse, Promised!Idle, Calls
  <2>4. CASE Read[a] # None
    <3>1. Progress(p)' = <<change'[p], "pending">>
      BY <1>1, <2>1, <2>2, <2>4, SavedStoreAssumption DEF Progress
    <3> QED BY <1>4, <2>2, <3>1
  <2> QED BY <2>3, <2>4
<1> QED BY <1>3, <1>5, <1>6 DEF Begins

LEMMA WriteRefines ==
  ASSUME StoreInv, ~overlapping, NEW p \in Launchers, Writes(p)
  PROVE  \/ Promised!Commit(p)
         \/ Read' = Read /\ Calls' = Calls
<1>1. Calls' = [Calls EXCEPT ![p] = Progress(p)'] /\ overlapping' = overlapping
  BY OthersUntouched, OneCall DEF StoreInv
<1>2. Busy(p) /\ WritesAlone(p)
  BY OthersUntouched DEF StoreInv, Shape
<1>3. ASSUME Read' = Read, pc'[p] # "reply", change'[p] = change[p]
      PROVE  Read' = Read /\ Calls' = Calls
  <2>1. Progress(p)' = Progress(p)
    BY <1>1, <1>2, <1>3 DEF Progress, Busy
  <2> QED BY <1>1, <1>3, <2>1 DEF Calls
<1>4. CASE OpenTemp(p)
  BY <1>3, <1>4 DEF OpenTemp, Goto, StoreInv, TypeOK, Read
<1>5. CASE WriteData(p)
  <2>1. file' = file
    BY <1>2, <1>5 DEF WriteData, WritesAlone
  <2> QED BY <1>3, <1>5, <2>1 DEF WriteData, Goto, StoreInv, TypeOK, Read
<1>6. CASE Replace(p)
  <2>1. /\ pc[p] = "replace" /\ Read' = data[p]
        /\ UNCHANGED <<change, outcome>>
        /\ pc'[p] = IF change[p] = None THEN "idle" ELSE "reply"
    BY <1>2, <1>6 DEF Replace, Goto, StoreInv, TypeOK, WritesAlone, Read,
                      Holding
  <2>2. CASE change[p] = None
    <3>1. data[p] = Read
      BY <1>2, <2>2, SavedStoreAssumption DEF WritesAlone, Reads
    <3> QED BY <1>3, <2>1, <2>2, <3>1
  <2>3. CASE change[p] # None
    <3>1. /\ change[p] \in Change
          /\ data[p] = [Read EXCEPT ![change[p].alias] = change[p].id]
          /\ change[p].id = None => Read[change[p].alias] # None
      BY <1>2, <2>3 DEF WritesAlone, Reads
    <3>2. outcome[p] = "done"
      BY <1>2, <2>3 DEF StoreInv, Shape
    <3>3. /\ Calls[p] = <<change[p], "pending">>
          /\ Progress(p)' = <<change[p], "done">>
      BY <1>1, <2>1, <2>3, <3>2 DEF Calls, Progress
    <3>4. change[p] \in Promised!Change
      BY <3>1 DEF Change, Promised!Change
    <3> QED BY <1>1, <2>1, <3>1, <3>3, <3>4 DEF Promised!Commit, Calls
  <2> QED BY <2>2, <2>3
<1>7. CASE ReplaceRaises(p)
  BY <1>2, <1>7 DEF ReplaceRaises, WritesAlone, Holding
<1> QED BY <1>4, <1>5, <1>6, <1>7 DEF Writes

LEMMA RestRefines ==
  ASSUME StoreInv, ~overlapping, NEW p \in Launchers, Rests(p)
  PROVE  \/ Promised!Return(p) \/ Promised!Die(p)
         \/ Read' = Read /\ Calls' = Calls
<1>1. /\ Calls' = [Calls EXCEPT ![p] = Progress(p)']
      /\ overlapping' = overlapping /\ Read' = Read
  BY OthersUntouched, OneCall DEF StoreInv, Read
<1>2. CASE (Start(p) /\ file.text # "missing") \/ AskAlias(p)
  <2>1. change[p] = None /\ change' = change
    BY <1>2 DEF Start, AskAlias, StoreInv, Shape
  <2>2. Progress(p)' = Progress(p)
    BY <2>1 DEF Progress
  <2> QED BY <1>1, <2>2 DEF Calls
<1>3. CASE Reply(p) \/ Crash(p)
  <2>1. change'[p] = None
    BY <1>3 DEF Reply, Crash, StoreInv, TypeOK
  <2>2. Progress(p)' = <<None, "idle">>
    BY <2>1 DEF Progress
  <2> QED BY <1>1, <2>2 DEF Promised!Die, Promised!Idle, Calls
<1> QED BY <1>2, <1>3 DEF Rests

(* Where launchers do not write at once, SavedDB's read, temporary file    *)
(* and rename, cut short by deaths anywhere, implement the map whose       *)
(* changes happen at one moment.                                           *)
THEOREM ImplementsSavedMapAlways == Spec => ImplementsSavedMap
<1>1. Init => Promised!Init
  <2> SUFFICES ASSUME Init PROVE Promised!Init
    OBVIOUS
  <2>1. \A p \in Launchers : Progress(p) = <<None, "idle">>
    BY DEF Init, Progress
  <2>2. Read = EmptyMap
    BY DEF Init, Read, NoJson
  <2> QED BY <2>1, <2>2 DEF Promised!Init, Promised!Idle, EmptyMap
<1>2. StoreInv /\ [Next]_vars => [Promised!Next]_Promised!vars
  <2> SUFFICES ASSUME StoreInv, Next
               PROVE  \/ Promised!Next
                      \/ /\ (IF overlapping THEN EmptyMap ELSE Read)'
                             = (IF overlapping THEN EmptyMap ELSE Read)
                         /\ Calls' = Calls
    BY DEF Promised!vars, vars, Calls, Progress, Read
  <2>1. PICK p \in Launchers : Begins(p) \/ Writes(p) \/ Rests(p)
    BY StepsAre
  <2>2. overlapping' = overlapping
    BY <2>1, OthersUntouched DEF StoreInv
  <2>3. CASE overlapping
    BY <2>2, <2>3 DEF Calls, Progress
  <2>4. CASE ~overlapping
    <3>1. CASE Begins(p)
      BY <2>2, <2>4, <3>1, BeginRefines DEF Promised!Next
    <3>2. CASE Writes(p)
      BY <2>2, <2>4, <3>2, WriteRefines DEF Promised!Next
    <3>3. CASE Rests(p)
      BY <2>2, <2>4, <3>3, RestRefines DEF Promised!Next
    <3> QED BY <2>1, <3>1, <3>2, <3>3
  <2> QED BY <2>3, <2>4
<1> QED BY <1>1, <1>2, StoreInvariance, PTL
        DEF Spec, ImplementsSavedMap, Promised!Spec
=============================================================================
