------------------------ MODULE SingleFileImportProofs ------------------------
(***************************************************************************)
(* Theorems about SingleFileImport, for any number of runs, in batch jobs  *)
(* or alone, and any assignment of hashes and titles.                      *)
(***************************************************************************)
EXTENDS SingleFileImport, FiniteSetTheorems, TLAPS

-----------------------------------------------------------------------------
(* The inductive invariant.                                                *)

EarlyStages == {"new", "start", "parsed", "accepted"}

\* The runs that may still take an id, and those that have none reserved yet.
Early == {i \in Imports : pc[i] \in EarlyStages}
New   == {i \in Imports : pc[i] = "new"}

\* The types, apart from the bounds of the ids.
TypeInv ==
    /\ pc \in [Imports -> Stages \union Ended]
    /\ id \in [Imports -> Nat]
    /\ nextId \in Nat \ {0}
    /\ disk \in [Paths -> Imports \union {Nothing, Torn}]
    /\ dirty \subseteq Imports
    /\ keptRow \subseteq Imports
    /\ stop \in [Jobs -> BOOLEAN]
    /\ call \in [Imports -> W!Statuses]
    /\ rows \subseteq Imports
    /\ open \in BOOLEAN

\* The sequence has ids enough for what is still to come.
CountInv ==
    /\ New \in {{}, Batch}
    /\ nextId + Cardinality(Early) + Cardinality(New) <= MaxId + 1

\* No id is given to two runs.
IdInv ==
    /\ \A i \in Imports : id[i] < nextId
    /\ \A i, j \in Imports : id[i] = id[j] /\ i # j => id[i] = NoId

Fresh  == EarlyStages \union {"planned", "converted"}
Stored == {"cover", "restore", "clean", "Imported"}
Filed  == {"prepared", "adding"}

\* Where the files of a run are.
FilesInv(i) ==
    /\ \A p \in Paths : disk[p] = i => p[1] = id[i]
    /\ pc[i] \in Fresh => \A p \in Paths : disk[p] # i
    /\ pc[i] \notin EarlyStages \union Ended => id[i] # NoId
    /\ pc[i] = "Imported" => id[i] # NoId
    /\ pc[i] \in Filed => disk[Staged(i, "book")] = i /\ disk[Final(i, "book")] # i
    /\ pc[i] \in Filed \union {"cover"} /\ i \in Covered => disk[Staged(i, "cover")] = i
    /\ pc[i] = "cover" => i \in Covered
    /\ pc[i] \in Stored => disk[Final(i, "book")] = i
    /\ pc[i] \in {"clean", "Imported"} /\ i \in Covered => disk[Final(i, "cover")] = i
    /\ pc[i] \in Ended \ {"Imported"} => \A p \in Paths : disk[p] = i => i \in dirty \union keptRow

\* Whether it has a row.
RowInv(i) ==
    /\ pc[i] \in Fresh \union {"prepared"} => call[i] = "idle"
    /\ call[i] = "waiting" => pc[i] = "adding"
    /\ i \in rows => pc[i] \in Stored \union {"adding", "undo"} \/ i \in keptRow
    /\ pc[i] \in Stored \union {"undo"} => i \in rows
    /\ i \in keptRow => pc[i] = "Failed" /\ i \in rows
    /\ pc[i] = "adding" => /\ call[i] = "imported" => i \in rows
                           /\ call[i] \in {"duplicate", "failed", "aborted"} => i \notin rows

RunInv == \A i \in Imports : FilesInv(i) /\ RowInv(i)

IInv == TypeInv /\ CountInv /\ IdInv /\ RunInv /\ NoStrictDuplicates

\* The ids of the invariant are those the disk is made for.
LEMMA IdsInBounds ==
    ASSUME TypeInv, CountInv, IdInv
    PROVE  /\ nextId \in 1 .. MaxId + 1 /\ \A i \in Imports : id[i] \in Ids \union {NoId}
           /\ Cardinality(Early) \in Nat /\ Cardinality(New) \in Nat /\ MaxId \in Nat
<1>1. Cardinality(Early) \in Nat /\ Cardinality(New) \in Nat /\ Cardinality(Imports) \in Nat
  BY FS_Subset, FS_CardinalityType, ImportsAssumption DEF Early, New
<1>2. MaxId \in Nat
  BY <1>1 DEF MaxId
<1>3. QED
  BY <1>1, <1>2 DEF TypeInv, CountInv, IdInv, Ids, NoId

\* The paths of a run with an id.
LEMMA OwnPaths ==
    ASSUME TypeInv, CountInv, IdInv, NEW i \in Imports, id[i] # NoId
    PROVE  /\ \A part \in {"book", "cover"} :
                 /\ Staged(i, part) \in Paths /\ Staged(i, part)[1] = id[i]
                 /\ Final(i, part) \in Paths /\ Final(i, part)[1] = id[i]
           /\ \A p \in Paths : p[1] = id[i] <=> p \in EveryPathOf(i)
<1>1. id[i] \in Ids
  BY IdsInBounds
<1>2. QED
  BY <1>1 DEF Staged, Final, Paths, EveryPathOf

-----------------------------------------------------------------------------
(* The start.                                                              *)

\* The invariant holds at the start.
LEMMA InvInit == Init => IInv
<1> SUFFICES ASSUME Init PROVE IInv
  OBVIOUS
<1>1. TypeInv
  BY DEF Init, W!Init, TypeInv, Stages, NoId, Jobs, W!Statuses
<1>2. CountInv
  <2>1. Early = Imports /\ New = Batch
    BY ImportsAssumption DEF Init, Early, New, EarlyStages
  <2>2. Cardinality(Batch) <= Cardinality(Imports)
        /\ Cardinality(Batch) \in Nat /\ Cardinality(Imports) \in Nat
    BY FS_Subset, FS_CardinalityType, ImportsAssumption
  <2>3. QED
    BY <2>1, <2>2 DEF CountInv, MaxId, Init
<1>3. IdInv
  BY DEF Init, IdInv, NoId
<1>4. RunInv
  BY DiskAssumption
     DEF Init, W!Init, RunInv, FilesInv, RowInv, Fresh, EarlyStages, Stored, Filed, Ended
<1>5. NoStrictDuplicates
  BY DEF Init, W!Init, NoStrictDuplicates
<1>6. QED
  BY <1>1, <1>2, <1>3, <1>4, <1>5 DEF IInv

-----------------------------------------------------------------------------
(* What a step of one run does to the others.                              *)

\* The step of run j writes in its own directory only, and only its own bytes.
Touch(j) ==
    /\ disk' \in [Paths -> Imports \union {Nothing, Torn}]
    /\ \A p \in Paths : disk'[p] # disk[p] =>
          p[1] = id[j] /\ id[j] # NoId /\ disk'[p] \in {j, Nothing, Torn}

\* A cleanup writes in the directory of its run.
LEMMA CleanupTouches ==
    ASSUME IInv, NEW j \in Imports, id[j] # NoId, NEW S \in SUBSET EveryPathOf(j),
           RemoveFiles(j, S)
    PROVE  /\ Touch(j)
           /\ \A p \in Paths \ S : disk'[p] = disk[p]
           /\ \A p \in S : disk'[p] # Nothing => j \in dirty'
           /\ dirty' \in {dirty, dirty \union {j}}
<1>1. PICK left \in SUBSET {p \in S : disk[p] # Nothing} :
          /\ Residue(j, left)
          /\ disk' = [p \in Paths |-> IF p \in S \ left THEN Nothing ELSE disk[p]]
  BY DEF RemoveFiles
<1>2. S \subseteq Paths /\ \A p \in S : p[1] = id[j]
  BY DEF EveryPathOf
<1>3. Touch(j)
  BY <1>1, <1>2 DEF Touch, IInv, TypeInv
<1>4. \A p \in S : disk'[p] # Nothing => left # {}
  BY <1>1, <1>2
<1>5. QED
  BY <1>1, <1>2, <1>3, <1>4 DEF Residue

\* Moving a file of the run that is there.
LEMMA MoveTouches ==
    ASSUME IInv, NEW j \in Imports, id[j] # NoId, NEW from \in EveryPathOf(j),
           NEW to \in EveryPathOf(j), from # to, disk[from] = j,
           disk' \in Moved(from, to) \union MoveFailed(to)
    PROVE  /\ Touch(j)
           /\ \A p \in Paths \ {from, to} : disk'[p] = disk[p]
           /\ disk' \in Moved(from, to) => disk'[to] = j
           /\ disk' \in MoveFailed(to) => disk'[from] = j
<1>1. from \in Paths /\ to \in Paths /\ from[1] = id[j] /\ to[1] = id[j]
  BY DEF EveryPathOf
<1>2. disk \in [Paths -> Imports \union {Nothing, Torn}]
  BY DEF IInv, TypeInv
<1>3. ASSUME disk' \in Moved(from, to)
      PROVE  /\ disk' \in [Paths -> Imports \union {Nothing, Torn}]
             /\ disk'[to] = j /\ disk'[from] \in {j, Nothing}
             /\ \A p \in Paths \ {from, to} : disk'[p] = disk[p]
  <2>1. CASE disk' = [disk EXCEPT ![to] = disk[from]]
    BY <1>1, <1>2, <2>1
  <2>2. CASE disk' = [[disk EXCEPT ![to] = disk[from]] EXCEPT ![from] = Nothing]
    BY <1>1, <1>2, <2>2
  <2>3. QED
    BY <1>3, <2>1, <2>2 DEF Moved
<1>4. ASSUME disk' \in MoveFailed(to)
      PROVE  /\ disk' \in [Paths -> Imports \union {Nothing, Torn}]
             /\ disk'[from] = j /\ disk'[to] \in {disk[to], Torn}
             /\ \A p \in Paths \ {from, to} : disk'[p] = disk[p]
  BY <1>1, <1>2, <1>4 DEF MoveFailed
<1>5. Touch(j)
  BY <1>1, <1>3, <1>4 DEF Touch
<1>6. QED
  BY <1>3, <1>4, <1>5

\* The step of run j leaves the files of every other run as they are.
LEMMA FilesFrame ==
    ASSUME IInv, NEW j \in Imports, Touch(j), NEW i \in Imports, i # j,
           pc'[i] = pc[i], id'[i] = id[i], dirty \subseteq dirty',
           i \in keptRow <=> i \in keptRow'
    PROVE  FilesInv(i)'
<1>1. FilesInv(i)
  BY DEF IInv, RunInv
<1>2. \A p \in Paths : disk'[p] = i => disk[p] = i
  BY DiskAssumption DEF Touch
<1>3. \A p \in Paths : p[1] = id[i] => disk'[p] = disk[p]
  <2>1. id[i] # id[j] \/ id[j] = NoId
    BY DEF IInv, IdInv
  <2>2. QED
    BY <2>1 DEF Touch
<1>4. id[i] # NoId =>
         \A part \in {"book", "cover"} : /\ disk'[Staged(i, part)] = disk[Staged(i, part)]
                                        /\ disk'[Final(i, part)] = disk[Final(i, part)]
  BY <1>3, OwnPaths DEF IInv
<1>5. Staged(i, "book")' = Staged(i, "book") /\ Staged(i, "cover")' = Staged(i, "cover")
      /\ Final(i, "book")' = Final(i, "book") /\ Final(i, "cover")' = Final(i, "cover")
  BY DEF Staged, Final
<1>6. pc[i] \in Filed \union {"cover"} \union Stored => id[i] # NoId
  BY <1>1 DEF FilesInv, Filed, Stored, EarlyStages, Ended
<1>7. QED
  BY <1>1, <1>2, <1>4, <1>5, <1>6 DEF FilesInv, Filed, Stored, EarlyStages, Ended

\* The step of run j leaves the rows of every other run as they are.
LEMMA RowFrame ==
    ASSUME IInv, NEW i \in Imports, pc'[i] = pc[i], call'[i] = call[i],
           i \in rows <=> i \in rows', i \in keptRow <=> i \in keptRow'
    PROVE  RowInv(i)'
  BY DEF IInv, RunInv, RowInv

-----------------------------------------------------------------------------
(* What a step of one run does to itself.                                  *)

\* Run j keeps its part of the invariant, and the others' alone.
Step(j) ==
    /\ Touch(j) /\ TypeInv' /\ FilesInv(j)' /\ RowInv(j)'
    /\ dirty \subseteq dirty'
    /\ \A i \in Imports \ {j} :
          /\ pc'[i] = pc[i] /\ id'[i] = id[i] /\ call'[i] = call[i]
          /\ i \in rows <=> i \in rows'
          /\ i \in keptRow <=> i \in keptRow'

\* With such a step everybody's part is kept.
LEMMA StepKeeps ==
    ASSUME IInv, NEW j \in Imports, Step(j)
    PROVE  RunInv'
<1> SUFFICES ASSUME NEW i \in Imports PROVE FilesInv(i)' /\ RowInv(i)'
  BY DEF RunInv
<1>1. CASE i = j
  BY <1>1 DEF Step
<1>2. CASE i # j
  BY <1>2, FilesFrame, RowFrame DEF Step
<1>3. QED
  BY <1>1, <1>2

\* Before the book is prepared there is nothing to keep.
LEMMA FreshStep ==
    ASSUME IInv, NEW j \in Imports, pc[j] \in Fresh,
           NEW to \in Fresh \union (Ended \ {"Imported"}), pc' = [pc EXCEPT ![j] = to],
           NEW n \in Nat, id' = [id EXCEPT ![j] = n], to \in {"planned", "converted"} => n # NoId,
           nextId' \in Nat \ {0}, UNCHANGED <<disk, dirty, keptRow, stop, catalog>>
    PROVE  Step(j)
<1>0. TypeInv /\ FilesInv(j) /\ RowInv(j)
  BY DEF IInv, RunInv
<1>1. Touch(j)
  BY <1>0 DEF Touch, TypeInv
<1>2. TypeInv'
  BY <1>0 DEF TypeInv, catalog, Fresh, EarlyStages, Stages, Ended
<1>3. pc'[j] = to
  BY <1>0 DEF TypeInv
<1>4. FilesInv(j)'
  BY <1>0, <1>3 DEF TypeInv, FilesInv, Fresh, EarlyStages, Stored, Filed, Ended
<1>5. RowInv(j)'
  BY <1>0, <1>3 DEF RowInv, catalog, Fresh, EarlyStages, Stored, Ended
<1>6. QED
  BY <1>0, <1>1, <1>2, <1>4, <1>5 DEF Step, TypeInv, catalog

\* Giving up removes what was staged, or leaves the run dirty.
LEMMA GiveUpStep ==
    ASSUME IInv, NEW j \in Imports, pc[j] \in {"prepared", "adding", "rollback"}, j \notin rows,
           NEW to \in {"Failed", "Cancelled", "RejectedDuplicate"}, pc' = [pc EXCEPT ![j] = to],
           RollbackImport(j), UNCHANGED <<id, nextId, keptRow, stop, rows, open>>,
           NEW c \in W!Statuses \ {"waiting"}, call' = [call EXCEPT ![j] = c]
    PROVE  Step(j)
<1>0. TypeInv /\ FilesInv(j) /\ RowInv(j)
  BY DEF IInv, RunInv
<1>1. id[j] # NoId
  BY <1>0 DEF FilesInv, EarlyStages, Ended
<1>2. /\ Touch(j)
      /\ \A p \in Paths \ EveryPathOf(j) : disk'[p] = disk[p]
      /\ \A p \in EveryPathOf(j) : disk'[p] # Nothing => j \in dirty'
      /\ dirty' \in {dirty, dirty \union {j}}
  BY <1>1, CleanupTouches DEF RollbackImport
<1>3. pc'[j] = to /\ call'[j] = c
  BY <1>0 DEF TypeInv
<1>4. TypeInv'
  BY <1>0, <1>2 DEF TypeInv, Touch, Stages, Ended
<1>5. FilesInv(j)'
  <2>1. ASSUME NEW p \in Paths, disk'[p] = j PROVE p[1] = id[j] /\ j \in dirty'
    <3>1. p \in EveryPathOf(j)
      BY <1>0, <1>2, <2>1 DEF FilesInv, EveryPathOf
    <3>2. QED
      BY <1>2, <2>1, <3>1, DiskAssumption DEF EveryPathOf
  <2>2. QED
    BY <1>3, <2>1 DEF FilesInv, Fresh, EarlyStages, Stored, Filed, Ended
<1>6. RowInv(j)'
  BY <1>0, <1>3 DEF RowInv, Fresh, EarlyStages, Stored
<1>7. QED
  BY <1>0, <1>2, <1>4, <1>5, <1>6 DEF Step, TypeInv

\* Steps of the write and after it, which touch neither ids nor the row of j.
LEMMA WriteStep ==
    ASSUME IInv, NEW j \in Imports, Touch(j), FilesInv(j)', RowInv(j)',
           NEW to \in Stages \union Ended, pc' = [pc EXCEPT ![j] = to],
           UNCHANGED <<id, nextId, stop>>, dirty' \in {dirty, dirty \union {j}},
           keptRow' \in {keptRow, keptRow \union {j}}, open' \in BOOLEAN,
           rows' \in {rows, rows \union {j}, rows \ {j}},
           NEW c \in W!Statuses, call' = [call EXCEPT ![j] = c]
    PROVE  Step(j)
<1>0. TypeInv
  BY DEF IInv
<1>1. TypeInv'
  BY <1>0 DEF TypeInv, Touch
<1>2. QED
  BY <1>0, <1>1 DEF Step, TypeInv

\* Up to the conversion.
LEMMA EarlySteps ==
    ASSUME IInv, NEW j \in Imports, Detect(j) \/ CheckDuplicates(j) \/ ReserveId(j) \/ Convert(j)
    PROVE  Step(j)
<1>0. TypeInv /\ FilesInv(j)
  BY DEF IInv, RunInv
<1>1. id' = id => id' = [id EXCEPT ![j] = id[j]] /\ id[j] \in Nat
  BY <1>0 DEF TypeInv
<1>2. ASSUME pc[j] \in {"start", "parsed", "accepted", "planned"}, Unwritten' = Unwritten,
             NEW to \in {"parsed", "accepted", "converted"} \union (Ended \ {"Imported"}),
             pc' = [pc EXCEPT ![j] = to], to = "converted" => pc[j] = "planned"
      PROVE  Step(j)
  <2>1. to = "converted" => id[j] # NoId
    BY <1>0, <1>2 DEF FilesInv, EarlyStages, Ended
  <2>2. id' = id /\ nextId' = nextId /\ UNCHANGED <<disk, dirty, keptRow, stop, catalog>>
    BY <1>2 DEF Unwritten
  <2>3. nextId' \in Nat \ {0}
    BY <1>0, <2>2 DEF TypeInv
  <2>4. pc[j] \in Fresh /\ to \in Fresh \union (Ended \ {"Imported"})
    BY <1>2 DEF Fresh, EarlyStages
  <2>5. to \in {"planned", "converted"} => id[j] # NoId
    BY <1>2, <2>1 DEF Ended
  <2>6. QED
    BY <1>1, <1>2, <2>2, <2>3, <2>4, <2>5, FreshStep
<1>3. CASE Detect(j)
  BY <1>2, <1>3 DEF Detect, Goto, Ended
<1>4. CASE CheckDuplicates(j)
  BY <1>2, <1>4 DEF CheckDuplicates, Goto, Ended
<1>5. CASE Convert(j)
  BY <1>2, <1>5 DEF Convert, Goto, Ended
<1>6. CASE ReserveId(j)
  <2>1. CASE Goto(j, "accepted", "Failed") /\ UNCHANGED Unwritten
    BY <1>2, <2>1 DEF Goto, Ended
  <2>2. CASE /\ Goto(j, "accepted", "planned") /\ nextId' = nextId + 1
             /\ id' = [id EXCEPT ![j] = IF @ = NoId THEN nextId ELSE @]
             /\ UNCHANGED <<disk, dirty, keptRow, stop, catalog>>
    <3>1. nextId' \in Nat \ {0} /\ nextId \in Nat /\ nextId # NoId /\ id[j] \in Nat
      BY <1>0, <2>2 DEF TypeInv, NoId
    <3>2. id' = [id EXCEPT ![j] = IF id[j] = NoId THEN nextId ELSE id[j]]
      BY <2>2
    <3>3. QED
      BY <2>2, <3>1, <3>2, FreshStep DEF Goto, Fresh, EarlyStages
  <2>3. QED
    BY <1>6, <2>1, <2>2 DEF ReserveId, AdvanceSequence
<1>7. QED
  BY <1>3, <1>4, <1>5, <1>6

\* PrepareImport.
LEMMA PrepareStep ==
    ASSUME IInv, NEW j \in Imports, Prepare(j)
    PROVE  Step(j)
<1>0. TypeInv /\ FilesInv(j) /\ RowInv(j) /\ CountInv /\ IdInv
  BY DEF IInv, RunInv
<1>1. pc[j] = "converted" /\ UNCHANGED <<id, nextId, keptRow, stop, catalog>>
  BY DEF Prepare, Goto
<1>2. id[j] # NoId /\ \A p \in Paths : disk[p] # j
  BY <1>0, <1>1 DEF FilesInv, Fresh, EarlyStages, Ended
<1>3. /\ Staged(j, "book") \in Paths /\ Staged(j, "cover") \in Paths /\ Final(j, "book") \in Paths
      /\ Staged(j, "book")[1] = id[j] /\ Staged(j, "cover")[1] = id[j]
      /\ Final(j, "book") \notin StagingOf(j) /\ Final(j, "book") # Staged(j, "book")
      /\ Final(j, "book") # Staged(j, "cover")
  BY <1>0, <1>2, OwnPaths DEF Staged, Final, StagingOf
<1>4. \A p \in StagingOf(j) : p \in Paths /\ p[1] = id[j]
  BY DEF StagingOf
<1>5. call' = [call EXCEPT ![j] = call[j]] /\ call[j] = "idle" /\ j \notin rows /\ j \notin keptRow
  BY <1>0, <1>1 DEF TypeInv, RowInv, catalog, Fresh, EarlyStages, Stored
<1>6. CASE /\ Goto(j, "converted", "prepared")
           /\ disk' = [p \in Paths |->
                 IF p = Staged(j, "book") \/ (p = Staged(j, "cover") /\ j \in Covered) THEN j
                 ELSE IF p \in StagingOf(j) THEN Nothing
                 ELSE disk[p]]
           /\ UNCHANGED dirty
  <2>1. Touch(j)
    BY <1>0, <1>2, <1>3, <1>4, <1>6 DEF Touch, TypeInv
  <2>2. pc'[j] = "prepared"
    BY <1>0, <1>6 DEF Goto, TypeInv
  <2>3. \A part \in {"book", "cover"} : Staged(j, part)' = Staged(j, part) /\ Final(j, part)' = Final(j, part)
    BY <1>1 DEF Staged, Final
  <2>4. \A p \in Paths : disk'[p] = j => p[1] = id[j]
    BY <1>2, <1>3, <1>6, DiskAssumption
  <2>5. /\ disk'[Staged(j, "book")] = j /\ disk'[Final(j, "book")] # j
        /\ j \in Covered => disk'[Staged(j, "cover")] = j
    BY <1>2, <1>3, <1>6
  <2>6. FilesInv(j)'
    BY <1>1, <1>2, <2>2, <2>3, <2>4, <2>5 DEF FilesInv, Fresh, EarlyStages, Stored, Filed, Ended
  <2>7. RowInv(j)'
    BY <1>1, <1>5, <2>2 DEF RowInv, catalog, Fresh, EarlyStages, Stored
  <2>8. QED
    BY <1>0, <1>1, <1>5, <1>6, <2>1, <2>6, <2>7, WriteStep
       DEF Goto, catalog, Stages, TypeInv, W!Statuses
<1>7. CASE /\ Goto(j, "converted", "Failed")
           /\ \E torn \in SUBSET StagingOf(j) :
                 /\ Residue(j, torn)
                 /\ disk' = [p \in Paths |-> IF p \in torn THEN Torn
                                             ELSE IF p \in StagingOf(j) THEN Nothing
                                             ELSE disk[p]]
  <2>1. PICK torn \in SUBSET StagingOf(j) :
                 /\ Residue(j, torn)
                 /\ disk' = [p \in Paths |-> IF p \in torn THEN Torn
                                             ELSE IF p \in StagingOf(j) THEN Nothing
                                             ELSE disk[p]]
    BY <1>7
  <2>2. Touch(j)
    BY <1>0, <1>2, <1>4, <2>1 DEF Touch, TypeInv
  <2>3. pc'[j] = "Failed"
    BY <1>0, <1>7 DEF Goto, TypeInv
  <2>4. \A p \in Paths : disk'[p] # j
    BY <1>2, <2>1, DiskAssumption
  <2>5. FilesInv(j)'
    BY <2>3, <2>4 DEF FilesInv, Fresh, EarlyStages, Stored, Filed, Ended
  <2>6. RowInv(j)'
    BY <1>1, <1>5, <2>3 DEF RowInv, catalog, Fresh, EarlyStages, Stored
  <2>7. dirty' \in {dirty, dirty \union {j}}
    BY <2>1 DEF Residue
  <2>8. QED
    BY <1>0, <1>1, <1>5, <1>7, <2>2, <2>5, <2>6, <2>7, WriteStep
       DEF Goto, catalog, Ended, TypeInv, W!Statuses
<1>8. QED
  BY <1>6, <1>7 DEF Prepare

\* The ends of a run that leave no row.
LEMMA GiveUpSteps ==
    ASSUME IInv, NEW j \in Imports,
           CancelPrepared(j) \/ PreparedFails(j) \/ AddDuplicate(j) \/ AddFails(j) \/ Rollback(j)
    PROVE  Step(j)
<1>0. TypeInv /\ RowInv(j)
  BY DEF IInv, RunInv
<1>1. pc[j] \in {"prepared", "rollback"} => call[j] # "waiting" /\ j \notin rows
  BY <1>0 DEF RowInv, Stored
<1>2. call' = call => call' = [call EXCEPT ![j] = call[j]] /\ call[j] \in W!Statuses
  BY <1>0 DEF TypeInv
<1>3. ASSUME NEW from \in {"prepared", "adding", "rollback"},
             NEW to \in {"Failed", "Cancelled", "RejectedDuplicate"}, GiveUp(j, from, to),
             from = "adding" => call[j] \in {"duplicate", "failed", "aborted"}
      PROVE  Step(j)
  <2>1. pc[j] = from /\ pc' = [pc EXCEPT ![j] = to] /\ call' = call
        /\ RollbackImport(j) /\ UNCHANGED <<id, nextId, keptRow, stop, rows, open>>
    BY <1>3 DEF GiveUp, Goto, catalog
  <2>2. j \notin rows /\ call[j] # "waiting"
    BY <1>0, <1>1, <1>3, <2>1 DEF RowInv
  <2>3. QED
    BY <1>2, <2>1, <2>2, GiveUpStep
<1>4. CASE CancelPrepared(j)
  BY <1>3, <1>4 DEF CancelPrepared
<1>5. CASE PreparedFails(j)
  <2>1. CASE GiveUp(j, "prepared", "Failed")
    BY <1>3, <2>1
  <2>2. CASE /\ W!Refuse(j) /\ Goto(j, "prepared", "Failed") /\ RollbackImport(j)
             /\ UNCHANGED <<id, nextId, keptRow, stop>>
    BY <1>1, <2>2, GiveUpStep DEF W!Refuse, Goto, W!Statuses
  <2>3. QED
    BY <1>5, <2>1, <2>2 DEF PreparedFails
<1>6. CASE AddDuplicate(j)
  BY <1>3, <1>6 DEF AddDuplicate
<1>7. CASE AddFails(j)
  BY <1>3, <1>7 DEF AddFails
<1>8. CASE Rollback(j)
  BY <1>3, <1>8 DEF Rollback
<1>9. QED
  BY <1>4, <1>5, <1>6, <1>7, <1>8

\* The write: handed to the repository, or done in a transaction of the run's own.
LEMMA AddSteps ==
    ASSUME IInv, NEW j \in Imports, Submit(j) \/ AddDirectly(j)
    PROVE  Step(j)
<1>0. TypeInv /\ FilesInv(j) /\ RowInv(j)
  BY DEF IInv, RunInv
<1>1. /\ pc[j] = "prepared" /\ pc' = [pc EXCEPT ![j] = "adding"]
      /\ UNCHANGED <<id, nextId, disk, dirty, keptRow, stop>>
  BY DEF Submit, AddDirectly, Goto
<1>2. pc'[j] = "adding" /\ j \notin rows /\ j \notin keptRow
  BY <1>0, <1>1 DEF TypeInv, RowInv, Stored
<1>3. Touch(j)
  BY <1>0, <1>1 DEF Touch, TypeInv
<1>4. FilesInv(j)'
  BY <1>0, <1>1, <1>2 DEF FilesInv, Fresh, EarlyStages, Stored, Filed, Ended, Staged, Final
<1>5. PICK c \in {"waiting", "imported", "duplicate", "failed"} :
         /\ call' = [call EXCEPT ![j] = c] /\ open' = open
         /\ rows' = IF c = "imported" THEN rows \union {j} ELSE rows
  <2>1. CASE Submit(j)
    BY <2>1 DEF Submit, W!Accept
  <2>2. CASE AddDirectly(j)
    BY <2>2 DEF AddDirectly, DirectAnswers
  <2>3. QED
    BY <2>1, <2>2
<1>6. call'[j] = c
  BY <1>0, <1>5 DEF TypeInv
<1>7. RowInv(j)'
  BY <1>1, <1>2, <1>5, <1>6 DEF RowInv, Fresh, EarlyStages, Stored
<1>8. QED
  BY <1>0, <1>1, <1>3, <1>4, <1>5, <1>7, WriteStep DEF TypeInv, Stages, W!Statuses, W!Answers

\* CommitImport and what follows it, as far as the disk is concerned.
LEMMA CommitSteps ==
    ASSUME IInv, NEW j \in Imports, CommitBook(j) \/ CommitCover(j) \/ RestoreBook(j)
    PROVE  Step(j)
<1>0. TypeInv /\ FilesInv(j) /\ RowInv(j) /\ CountInv /\ IdInv
  BY DEF IInv, RunInv
<1>1. pc[j] \in {"adding", "cover", "restore"} /\ UNCHANGED <<id, nextId, dirty, keptRow, stop, catalog>>
  BY DEF CommitBook, CommitCover, RestoreBook, Goto, CommitStep
<1>2. j \in rows /\ j \notin keptRow /\ call[j] # "waiting"
  <2>1. CASE pc[j] = "adding"
    <3>1. call[j] = "imported"
      BY <2>1 DEF CommitBook, CommitCover, RestoreBook, Goto
    <3>2. QED
      BY <1>0, <2>1, <3>1 DEF RowInv
  <2>2. CASE pc[j] \in {"cover", "restore"}
    BY <1>0, <2>2 DEF RowInv, Stored
  <2>3. QED
    BY <1>1, <2>1, <2>2
<1> DEFINE b == Staged(j, "book")   B == Final(j, "book")
           c == Staged(j, "cover")  C == Final(j, "cover")
<1>3. id[j] # NoId /\ {b, B, c, C} \subseteq EveryPathOf(j) /\ {b, B, c, C} \subseteq Paths
  <2>1. id[j] # NoId
    BY <1>0, <1>1 DEF FilesInv, EarlyStages, Ended
  <2>2. QED
    BY <1>0, <2>1, OwnPaths
<1>4. b # B /\ b # c /\ b # C /\ B # c /\ B # C /\ c # C
  BY DEF Staged, Final
<1>5. b' = b /\ B' = B /\ c' = c /\ C' = C
  BY <1>1 DEF Staged, Final
<1> HIDE DEF b, B, c, C
<1>6. ASSUME Touch(j), NEW p \in Paths, disk'[p] = j PROVE p[1] = id'[j]
  BY <1>0, <1>1, <1>6 DEF Touch, FilesInv
<1>7. ASSUME Touch(j), FilesInv(j)',
             NEW to \in {"cover", "clean", "restore", "undo"}, pc' = [pc EXCEPT ![j] = to]
      PROVE  Step(j)
  <2>1. pc'[j] = to
    BY <1>0, <1>7 DEF TypeInv
  <2>2. RowInv(j)'
    BY <1>1, <1>2, <2>1 DEF RowInv, catalog, Fresh, EarlyStages, Stored
  <2>3. call' = [call EXCEPT ![j] = call[j]] /\ call[j] \in W!Statuses
    BY <1>0, <1>1 DEF TypeInv, catalog
  <2>4. QED
    BY <1>0, <1>1, <1>7, <2>2, <2>3, WriteStep DEF TypeInv, catalog, Stages
<1>8. CASE CommitBook(j)
  <2>0. pc[j] = "adding" /\ disk[b] = j /\ disk[B] # j /\ (j \in Covered => disk[c] = j)
    BY <1>0, <1>8 DEF CommitBook, Goto, FilesInv, Filed, b, B, c
  <2>1. CASE /\ pc' = [pc EXCEPT ![j] = IF j \in Covered THEN "cover" ELSE "clean"]
             /\ disk' \in Moved(b, B)
    <3>1. Touch(j) /\ disk'[B] = j /\ (j \in Covered => disk'[c] = j)
      BY <1>3, <1>4, <2>0, <2>1, MoveTouches
    <3>2. pc'[j] = IF j \in Covered THEN "cover" ELSE "clean"
      BY <1>0, <2>1 DEF TypeInv
    <3>3. FilesInv(j)'
      BY <1>1, <1>3, <1>5, <1>6, <3>1, <3>2
         DEF FilesInv, Fresh, EarlyStages, Stored, Filed, Ended, b, B, c, C
    <3>4. QED
      BY <1>7, <2>1, <3>1, <3>3
  <2>2. CASE pc' = [pc EXCEPT ![j] = "undo"] /\ disk' \in MoveFailed(B)
    <3>1. Touch(j)
      BY <1>3, <1>4, <2>0, <2>2, MoveTouches
    <3>2. pc'[j] = "undo"
      BY <1>0, <2>2 DEF TypeInv
    <3>3. FilesInv(j)'
      BY <1>1, <1>3, <1>6, <3>1, <3>2 DEF FilesInv, Fresh, EarlyStages, Stored, Filed, Ended
    <3>4. QED
      BY <1>7, <2>2, <3>1, <3>3
  <2>3. QED
    BY <1>8, <2>1, <2>2 DEF CommitBook, Goto, b, B
<1>9. CASE CommitCover(j)
  <2>0. pc[j] = "cover" /\ disk[B] = j /\ disk[c] = j
    BY <1>0, <1>9 DEF CommitCover, Goto, FilesInv, Filed, Stored, B, c
  <2>1. CASE pc' = [pc EXCEPT ![j] = "clean"] /\ disk' \in Moved(c, C)
    <3>1. Touch(j) /\ disk'[B] = j /\ disk'[C] = j
      BY <1>3, <1>4, <2>0, <2>1, MoveTouches
    <3>2. pc'[j] = "clean"
      BY <1>0, <2>1 DEF TypeInv
    <3>3. FilesInv(j)'
      BY <1>1, <1>3, <1>5, <1>6, <3>1, <3>2
         DEF FilesInv, Fresh, EarlyStages, Stored, Filed, Ended, b, B, c, C
    <3>4. QED
      BY <1>7, <2>1, <3>1, <3>3
  <2>2. CASE pc' = [pc EXCEPT ![j] = "restore"] /\ disk' \in MoveFailed(C)
    <3>1. Touch(j) /\ disk'[B] = j
      BY <1>3, <1>4, <2>0, <2>2, MoveTouches
    <3>2. pc'[j] = "restore"
      BY <1>0, <2>2 DEF TypeInv
    <3>3. FilesInv(j)'
      BY <1>1, <1>3, <1>5, <1>6, <3>1, <3>2
         DEF FilesInv, Fresh, EarlyStages, Stored, Filed, Ended, b, B, c, C
    <3>4. QED
      BY <1>7, <2>2, <3>1, <3>3
  <2>3. QED
    BY <1>9, <2>1, <2>2 DEF CommitCover, CoverFailure, Goto, c, C
<1>10. CASE RestoreBook(j)
  <2>0. pc[j] = "restore" /\ disk[B] = j
    BY <1>0, <1>10 DEF RestoreBook, Goto, FilesInv, Stored, B
  <2>1. pc' = [pc EXCEPT ![j] = "undo"] /\ disk' \in Moved(B, b) \union MoveFailed(b)
    BY <1>10 DEF RestoreBook, Goto, b, B
  <2>2. Touch(j)
    BY <1>3, <1>4, <2>0, <2>1, MoveTouches
  <2>3. pc'[j] = "undo"
    BY <1>0, <2>1 DEF TypeInv
  <2>4. FilesInv(j)'
    BY <1>1, <1>3, <1>6, <2>2, <2>3 DEF FilesInv, Fresh, EarlyStages, Stored, Filed, Ended
  <2>5. QED
    BY <1>7, <2>1, <2>2, <2>4
<1>11. QED
  BY <1>8, <1>9, <1>10

\* The end of a run whose row is in the catalog.
LEMMA EndSteps ==
    ASSUME IInv, NEW j \in Imports, CleanStaging(j) \/ UndoAdd(j)
    PROVE  Step(j)
<1>0. TypeInv /\ FilesInv(j) /\ RowInv(j) /\ CountInv /\ IdInv
  BY DEF IInv, RunInv
<1>1. call' = call /\ open' = open /\ call' = [call EXCEPT ![j] = call[j]] /\ call[j] \in W!Statuses
      /\ UNCHANGED <<id, nextId, stop>> /\ open' \in BOOLEAN
  BY <1>0 DEF CleanStaging, UndoAdd, W!TakeBack, catalog, TypeInv
<1>2. pc[j] \in {"clean", "undo"} /\ id[j] # NoId /\ j \in rows /\ j \notin keptRow /\ call[j] # "waiting"
  BY <1>0 DEF CleanStaging, UndoAdd, Goto, FilesInv, RowInv, EarlyStages, Ended, Stored
<1>3. CASE CleanStaging(j)
  <2>1. pc[j] = "clean" /\ pc' = [pc EXCEPT ![j] = "Imported"] /\ UNCHANGED <<keptRow, rows>>
        /\ RemoveFiles(j, StagingOf(j))
    BY <1>3 DEF CleanStaging, Goto, catalog
  <2>2. /\ Touch(j) /\ dirty' \in {dirty, dirty \union {j}}
        /\ \A p \in Paths \ StagingOf(j) : disk'[p] = disk[p]
    <3>1. StagingOf(j) \subseteq EveryPathOf(j)
      BY DEF StagingOf, EveryPathOf
    <3>2. QED
      BY <1>2, <2>1, <3>1, CleanupTouches
  <2>3. pc'[j] = "Imported"
    BY <1>0, <2>1 DEF TypeInv
  <2>4. disk'[Final(j, "book")] = j /\ (j \in Covered => disk'[Final(j, "cover")] = j)
    <3>1. \A part \in {"book", "cover"} : Final(j, part) \in Paths \ StagingOf(j)
      BY <1>0, <1>2, OwnPaths DEF Final, StagingOf
    <3>2. QED
      BY <1>0, <2>1, <2>2, <3>1 DEF FilesInv, Stored
  <2>5. \A p \in Paths : disk'[p] = j => p[1] = id[j]
    BY <1>0, <2>2 DEF Touch, FilesInv
  <2>6. FilesInv(j)'
    BY <1>1, <1>2, <2>3, <2>4, <2>5 DEF FilesInv, Fresh, EarlyStages, Stored, Filed, Ended, Final
  <2>7. RowInv(j)'
    BY <1>1, <1>2, <2>1, <2>3 DEF RowInv, Fresh, EarlyStages, Stored
  <2>8. QED
    BY <1>1, <2>1, <2>2, <2>6, <2>7, WriteStep DEF Ended
<1>4. CASE UndoAdd(j)
  <2>1. pc[j] = "undo" /\ UNCHANGED <<disk, dirty>>
    BY <1>4 DEF UndoAdd, Goto
  <2>2. Touch(j)
    BY <1>0, <2>1 DEF Touch, TypeInv
  <2>3. CASE /\ pc' = [pc EXCEPT ![j] = "rollback"] /\ rows' = rows \ {j} /\ keptRow' = keptRow
    <3>1. pc'[j] = "rollback"
      BY <1>0, <2>3 DEF TypeInv
    <3>2. FilesInv(j)'
      BY <1>0, <1>1, <1>2, <2>1, <3>1 DEF FilesInv, Fresh, EarlyStages, Stored, Filed, Ended
    <3>3. RowInv(j)'
      BY <1>1, <1>2, <2>3, <3>1 DEF RowInv, Fresh, EarlyStages, Stored
    <3>4. QED
      BY <1>1, <2>1, <2>2, <2>3, <3>2, <3>3, WriteStep DEF Stages
  <2>4. CASE /\ pc' = [pc EXCEPT ![j] = "Failed"] /\ rows' = rows /\ keptRow' = keptRow \union {j}
    <3>1. pc'[j] = "Failed"
      BY <1>0, <2>4 DEF TypeInv
    <3>2. FilesInv(j)'
      BY <1>0, <1>1, <1>2, <2>1, <2>4, <3>1 DEF FilesInv, Fresh, EarlyStages, Stored, Filed, Ended
    <3>3. RowInv(j)'
      BY <1>1, <1>2, <2>4, <3>1 DEF RowInv, Fresh, EarlyStages, Stored
    <3>4. QED
      BY <1>1, <2>1, <2>2, <2>4, <3>2, <3>3, WriteStep DEF Ended
  <2>5. QED
    BY <1>4, <2>3, <2>4 DEF UndoAdd, Goto, W!TakeBack, catalog
<1>5. QED
  BY <1>3, <1>4

\* All of them.
LEMMA RunSteps ==
    ASSUME IInv, NEW j \in Imports, Detect(j) \/ Run(j)
    PROVE  Step(j)
  BY EarlySteps, PrepareStep, GiveUpSteps, AddSteps, CommitSteps, EndSteps DEF Run

-----------------------------------------------------------------------------
(* The ids.                                                                *)

\* A step of a run takes an id at most once, and only while it may.
LEMMA RunMoves ==
    ASSUME IInv, NEW j \in Imports, Detect(j) \/ Run(j)
    PROVE  \E to \in Stages \union Ended :
              /\ pc[j] # "new" /\ to # "new" /\ pc' = [pc EXCEPT ![j] = to]
              /\ \/ /\ UNCHANGED <<id, nextId>>
                    /\ to \in EarlyStages => pc[j] \in EarlyStages
                 \/ /\ pc[j] = "accepted" /\ to = "planned" /\ nextId' = nextId + 1
                    /\ id' = [id EXCEPT ![j] = IF @ = NoId THEN nextId ELSE @]
<1> USE DEF Goto, Stages, Ended, EarlyStages, Unwritten, CommitStep
<1>1. CASE Detect(j)
  BY <1>1 DEF Detect
<1>2. CASE CheckDuplicates(j) \/ Convert(j)
  BY <1>2 DEF CheckDuplicates, Convert
<1>3. CASE ReserveId(j)
  BY <1>3 DEF ReserveId, AdvanceSequence
<1>4. CASE Prepare(j) \/ Submit(j) \/ AddDirectly(j)
  BY <1>4 DEF Prepare, Submit, AddDirectly
<1>5. CASE CancelPrepared(j) \/ PreparedFails(j) \/ AddDuplicate(j) \/ AddFails(j) \/ Rollback(j)
  BY <1>5 DEF CancelPrepared, PreparedFails, AddDuplicate, AddFails, Rollback, GiveUp
<1>6. CASE CommitBook(j) \/ CommitCover(j) \/ RestoreBook(j)
  BY <1>6 DEF CommitBook, CommitCover, CoverFailure, RestoreBook
<1>7. CASE CleanStaging(j) \/ UndoAdd(j)
  BY <1>7 DEF CleanStaging, UndoAdd
<1>8. QED
  BY <1>1, <1>2, <1>3, <1>4, <1>5, <1>6, <1>7 DEF Run

\* So the ids stay unique and are enough.
LEMMA RunCounts ==
    ASSUME IInv, NEW j \in Imports, Detect(j) \/ Run(j)
    PROVE  CountInv' /\ IdInv'
<1>0. TypeInv /\ CountInv /\ IdInv
  BY DEF IInv
<1>1. IsFiniteSet(Early) /\ Cardinality(Early) \in Nat /\ Cardinality(New) \in Nat /\ MaxId \in Nat
  BY <1>0, IdsInBounds, FS_Subset, ImportsAssumption DEF Early
<1>2. PICK to \in Stages \union Ended :
         /\ pc[j] # "new" /\ to # "new" /\ pc' = [pc EXCEPT ![j] = to]
         /\ \/ /\ UNCHANGED <<id, nextId>>
               /\ to \in EarlyStages => pc[j] \in EarlyStages
            \/ /\ pc[j] = "accepted" /\ to = "planned" /\ nextId' = nextId + 1
               /\ id' = [id EXCEPT ![j] = IF @ = NoId THEN nextId ELSE @]
  BY RunMoves
<1>3. New' = New
  BY <1>0, <1>2 DEF New, TypeInv
<1>4. CASE UNCHANGED <<id, nextId>> /\ (to \in EarlyStages => pc[j] \in EarlyStages)
  <2>1. Early' \subseteq Early
    BY <1>0, <1>2, <1>4 DEF Early, TypeInv
  <2>2. Cardinality(Early') <= Cardinality(Early) /\ Cardinality(Early') \in Nat
    BY <1>1, <2>1, FS_Subset, FS_CardinalityType
  <2>3. MaxId' = MaxId
    BY DEF MaxId
  <2>4. CountInv'
    BY <1>0, <1>1, <1>3, <1>4, <2>2, <2>3 DEF CountInv, TypeInv
  <2>5. IdInv'
    BY <1>0, <1>4 DEF IdInv
  <2>6. QED
    BY <2>4, <2>5
<1>5. CASE /\ pc[j] = "accepted" /\ to = "planned" /\ nextId' = nextId + 1
           /\ id' = [id EXCEPT ![j] = IF @ = NoId THEN nextId ELSE @]
  <2>1. Early' = Early \ {j} /\ j \in Early
    BY <1>0, <1>2, <1>5 DEF Early, EarlyStages, TypeInv
  <2>2. Cardinality(Early') = Cardinality(Early) - 1
    BY <1>1, <2>1, FS_RemoveElement
  <2>3. MaxId' = MaxId
    BY DEF MaxId
  <2>4. CountInv'
    BY <1>0, <1>1, <1>3, <1>5, <2>2, <2>3 DEF CountInv, TypeInv
  <2>5. \A i \in Imports : id'[i] = IF i = j /\ id[j] = NoId THEN nextId ELSE id[i]
    BY <1>0, <1>5 DEF TypeInv
  <2>6. IdInv'
    BY <1>0, <1>5, <2>5 DEF IdInv, TypeInv, NoId
  <2>7. QED
    BY <2>4, <2>6
<1>6. QED
  BY <1>2, <1>4, <1>5

\* The block of a batch job.
LEMMA ReserveIdsKeeps ==
    ASSUME IInv, ReserveIds
    PROVE  TypeInv' /\ CountInv' /\ IdInv' /\ RunInv'
<1>0. TypeInv /\ CountInv /\ IdInv /\ RunInv
  BY DEF IInv
<1>1. Cardinality(Batch) \in Nat /\ Cardinality(Early) \in Nat /\ MaxId \in Nat
  BY <1>0, IdsInBounds, FS_Subset, FS_CardinalityType, ImportsAssumption
<1>2. /\ \A i \in Batch : pc[i] = "new"
      /\ nextId' = nextId + Cardinality(Batch)
      /\ pc' = [i \in Imports |-> IF i \in Batch THEN "start" ELSE pc[i]]
      /\ UNCHANGED <<disk, dirty, keptRow, stop, catalog>>
      /\ Batch # {}
  BY DEF ReserveIds, AdvanceSequence
<1>3. PICK f \in [Batch -> nextId .. (nextId + Cardinality(Batch) - 1)] :
         /\ \A i, j \in Batch : f[i] = f[j] => i = j
         /\ id' = [i \in Imports |-> IF i \in Batch THEN f[i] ELSE id[i]]
  BY DEF ReserveIds
<1>4. \A i \in Batch : f[i] \in Nat /\ f[i] >= nextId /\ f[i] < nextId' /\ f[i] # NoId
  BY <1>0, <1>1, <1>2, <1>3 DEF TypeInv, NoId
<1>5. TypeInv'
  BY <1>0, <1>1, <1>2, <1>3, <1>4 DEF TypeInv, Stages, catalog
<1>6. CountInv'
  <2>1. New = Batch /\ New' = {} /\ Early' = Early
    BY <1>0, <1>2, ImportsAssumption DEF CountInv, New, Early, EarlyStages
  <2>2. Cardinality({}) = 0 /\ MaxId' = MaxId
    BY FS_EmptySet DEF MaxId
  <2>3. QED
    BY <1>0, <1>1, <1>2, <2>1, <2>2 DEF CountInv, TypeInv
<1>7. IdInv'
  <2>1. ASSUME NEW i \in Imports PROVE id'[i] < nextId'
    BY <1>0, <1>1, <1>2, <1>3, <1>4, <2>1 DEF IdInv, TypeInv
  <2>2. ASSUME NEW i \in Imports, NEW j \in Imports, id'[i] = id'[j], i # j PROVE id'[i] = NoId
    <3>1. CASE i \in Batch /\ j \in Batch
      BY <1>3, <2>2, <3>1
    <3>2. CASE i \notin Batch /\ j \notin Batch
      BY <1>0, <1>3, <2>2, <3>2 DEF IdInv
    <3>3. CASE (i \in Batch) # (j \in Batch)
      BY <1>0, <1>3, <1>4, <2>2, <3>3 DEF IdInv, TypeInv
    <3>4. QED
      BY <3>1, <3>2, <3>3
  <2>3. QED
    BY <2>1, <2>2 DEF IdInv
<1>8. RunInv'
  <2> SUFFICES ASSUME NEW i \in Imports PROVE FilesInv(i)' /\ RowInv(i)'
    BY DEF RunInv
  <2>0. FilesInv(i) /\ RowInv(i)
    BY <1>0 DEF RunInv
  <2>1. CASE i \in Batch
    <3>1. pc[i] = "new" /\ pc'[i] = "start"
      BY <1>2, <2>1
    <3>2. FilesInv(i)'
      BY <1>2, <2>0, <3>1 DEF FilesInv, Fresh, EarlyStages, Stored, Filed, Ended
    <3>3. RowInv(i)'
      BY <1>2, <2>0, <3>1 DEF RowInv, catalog, Fresh, EarlyStages, Stored
    <3>4. QED
      BY <3>2, <3>3
  <2>2. CASE i \notin Batch
    <3>1. pc'[i] = pc[i] /\ id'[i] = id[i]
      BY <1>2, <1>3, <2>2
    <3>2. FilesInv(i)'
      BY <1>2, <2>0, <3>1 DEF FilesInv, Staged, Final
    <3>3. RowInv(i)'
      BY <1>2, <2>0, <3>1 DEF RowInv, catalog
    <3>4. QED
      BY <3>2, <3>3
  <2>3. QED
    BY <2>1, <2>2
<1>9. QED
  BY <1>5, <1>6, <1>7, <1>8

-----------------------------------------------------------------------------
(* The writer, and the catalog.                                            *)

\* The writer's steps change rows and answers of calls that wait.
LEMMA WriterKeeps ==
    ASSUME IInv, Writer
    PROVE  TypeInv' /\ CountInv' /\ IdInv' /\ RunInv'
<1>0. TypeInv /\ CountInv /\ IdInv /\ RunInv
  BY DEF IInv
<1>1. UNCHANGED <<pc, id, nextId, disk, dirty, keptRow, stop>>
  BY DEF Writer
<1>2. CountInv' /\ IdInv'
  BY <1>0, <1>1 DEF CountInv, IdInv, New, Early, MaxId
<1>3. \A i \in Imports : FilesInv(i)'
  BY <1>0, <1>1 DEF RunInv, FilesInv, Staged, Final
<1>4. CASE WriterCommits
  <2>1. PICK S \in (SUBSET Batch) \ {{}} : W!Commit(S)
    BY <1>4 DEF WriterCommits
  <2>2. /\ S \subseteq {r \in Imports \ rows : call[r] = "waiting"}
        /\ rows' = rows \union S /\ call' = call /\ open' = open
    BY <2>1 DEF W!Commit
  <2>3. \A i \in Imports : RowInv(i)'
    BY <1>0, <1>1, <2>2 DEF RunInv, RowInv
  <2>4. TypeInv'
    BY <1>0, <1>1, <2>2 DEF TypeInv
  <2>5. QED
    BY <1>2, <1>3, <2>3, <2>4 DEF RunInv
<1>5. CASE WriterAnswers
  <2>1. PICK r \in Batch, a \in W!Answers : W!Answer(r, a)
    BY <1>5 DEF WriterAnswers
  <2>2. /\ call[r] = "waiting" /\ (a = "imported" <=> r \in rows) /\ r \in Imports
        /\ call' = [call EXCEPT ![r] = a] /\ rows' = rows /\ open' = open
    BY <2>1, ImportsAssumption DEF W!Answer
  <2>3. ASSUME NEW i \in Imports PROVE RowInv(i)'
    <3>1. CASE i = r
      <4>1. call'[i] = a /\ pc[i] = "adding"
        BY <1>0, <2>2, <3>1 DEF TypeInv, RunInv, RowInv
      <4>2. QED
        BY <1>0, <1>1, <2>1, <2>2, <3>1, <4>1
           DEF RunInv, RowInv, W!Answers, Fresh, EarlyStages, Stored
    <3>2. CASE i # r
      BY <1>0, <1>1, <2>2, <3>2 DEF TypeInv, RunInv, RowInv
    <3>3. QED
      BY <3>1, <3>2
  <2>4. TypeInv'
    BY <1>0, <1>1, <2>2 DEF TypeInv, W!Statuses
  <2>5. QED
    BY <1>2, <1>3, <2>3, <2>4 DEF RunInv
<1>6. CASE W!Close
  <2>1. call' = call /\ rows' = rows /\ open' = FALSE
    BY <1>6 DEF W!Close
  <2>2. TypeInv'
    BY <1>0, <1>1, <2>1 DEF TypeInv
  <2>3. \A i \in Imports : RowInv(i)'
    BY <1>0, <1>1, <2>1 DEF RunInv, RowInv
  <2>4. QED
    BY <1>2, <1>3, <2>2, <2>3 DEF RunInv
<1>7. QED
  BY <1>4, <1>5, <1>6 DEF Writer

\* Removing rows makes no duplicates, and adding those whose hash is free neither.
LEMMA HashesOfRows ==
    ASSUME NoStrictDuplicates, NEW S, rows' \subseteq rows \union S,
           \A r \in S : ~W!HashTaken(r, rows \union (S \ {r}))
    PROVE  NoStrictDuplicates'
<1> SUFFICES ASSUME NEW i \in rows', W!HashTaken(i, rows' \ {i}) PROVE FALSE
  BY DEF NoStrictDuplicates, W!HashTaken
<1>1. CASE i \in S
  BY <1>1 DEF W!HashTaken
<1>2. CASE i \in rows /\ i \notin S
  <2>1. PICK t \in rows' \ {i} : HashOf[t] = HashOf[i] /\ HashOf[i] # NoHash
    BY <1>2 DEF NoStrictDuplicates, W!HashTaken
  <2>2. CASE t \in rows
    BY <1>2, <2>1, <2>2 DEF NoStrictDuplicates, W!HashTaken
  <2>3. CASE t \in S
    BY <1>2, <2>1, <2>3 DEF W!HashTaken
  <2>4. QED
    BY <2>1, <2>2, <2>3
<1>3. QED
  BY <1>1, <1>2

\* No step makes a strict duplicate.
LEMMA DuplicatesNext == IInv /\ [Next]_vars => NoStrictDuplicates'
<1> SUFFICES ASSUME IInv, [Next]_vars PROVE NoStrictDuplicates'
  OBVIOUS
<1>0. NoStrictDuplicates
  BY DEF IInv
<1>1. ASSUME rows' \subseteq rows PROVE NoStrictDuplicates'
  BY <1>0, <1>1 DEF NoStrictDuplicates, W!HashTaken
<1>2. CASE ReserveIds \/ UNCHANGED vars \/ \E j \in Jobs : Stop(j)
  BY <1>1, <1>2 DEF ReserveIds, vars, catalog, Stop
<1>3. CASE Writer
  <2>1. CASE WriterCommits
    <3>1. PICK S \in SUBSET Batch : W!Commit(S)
      BY <2>1 DEF WriterCommits
    <3>2. rows' = rows \union S /\ \A r \in S : ~W!HashTaken(r, rows \union (S \ {r}))
      BY <3>1 DEF W!Commit
    <3>3. QED
      BY <1>0, <3>2, HashesOfRows
  <2>2. CASE WriterAnswers \/ W!Close
    BY <1>1, <2>2 DEF WriterAnswers, W!Answer, W!Close
  <2>3. QED
    BY <1>3, <2>1, <2>2 DEF Writer
<1>4. ASSUME NEW j \in Imports, Detect(j) \/ Run(j) PROVE NoStrictDuplicates'
  <2>1. CASE AddDirectly(j)
    <3>1. PICK a \in DirectAnswers(j) : rows' = IF a = "imported" THEN rows \union {j} ELSE rows
      BY <2>1 DEF AddDirectly
    <3>2. CASE a = "imported"
      <4>1. ~W!HashTaken(j, rows)
        BY <3>2 DEF DirectAnswers
      <4>2. rows \union ({j} \ {j}) = rows
        OBVIOUS
      <4>3. QED
        BY <1>0, <3>1, <3>2, <4>1, <4>2, HashesOfRows
    <3>3. CASE a # "imported"
      BY <1>1, <3>1, <3>3
    <3>4. QED
      BY <3>2, <3>3
  <2>2. CASE ~AddDirectly(j)
    <3>1. rows' = rows \/ rows' = rows \ {j}
      <4>1. CASE Detect(j) \/ CheckDuplicates(j) \/ ReserveId(j) \/ Convert(j) \/ Prepare(j) \/ Submit(j)
        BY <4>1 DEF Detect, CheckDuplicates, ReserveId, Convert, Prepare, Submit, Unwritten, catalog,
                    W!Accept
      <4>2. CASE CancelPrepared(j) \/ PreparedFails(j) \/ AddDuplicate(j) \/ AddFails(j) \/ Rollback(j)
        BY <4>2 DEF CancelPrepared, PreparedFails, AddDuplicate, AddFails, Rollback, GiveUp, catalog,
                    W!Refuse
      <4>3. CASE CommitBook(j) \/ CommitCover(j) \/ RestoreBook(j) \/ CleanStaging(j) \/ UndoAdd(j)
        BY <4>3 DEF CommitBook, CommitCover, RestoreBook, CleanStaging, UndoAdd, CommitStep, catalog,
                    W!TakeBack
      <4>4. QED
        BY <1>4, <2>2, <4>1, <4>2, <4>3 DEF Run
    <3>2. QED
      BY <1>1, <3>1
  <2>3. QED
    BY <2>1, <2>2
<1>5. QED
  BY <1>2, <1>3, <1>4 DEF Next

-----------------------------------------------------------------------------
(* The theorems.                                                           *)

\* Every step keeps the invariant.
LEMMA InvNext == IInv /\ [Next]_vars => IInv'
<1> SUFFICES ASSUME IInv, [Next]_vars PROVE IInv'
  OBVIOUS
<1>1. NoStrictDuplicates'
  BY DuplicatesNext
<1>2. CASE ReserveIds
  BY <1>1, <1>2, ReserveIdsKeeps DEF IInv
<1>3. CASE Writer
  BY <1>1, <1>3, WriterKeeps DEF IInv
<1>4. ASSUME NEW j \in Imports, Detect(j) \/ Run(j) PROVE IInv'
  BY <1>1, <1>4, RunSteps, StepKeeps, RunCounts DEF IInv, Step
<1>5. ASSUME UNCHANGED <<pc, id, nextId, disk, dirty, keptRow, catalog>>, stop' \in [Jobs -> BOOLEAN]
      PROVE  IInv'
  <2>1. TypeInv' /\ CountInv' /\ IdInv'
    BY <1>5 DEF IInv, TypeInv, CountInv, IdInv, New, Early, MaxId, catalog
  <2>2. \A i \in Imports : FilesInv(i)' /\ RowInv(i)'
    BY <1>5 DEF IInv, RunInv, FilesInv, RowInv, Staged, Final, catalog
  <2>3. QED
    BY <1>1, <2>1, <2>2 DEF IInv, RunInv
<1>6. CASE UNCHANGED vars
  BY <1>5, <1>6 DEF vars, IInv, TypeInv
<1>7. ASSUME NEW j \in Jobs, Stop(j) PROVE IInv'
  BY <1>5, <1>7 DEF Stop, IInv, TypeInv
<1>8. QED
  BY <1>2, <1>3, <1>4, <1>6, <1>7 DEF Next

\* The inductive invariant of the runs, their files and their rows.
THEOREM ImportsInvariance == Spec => []IInv
  BY InvInit, InvNext, PTL DEF Spec

\* The type invariant: no more ids are taken than two for each run.
THEOREM ImportsTypeCorrect == Spec => []TypeOK
<1>1. IInv => TypeOK
  BY IdsInBounds DEF IInv, TypeInv, TypeOK
<1>2. QED
  BY ImportsInvariance, <1>1, PTL

\* Of the files with one hash at most one has a row, for workers of a batch and
\* imports beside it.
THEOREM StrictDuplicatesRejected == Spec => []NoStrictDuplicates
<1>1. IInv => NoStrictDuplicates
  BY DEF IInv
<1>2. QED
  BY ImportsInvariance, <1>1, PTL

\* What Run returns is what it left in the catalog and on the disk.
THEOREM OutcomesAreTrue == Spec => []OutcomeIsTrue
<1>1. IInv => OutcomeIsTrue
  BY DEF IInv, RunInv, FilesInv, RowInv, OutcomeIsTrue, Stored, Ended
<1>2. QED
  BY ImportsInvariance, <1>1, PTL

\* Rows and managed files agree whenever the process stops, but for the gaps that
\* CatalogMatchesDisk names.
THEOREM CatalogAndDiskAgree == Spec => []CatalogMatchesDisk
<1>1. IInv => CatalogMatchesDisk
  <2> SUFFICES ASSUME IInv, NEW i \in Imports
               PROVE  /\ i \in rows => \/ disk[Final(i, "book")] = i
                                      \/ pc[i] \in {"adding", "undo"}
                                      \/ i \in keptRow
                      /\ id[i] # NoId /\ disk[Final(i, "book")] = i =>
                             i \in rows \/ pc[i] = "rollback" \/ i \in dirty
    BY DEF CatalogMatchesDisk
  <2>0. TypeInv /\ CountInv /\ IdInv /\ FilesInv(i) /\ RowInv(i)
    BY DEF IInv, RunInv
  <2>1. i \in rows => disk[Final(i, "book")] = i \/ pc[i] \in {"adding", "undo"} \/ i \in keptRow
    BY <2>0 DEF FilesInv, RowInv
  <2>2. ASSUME id[i] # NoId, disk[Final(i, "book")] = i
        PROVE  i \in rows \/ pc[i] = "rollback" \/ i \in dirty
    <3>1. Final(i, "book") \in Paths
      BY <2>0, <2>2, OwnPaths
    <3>2. pc[i] \notin Fresh \union Filed
      BY <2>0, <2>2, <3>1 DEF FilesInv
    <3>3. CASE pc[i] \in Stored \union {"undo", "rollback"}
      BY <2>0, <3>3 DEF RowInv
    <3>4. CASE pc[i] \in Ended \ {"Imported"}
      BY <2>0, <2>2, <3>1, <3>4 DEF FilesInv, RowInv
    <3>5. QED
      BY <2>0, <3>2, <3>3, <3>4 DEF TypeInv, Stages, Ended, Stored, Fresh, EarlyStages, Filed
  <2>3. QED
    BY <2>1, <2>2
<1>2. QED
  BY ImportsInvariance, <1>1, PTL

\* A book whose import has ended well keeps its row and its files, whatever other
\* runs add, move, take back or clean up.
THEOREM ImportedBooksStay == Spec => ImportedStays
<1>1. ASSUME IInv, [Next]_vars, NEW i \in Imports, pc[i] = "Imported"
      PROVE  /\ i \in rows'
             /\ disk'[Final(i, "book")] = disk[Final(i, "book")]
             /\ disk'[Final(i, "cover")] = disk[Final(i, "cover")]
  <2>0. TypeInv /\ CountInv /\ IdInv /\ i \in rows /\ id[i] # NoId
    BY <1>1 DEF IInv, RunInv, FilesInv, RowInv, Stored
  <2>1. CASE UNCHANGED <<disk, rows>>
    BY <2>0, <2>1
  <2>2. CASE ReserveIds \/ UNCHANGED vars \/ \E j \in Jobs : Stop(j)
    BY <2>1, <2>2 DEF ReserveIds, vars, catalog, Stop
  <2>3. CASE Writer
    BY <2>0, <2>3 DEF Writer, WriterCommits, WriterAnswers, W!Commit, W!Answer, W!Close
  <2>4. ASSUME NEW j \in Imports, Detect(j) \/ Run(j)
        PROVE  /\ i \in rows'
               /\ disk'[Final(i, "book")] = disk[Final(i, "book")]
               /\ disk'[Final(i, "cover")] = disk[Final(i, "cover")]
    <3>1. Step(j)
      BY <1>1, <2>4, RunSteps
    <3>2. i # j
      BY <1>1, <2>4 DEF Detect, Run, CheckDuplicates, ReserveId, Convert, Prepare, CancelPrepared,
            PreparedFails, Submit, AddDirectly, AddDuplicate, AddFails, CommitBook, CommitCover,
            RestoreBook, CleanStaging, UndoAdd, Rollback, GiveUp, Goto
    <3>3. i \in rows'
      BY <2>0, <3>1, <3>2 DEF Step
    <3>4. \A part \in {"book", "cover"} : Final(i, part) \in Paths /\ Final(i, part)[1] # id[j]
      BY <2>0, <3>2, OwnPaths DEF IdInv
    <3>5. QED
      BY <3>1, <3>3, <3>4 DEF Step, Touch
  <2>5. QED
    BY <1>1, <2>2, <2>3, <2>4 DEF Next
<1>2. IInv /\ [Next]_vars =>
        [\A i \in Imports : pc[i] = "Imported" =>
          /\ i \in rows'
          /\ disk'[Final(i, "book")] = disk[Final(i, "book")]
          /\ disk'[Final(i, "cover")] = disk[Final(i, "cover")]]_vars
  BY <1>1
<1>3. QED
  BY ImportsInvariance, <1>2, PTL DEF Spec, ImportedStays
=============================================================================
