-------------------------- MODULE LibraryFilesProofs --------------------------
(***************************************************************************)
(* Theorems about LibraryFiles, for every file that may be stored for the  *)
(* book and every size of a chunk.                                         *)
(***************************************************************************)
EXTENDS LibraryFiles, TLAPS

-----------------------------------------------------------------------------
(* The inductive invariants: one for the book, one for what the user is    *)
(* told of it, one for the file of the user's choice.                      *)

\* The Recycle Bin and the rollback touch files only when the row is gone.
BookInv ==
    /\ place \in [Parts -> Places]
    /\ row \in BOOLEAN
    /\ step = "recycle" => ~row
    /\ rollback \in {"files", "bookFile"} => ~row
    /\ BookNeverLost

Told == {"recycleBin", "managedTrash"}

\* What was found is staged before the row goes, and nothing more happens to a
\* book the user has been told is in the trash.
ToldInv ==
    /\ found \subseteq Parts
    /\ staged \in Seq(Parts)
    /\ step = "recycle" => \A p \in found : Contains(staged, p)
    /\ result.kind \in Told => step = "idle" /\ ~row
    /\ TrashIsTold

Whole == {"old", "book", "stranger"}

\* There is a whole file to put in place before the one in the way is set aside,
\* and it is in place before that one is removed.
ExportInv ==
    /\ dest \in Whole \union {NoFile}
    /\ backups \subseteq Whole
    /\ chosen \in {NoFile, "old"}
    /\ step \in {"prepared", "place"} => temp \in {"book", "stranger"}
    /\ step = "tidy" => dest \in {"book", "stranger"}
    /\ ChosenFileKept

-----------------------------------------------------------------------------
(* The book.                                                               *)

\* The book's invariant holds at the start.
LEMMA BookInit == Init => BookInv
  BY DEF Init, BookInv, BookNeverLost, Parts, Places

\* Every step keeps the book's invariant.
LEMMA BookNext == BookInv /\ [Next]_vars => BookInv'
<1> SUFFICES ASSUME BookInv, [Next]_vars PROVE BookInv'
  OBVIOUS
<1> USE DEF BookInv, BookNeverLost, Parts, Places
<1>1. CASE TrashBook
  BY <1>1 DEF TrashBook, Answer, catalogState
<1>2. CASE Resolve
  BY <1>2 DEF Resolve, catalogState
<1>3. CASE Stage
  <2>1. NextPart \in Parts
    BY <1>3 DEF Stage, NextPart
  <2>2. QED
    BY <1>3, <2>1 DEF Stage
<1>4. CASE RemoveRow
  <2>1. CASE row' = FALSE
    BY <1>4, <2>1 DEF RemoveRow
  <2>2. CASE row' = row /\ step' = "restore"
    BY <1>4, <2>2 DEF RemoveRow
  <2>3. QED
    BY <1>4, <2>1, <2>2 DEF RemoveRow, AfterFailedRemove
<1>5. CASE Restore
  BY <1>5 DEF Restore, Answer
<1>6. CASE Recycle
  <2>1. row' = row /\ ~row /\ rollback' = rollback /\ step' = "idle"
    BY <1>6 DEF Recycle, Answer
  <2>2. place' \in [Parts -> Places]
    BY <1>6 DEF Recycle
  <2>3. QED
    BY <2>1, <2>2
<1>7. CASE BeginExport
  BY <1>7 DEF BeginExport, Answer, catalogState
<1>8. CASE Decode
  BY <1>8 DEF Decode, Answer, catalogState
<1>9. CASE Convert
  BY <1>9 DEF Convert, Answer, catalogState
<1>10. CASE SetAside
  BY <1>10 DEF SetAside, Answer, catalogState
<1>11. CASE Place
  BY <1>11 DEF Place, Answer, catalogState
<1>12. CASE Tidy
  BY <1>12 DEF Tidy, Answer, catalogState
<1>13. CASE RollbackRow
  <2>1. CASE row' = FALSE
    BY <1>13, <2>1 DEF RollbackRow, Request
  <2>2. CASE row' = row /\ rollback' = "none"
    BY <1>13, <2>2 DEF RollbackRow, Request
  <2>3. QED
    BY <1>13, <2>1, <2>2 DEF RollbackRow
<1>14. ASSUME NEW p \in Parts, RollbackFiles(p) PROVE BookInv'
  <2>1. row' = row /\ ~row /\ step' = step
    BY <1>14 DEF RollbackFiles, Request
  <2>2. place' \in [Parts -> Places]
    BY <1>14 DEF RollbackFiles
  <2>3. QED
    BY <2>1, <2>2
<1>15. CASE Kill
  BY <1>15 DEF Kill, catalogState
<1>16. CASE UNCHANGED vars
  BY <1>16 DEF vars, catalogState
<1>17. QED
  BY <1>1, <1>2, <1>3, <1>4, <1>5, <1>6, <1>7, <1>8, <1>9, <1>10, <1>11, <1>12, <1>13, <1>14,
     <1>15, <1>16 DEF Next

\* MoveBookToTrash, ExportBook and the rollback together never leave a row without
\* a file it could be restored from, whatever fails and wherever the host is killed.
THEOREM BookIsNeverLost == Spec => []BookNeverLost
<1>1. BookInv => BookNeverLost
  BY DEF BookInv
<1>2. QED
  BY BookInit, BookNext, <1>1, PTL DEF Spec

-----------------------------------------------------------------------------
(* What the user is told.                                                  *)

\* The invariant of the answers holds at the start.
LEMMA ToldInit == Init => ToldInv
  BY DEF Init, ToldInv, Told, TrashIsTold, Parts

\* Steps that change none of what the invariant relates.
LEMMA ToldStutter ==
    ASSUME ToldInv, UNCHANGED <<place, row, found, staged, result, step>>
    PROVE  ToldInv'
  BY DEF ToldInv, Told, TrashIsTold, Contains

\* Steps of a request that end with an answer of another kind, or with none, and
\* keep what has been found and staged.
LEMMA ToldOther ==
    ASSUME ToldInv, step' # "recycle",
           UNCHANGED <<found, staged>> \/ (found' = {} /\ staged' = <<>>),
           result'.kind \notin Told
    PROVE  ToldInv'
<1>1. TrashIsTold'
  BY DEF Told, TrashIsTold
<1>2. found' \subseteq Parts
  BY DEF ToldInv
<1>3. staged' \in Seq(Parts)
  <2>1. CASE staged' = staged
    BY <2>1 DEF ToldInv
  <2>2. CASE staged' = <<>>
    BY <2>2
  <2>3. QED
    BY <2>1, <2>2
<1>4. QED
  BY <1>1, <1>2, <1>3 DEF ToldInv

\* Every step keeps the invariant of the answers.
LEMMA ToldNext == BookInv /\ ToldInv /\ [Next]_vars => ToldInv'
<1> SUFFICES ASSUME BookInv, ToldInv, [Next]_vars PROVE ToldInv'
  OBVIOUS
<1> USE DEF Told
<1>0. step # "idle" => result.kind \notin Told
  BY DEF ToldInv
<1>1. CASE TrashBook
  BY <1>1, <1>0, ToldOther DEF TrashBook, Answer, ToldInv
<1>2. CASE Resolve
  <2>1. step' = "stage" /\ result' = result /\ result.kind \notin Told /\ staged' = staged
    BY <1>2, <1>0 DEF Resolve
  <2>2. found' \subseteq Parts
    BY <1>2 DEF Resolve
  <2>3. TrashIsTold'
    BY <2>1 DEF TrashIsTold
  <2>4. QED
    BY <2>1, <2>2, <2>3 DEF ToldInv
<1>3. CASE Stage
  <2>1. step' # "recycle" /\ result' = result /\ result.kind \notin Told /\ found' = found
    BY <1>3, <1>0 DEF Stage
  <2>2. staged' \in Seq(Parts)
    <3>1. NextPart \in Parts
      BY <1>3 DEF Stage, NextPart, Parts
    <3>2. QED
      BY <1>3, <3>1 DEF Stage, ToldInv
  <2>3. TrashIsTold'
    BY <2>1 DEF TrashIsTold
  <2>4. QED
    BY <2>1, <2>2, <2>3 DEF ToldInv
<1>4. CASE RemoveRow
  <2>1. UNCHANGED <<found, staged, result>> /\ result.kind \notin Told
    BY <1>4, <1>0 DEF RemoveRow
  <2>2. \A p \in found : Contains(staged, p)
    BY <1>4 DEF RemoveRow, NextPart, ToldInv, Parts
  <2>3. TrashIsTold'
    BY <2>1 DEF TrashIsTold
  <2>4. QED
    BY <2>1, <2>2, <2>3 DEF ToldInv, Contains
<1>5. CASE Restore
  <2>1. step' # "recycle" /\ result'.kind \notin Told /\ found' = found
    BY <1>5, <1>0 DEF Restore, Answer
  <2>2. staged' \in Seq(Parts)
    BY <1>5 DEF Restore, ToldInv, Front
  <2>3. TrashIsTold'
    BY <2>1 DEF TrashIsTold
  <2>4. QED
    BY <2>1, <2>2, <2>3 DEF ToldInv
<1>6. CASE Recycle
  <2>1. step' = "idle" /\ UNCHANGED <<row, found, staged>> /\ ~row
    BY <1>6 DEF Recycle, Answer, BookInv
  <2>2. ASSUME found = Parts, NEW p \in Parts
        PROVE  p \in ToSet(staged) /\ \E n \in DOMAIN staged : staged[n] = p
    BY <1>6, <2>2 DEF Recycle, ToldInv, Contains, ToSet
  <2>3. TrashIsTold'
    <3>1. CASE staged = <<>>
      BY <1>6, <3>1 DEF Recycle, Answer, TrashIsTold
    <3>2. ASSUME staged # <<>>, NEW taken \in SUBSET ToSet(staged), NEW failed \in BOOLEAN,
                 failed \/ taken = ToSet(staged),
                 place' = [p \in Parts |-> IF p \in taken THEN "bin" ELSE place[p]],
                 result' = IF failed
                           THEN [kind |-> "managedTrash", orphans |-> Orphaned(place')]
                           ELSE [kind |-> "recycleBin", orphans |-> found # Parts]
          PROVE  TrashIsTold'
      <4>1. CASE failed
        <5>1. ASSUME ~Orphaned(place') PROVE \A p \in Parts : place'[p] = "trash"
          BY <2>2, <5>1 DEF Orphaned
        <5>2. QED
          BY <3>2, <4>1, <5>1 DEF TrashIsTold
      <4>2. CASE ~failed
        <5>1. ASSUME found = Parts PROVE \A p \in Parts : place'[p] = "bin"
          BY <2>2, <3>2, <4>2, <5>1
        <5>2. QED
          BY <3>2, <4>2, <5>1 DEF TrashIsTold
      <4>3. QED
        BY <4>1, <4>2
    <3>3. QED
      BY <1>6, <3>1, <3>2 DEF Recycle, Answer
  <2>4. QED
    BY <2>1, <2>3 DEF ToldInv
<1>7. CASE BeginExport
  <2>1. CASE UNCHANGED result
    BY <1>7, <1>0, <2>1, ToldOther DEF BeginExport, Answer, ToldInv, trashState
  <2>2. CASE result' \in {[kind |-> "notFound"], [kind |-> "failed"]}
    BY <1>7, <2>2, ToldOther DEF BeginExport, Answer, trashState
  <2>3. QED
    BY <1>7, <2>1, <2>2 DEF BeginExport, Answer
<1>8. CASE Decode
  BY <1>8, <1>0, ToldOther DEF Decode, Answer, trashState
<1>9. CASE Convert
  BY <1>9, <1>0, ToldOther DEF Convert, Answer, trashState
<1>10. CASE SetAside
  BY <1>10, <1>0, ToldOther DEF SetAside, Answer, trashState
<1>11. CASE Place
  BY <1>11, <1>0, ToldOther DEF Place, Answer, trashState
<1>12. CASE Tidy
  BY <1>12, <1>0, ToldOther DEF Tidy, Answer, trashState
<1>13. CASE RollbackRow
  <2>1. UNCHANGED <<place, found, staged, result, step>> /\ (row' = row \/ row' = FALSE)
    BY <1>13 DEF RollbackRow, Request, trashState
  <2>2. QED
    BY <2>1 DEF ToldInv, TrashIsTold, Contains
<1>14. ASSUME NEW p \in Parts, RollbackFiles(p) PROVE ToldInv'
  <2>1. UNCHANGED <<row, found, staged, result, step>>
    BY <1>14 DEF RollbackFiles, Request, trashState
  <2>2. CASE UNCHANGED place
    BY <2>1, <2>2, ToldStutter
  <2>3. CASE place[p] = "objects"
    <3>1. TrashIsTold'
      BY <2>1, <2>3 DEF TrashIsTold, ToldInv
    <3>2. QED
      BY <2>1, <3>1 DEF ToldInv, Contains
  <2>4. QED
    BY <1>14, <2>2, <2>3 DEF RollbackFiles
<1>15. CASE Kill
  BY <1>15, ToldOther DEF Kill, trashState
<1>16. CASE UNCHANGED vars
  BY <1>16, ToldStutter DEF vars, catalogState, trashState
<1>17. QED
  BY <1>1, <1>2, <1>3, <1>4, <1>5, <1>6, <1>7, <1>8, <1>9, <1>10, <1>11, <1>12, <1>13, <1>14,
     <1>15, <1>16 DEF Next

\* The answer of MoveBookToTrash is true of every file of the book, and stays so
\* while the rollback of the book's import goes on beside it.
THEOREM TrashAnswerIsTrue == Spec => []TrashIsTold
<1>1. ToldInv => TrashIsTold
  BY DEF ToldInv
<1>2. QED
  BY BookInit, BookNext, ToldInit, ToldNext, <1>1, PTL DEF Spec

-----------------------------------------------------------------------------
(* The file of the user's choice.                                          *)

\* The invariant of the export holds at the start.
LEMMA ExportInit == Init => ExportInv
  BY DEF Init, ExportInv, ChosenFileKept, Whole, NoFile

\* Every step keeps the invariant of the export.
LEMMA ExportNext == ExportInv /\ [Next]_vars => ExportInv'
<1> SUFFICES ASSUME ExportInv, [Next]_vars PROVE ExportInv'
  OBVIOUS
<1> USE DEF ExportInv, ChosenFileKept, Whole, NoFile
<1>1. CASE TrashBook
  BY <1>1 DEF TrashBook, Answer, exportState
<1>2. CASE Resolve
  BY <1>2 DEF Resolve, exportState
<1>3. CASE Stage
  BY <1>3 DEF Stage, exportState
<1>4. CASE RemoveRow
  BY <1>4 DEF RemoveRow, AfterFailedRemove, exportState
<1>5. CASE Restore
  BY <1>5 DEF Restore, Answer, exportState
<1>6. CASE Recycle
  BY <1>6 DEF Recycle, Answer, exportState
<1>7. CASE BeginExport
  BY <1>7 DEF BeginExport, Answer, exportState
<1>8. CASE Decode
  BY <1>8 DEF Decode, Answer
<1>9. CASE Convert
  BY <1>9 DEF Convert, Answer
<1>10. CASE SetAside
  BY <1>10 DEF SetAside, Backup, Answer
<1>11. CASE Place
  BY <1>11 DEF Place, Answer
<1>12. CASE Tidy
  BY <1>12 DEF Tidy, Answer
<1>13. CASE RollbackRow
  BY <1>13 DEF RollbackRow, Request, exportState
<1>14. ASSUME NEW p \in Parts, RollbackFiles(p) PROVE ExportInv'
  BY <1>14 DEF RollbackFiles, Request, exportState
<1>15. CASE Kill
  BY <1>15 DEF Kill, exportState
<1>16. CASE UNCHANGED vars
  BY <1>16 DEF vars, exportState
<1>17. QED
  BY <1>1, <1>2, <1>3, <1>4, <1>5, <1>6, <1>7, <1>8, <1>9, <1>10, <1>11, <1>12, <1>13, <1>14,
     <1>15, <1>16 DEF Next

\* ReplaceDestinationWithPreparedFile never leaves the user with neither the file
\* that was in the way nor a whole new one.
THEOREM ChosenFileIsKept == Spec => []ChosenFileKept
<1>1. ExportInv => ChosenFileKept
  BY DEF ExportInv
<1>2. QED
  BY ExportInit, ExportNext, <1>1, PTL DEF Spec
=============================================================================
