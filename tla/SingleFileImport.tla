-------------------------- MODULE SingleFileImport --------------------------
(***************************************************************************)
(* CSingleFileImportCoordinator::Run with CManagedFileStorage: one book    *)
(* file on its way into the library.  The catalog row is written before    *)
(* the files are moved into place, so a failure in between has to take the *)
(* row back and clean up the disk.  The parallel workers of a batch write  *)
(* through the repository WriterContract describes and have an id reserved *)
(* for them; an import in SingleFile mode writes to SQLite directly.       *)
(***************************************************************************)
EXTENDS Naturals, FiniteSets

CONSTANTS
    Imports,         \* the runs of the coordinator
    Batch,           \* those run by the worker threads of one batch job
    Covered,         \* those whose book has a cover to store
    AllowProbable,   \* those with AllowProbableDuplicates
    HashOf, NoHash,  \* the SHA-256 of each file; NoHash when it has none
    TitleOf,         \* the normalized title and authors of each book
    CatalogHashes,   \* the books in the catalog before: their hashes
    CatalogTitles    \* and their titles

ASSUME ImportsAssumption ==
    /\ IsFiniteSet(Imports)
    /\ Batch \subseteq Imports
    /\ Covered \subseteq Imports
    /\ AllowProbable \subseteq Imports

VARIABLES
    pc,              \* where each run is, or the status it returned
    id,              \* PreReservedBookId, then reservedBookId
    nextId,          \* next_id of book_id_sequence
    disk,            \* whose bytes each managed path holds
    dirty,           \* runs whose best-effort cleanup left something behind
    keptRow,         \* runs whose Remove threw after a failed commit
    stop,            \* the stop token of each job
    call, rows, open \* the repository's promise, see WriterContract

W == INSTANCE WriterContract WITH Requests <- Imports, Forced <- {}

catalog == <<call, rows, open>>
vars    == <<pc, id, nextId, disk, dirty, keptRow, stop, catalog>>

MaxId   == 2 * Cardinality(Imports)      \* bound: no run takes more than two ids
Ids     == 1..MaxId
NoId    == 0
Paths   == Ids \X {"staged", "final"} \X {"book", "cover"}
Nothing == "nothing"                     \* no file at the path
Torn    == "torn"                        \* what a failed copy may leave

ASSUME DiskAssumption == {Nothing, Torn} \intersect Imports = {}

Ended   == {"Imported", "RejectedDuplicate", "Unsupported", "Failed", "Cancelled"}
Stages  == {"new", "start", "parsed", "accepted", "planned", "converted", "prepared",
            "adding", "cover", "restore", "clean", "undo", "rollback"}
Jobs    == {"batch", "single"}

Staged(i, part) == <<id[i], "staged", part>>
Final(i, part)  == <<id[i], "final", part>>

TypeOK ==
    /\ pc \in [Imports -> Stages \union Ended]
    /\ id \in [Imports -> Ids \union {NoId}]
    /\ nextId \in 1..(MaxId + 1)
    /\ disk \in [Paths -> Imports \union {Nothing, Torn}]
    /\ dirty \subseteq Imports
    /\ keptRow \subseteq Imports
    /\ stop \in [Jobs -> BOOLEAN]
    /\ call \in [Imports -> W!Statuses]
    /\ rows \subseteq Imports
    /\ open \in BOOLEAN

Init ==
    /\ pc = [i \in Imports |-> IF i \in Batch THEN "new" ELSE "start"]
    /\ id = [i \in Imports |-> NoId]
    /\ nextId = 1
    /\ disk = [p \in Paths |-> Nothing]
    /\ dirty = {}
    /\ keptRow = {}
    /\ stop = [j \in Jobs |-> FALSE]
    /\ W!Init

Stopped(i) == stop[IF i \in Batch THEN "batch" ELSE "single"]

Goto(i, from, to) ==
    /\ pc[i] = from
    /\ pc' = [pc EXCEPT ![i] = to]

-----------------------------------------------------------------------------
(* The disk.                                                               *)

\* MoveFile: a rename, or a copy whose source may be left behind.
Moved(from, to) ==
    LET copied == [disk EXCEPT ![to] = disk[from]]
    IN  {copied, [copied EXCEPT ![from] = Nothing]}

MoveFailed(to) == {disk, [disk EXCEPT ![to] = Torn]}

\* The cleanup of run i leaves some files behind, or none.
Residue(i, left) ==
    dirty' = IF left = {} THEN dirty ELSE dirty \union {i}

\* Best effort: any of the files in S may resist.
RemoveFiles(i, S) ==
    \E left \in SUBSET {p \in S : disk[p] # Nothing} :
        /\ Residue(i, left)
        /\ disk' = [p \in Paths |-> IF p \in S \ left THEN Nothing ELSE disk[p]]

StagingOf(i)   == {p \in Paths : p[1] = id[i] /\ p[2] = "staged"}
EveryPathOf(i) == {p \in Paths : p[1] = id[i]}

\* Mutant: the files already moved into place are left there.
RollbackStagingOnly(i) == RemoveFiles(i, StagingOf(i))

RollbackImport(i) == RemoveFiles(i, EveryPathOf(i))

-----------------------------------------------------------------------------
(* One run, up to the write.                                               *)

\* Mutant: the block is handed out and the sequence stays where it is.
BlockUnreserved(n) == nextId' = nextId

\* Mutant: the sequence is moved one past the block.
AdvanceOneMore(n) == nextId' = nextId + n + 1

AdvanceSequence(n) == nextId' = nextId + n

\* The batch job reserves an id for each candidate before a worker starts.
ReserveIds ==
    /\ Batch # {}
    /\ \A i \in Batch : pc[i] = "new"
    /\ AdvanceSequence(Cardinality(Batch))
    /\ \E f \in [Batch -> nextId..(nextId + Cardinality(Batch) - 1)] :
          /\ \A i, j \in Batch : f[i] = f[j] => i = j
          /\ id' = [i \in Imports |-> IF i \in Batch THEN f[i] ELSE id[i]]
    /\ pc' = [i \in Imports |-> IF i \in Batch THEN "start" ELSE pc[i]]
    /\ UNCHANGED <<disk, dirty, keptRow, stop, catalog>>

Unwritten == <<id, nextId, disk, dirty, keptRow, stop, catalog>>

Detect(i) ==
    /\ IF Stopped(i) THEN Goto(i, "start", "Cancelled")
       ELSE \E o \in {"Unsupported", "Failed", "parsed"} : Goto(i, "start", o)
    /\ UNCHANGED Unwritten

\* SameNormalizedTitleAndAuthors or SameIsbn: only what is in the catalog now.
ProbableDuplicate(i) ==
    TitleOf[i] \in CatalogTitles \union {TitleOf[j] : j \in rows}

Rejected(i) ==
    \/ W!HashTaken(i, rows)
    \/ i \notin AllowProbable /\ ProbableDuplicate(i)

CheckDuplicates(i) ==
    /\ \/ Goto(i, "parsed", "Failed")
       \/ Goto(i, "parsed", IF Stopped(i) THEN "Cancelled"
                            ELSE IF Rejected(i) THEN "RejectedDuplicate"
                            ELSE "accepted")
    /\ UNCHANGED Unwritten

\* value_or evaluates its argument: ReserveId runs for a pre-reserved id too.
ReserveId(i) ==
    \/ /\ Goto(i, "accepted", "planned")
       /\ AdvanceSequence(1)
       /\ id' = [id EXCEPT ![i] = IF @ = NoId THEN nextId ELSE @]
       /\ UNCHANGED <<disk, dirty, keptRow, stop, catalog>>
    \/ /\ Goto(i, "accepted", "Failed")
       /\ UNCHANGED Unwritten

\* Conversion policy, converter and cover: only a stop cancels.
Convert(i) ==
    /\ \/ Goto(i, "planned", "Failed")
       \/ Goto(i, "planned", IF Stopped(i) THEN "Cancelled" ELSE "converted")
    /\ UNCHANGED Unwritten

Prepare(i) ==
    /\ \/ /\ Goto(i, "converted", "prepared")
          /\ disk' = [p \in Paths |->
                IF p = Staged(i, "book") \/ (p = Staged(i, "cover") /\ i \in Covered) THEN i
                ELSE IF p \in StagingOf(i) THEN Nothing
                ELSE disk[p]]
          /\ UNCHANGED dirty
       \/ /\ Goto(i, "converted", "Failed")
          /\ \E torn \in SUBSET StagingOf(i) :
                /\ Residue(i, torn)
                /\ disk' = [p \in Paths |-> IF p \in torn THEN Torn
                                            ELSE IF p \in StagingOf(i) THEN Nothing
                                            ELSE disk[p]]
    /\ UNCHANGED <<id, nextId, keptRow, stop, catalog>>

\* The run gives up with files staged and no row in the catalog.
GiveUp(i, from, outcome) ==
    /\ Goto(i, from, outcome)
    /\ RollbackImport(i)
    /\ UNCHANGED <<id, nextId, keptRow, stop, catalog>>

CancelPrepared(i) == Stopped(i) /\ GiveUp(i, "prepared", "Cancelled")

\* file_size throws, or the repository takes no more writes.
PreparedFails(i) ==
    \/ GiveUp(i, "prepared", "Failed")
    \/ /\ i \in Batch
       /\ ~Stopped(i)
       /\ W!Refuse(i)
       /\ Goto(i, "prepared", "Failed")
       /\ RollbackImport(i)
       /\ UNCHANGED <<id, nextId, keptRow, stop>>

Submit(i) ==
    /\ i \in Batch
    /\ ~Stopped(i)
    /\ Goto(i, "prepared", "adding")
    /\ W!Accept(i)
    /\ UNCHANGED <<id, nextId, disk, dirty, keptRow, stop>>

\* Mutant: the transaction does not look for the hash again.
DirectAnswerUnchecked(i) == {"imported", "failed"}

DirectAnswers(i) ==
    {"failed", IF W!HashTaken(i, rows) THEN "duplicate" ELSE "imported"}

\* SingleFile mode: one IMMEDIATE transaction looks for the hash and inserts.
AddDirectly(i) ==
    /\ i \notin Batch
    /\ ~Stopped(i)
    /\ Goto(i, "prepared", "adding")
    /\ \E a \in DirectAnswers(i) :
          /\ call' = [call EXCEPT ![i] = a]
          /\ rows' = IF a = "imported" THEN rows \union {i} ELSE rows
    /\ UNCHANGED <<id, nextId, disk, dirty, keptRow, stop, open>>

-----------------------------------------------------------------------------
(* One run, from the answer of Add to its end.                             *)

AddDuplicate(i) ==
    /\ call[i] = "duplicate"
    /\ GiveUp(i, "adding", "RejectedDuplicate")

\* Mutant: what the writer aborts after a fatal error is not an answer.
AddFailsAlone(i) ==
    /\ call[i] = "failed"
    /\ GiveUp(i, "adding", "Failed")

AddFails(i) ==
    /\ call[i] \in {"failed", "aborted"}
    /\ GiveUp(i, "adding", "Failed")

CommitStep == UNCHANGED <<id, nextId, dirty, keptRow, stop, catalog>>

CommitBook(i) ==
    /\ call[i] = "imported"
    /\ \/ /\ Goto(i, "adding", IF i \in Covered THEN "cover" ELSE "clean")
          /\ disk' \in Moved(Staged(i, "book"), Final(i, "book"))
       \/ /\ Goto(i, "adding", "undo")
          /\ disk' \in MoveFailed(Final(i, "book"))
    /\ CommitStep

\* Mutant: a cover that cannot be moved does not fail the commit.
CoverFailsTo == "clean"

CoverFailure == "restore"

CommitCover(i) ==
    /\ \/ /\ Goto(i, "cover", "clean")
          /\ disk' \in Moved(Staged(i, "cover"), Final(i, "cover"))
       \/ /\ Goto(i, "cover", CoverFailure)
          /\ disk' \in MoveFailed(Final(i, "cover"))
    /\ CommitStep

\* The book goes back to staging; when that fails it stays where it is.
RestoreBook(i) ==
    /\ Goto(i, "restore", "undo")
    /\ disk' \in Moved(Final(i, "book"), Staged(i, "book"))
              \union MoveFailed(Staged(i, "book"))
    /\ CommitStep

CleanStaging(i) ==
    /\ Goto(i, "clean", "Imported")
    /\ RemoveFiles(i, StagingOf(i))
    /\ UNCHANGED <<id, nextId, keptRow, stop, catalog>>

\* The row is taken back before the files go; when Remove throws both stay.
UndoAdd(i) ==
    \/ /\ Goto(i, "undo", "rollback")
       /\ W!TakeBack(i)
       /\ UNCHANGED <<id, nextId, disk, dirty, keptRow, stop>>
    \/ /\ Goto(i, "undo", "Failed")
       /\ keptRow' = keptRow \union {i}
       /\ UNCHANGED <<id, nextId, disk, dirty, stop, catalog>>

Rollback(i) == GiveUp(i, "rollback", "Failed")

Run(i) ==
    \/ CheckDuplicates(i) \/ ReserveId(i) \/ Convert(i) \/ Prepare(i)
    \/ CancelPrepared(i) \/ PreparedFails(i) \/ Submit(i) \/ AddDirectly(i)
    \/ AddDuplicate(i) \/ AddFails(i) \/ CommitBook(i) \/ CommitCover(i)
    \/ RestoreBook(i) \/ CleanStaging(i) \/ UndoAdd(i) \/ Rollback(i)

-----------------------------------------------------------------------------
(* The repository's writer and the user.                                   *)

WriterCommits == \E S \in (SUBSET Batch) \ {{}} : W!Commit(S)

WriterAnswers == \E i \in Batch, a \in W!Answers : W!Answer(i, a)

Writer ==
    /\ WriterCommits \/ WriterAnswers \/ W!Close
    /\ UNCHANGED <<pc, id, nextId, disk, dirty, keptRow, stop>>

Stop(j) ==
    /\ ~stop[j]
    /\ stop' = [stop EXCEPT ![j] = TRUE]
    /\ UNCHANGED <<pc, id, nextId, disk, dirty, keptRow, catalog>>

Next ==
    \/ ReserveIds \/ Writer
    \/ \E i \in Imports : Detect(i) \/ Run(i)
    \/ \E j \in Jobs : Stop(j)

\* A worker that has begun is scheduled and the writer answers; candidates
\* that are not submitted after a stop never begin.
Spec ==
    /\ Init /\ [][Next]_vars
    /\ \A i \in Imports : WF_vars(Run(i))
    /\ WF_vars(WriterAnswers /\ Writer)

-----------------------------------------------------------------------------
(* Properties.                                                             *)

\* Whenever the process stops, a row of the catalog has its own book file at
\* the path it names, except between the write and the commit or its undoing,
\* and after a Remove that threw; and a book file at a final path has a row,
\* except while a rollback is on its way to it or could not remove it.
CatalogMatchesDisk ==
    \A i \in Imports :
        /\ i \in rows => \/ disk[Final(i, "book")] = i
                         \/ pc[i] \in {"adding", "undo"}
                         \/ i \in keptRow
        /\ id[i] # NoId /\ disk[Final(i, "book")] = i =>
               i \in rows \/ pc[i] = "rollback" \/ i \in dirty

\* What a run reports is what it left: an imported book has its row, its file
\* and its cover; any other end has no row, and nothing on the disk that a
\* cleanup did not fail to remove.
OutcomeIsTrue ==
    \A i \in Imports :
        /\ pc[i] = "Imported" =>
              /\ i \in rows
              /\ disk[Final(i, "book")] = i
              /\ i \in Covered => disk[Final(i, "cover")] = i
        /\ pc[i] \in Ended \ {"Imported"} =>
              /\ i \in rows => i \in keptRow
              /\ \A p \in Paths : disk[p] = i => i \in dirty \union keptRow

\* Nothing a concurrent run does touches the row or the files of a book whose
\* import has ended well: no run removes, overwrites or empties another's
\* managed directory, which is named after the reserved id.
ImportedStays ==
    [][\A i \in Imports : pc[i] = "Imported" =>
          /\ i \in rows'
          /\ disk'[Final(i, "book")] = disk[Final(i, "book")]
          /\ disk'[Final(i, "cover")] = disk[Final(i, "cover")]]_vars

\* Strict duplicates stay rejected, whatever the duplicate check of a run saw
\* before other runs wrote: of the files with one hash at most one has a row.
NoStrictDuplicates ==
    \A i \in rows : ~W!HashTaken(i, rows \ {i})

\* Every run that has begun returns, also when the repository closes or the
\* job is cancelled under it.
RunReturns ==
    \A i \in Imports : pc[i] = "parsed" ~> pc[i] \in Ended

\* A failed commit does not leave a visible broken entry: when the row could
\* not be taken back its file is there.
RowKeepsItsFile ==
    \A i \in keptRow : pc[i] = "Failed" => disk[Final(i, "book")] = i

\* Without the user's opt-in no book becomes a second record of one title and
\* authors.
ProbableNeedsOptIn ==
    \A i, j \in rows : TitleOf[i] = TitleOf[j] /\ i # j =>
        i \in AllowProbable \/ j \in AllowProbable
=============================================================================
