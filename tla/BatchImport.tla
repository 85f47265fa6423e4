----------------------------- MODULE BatchImport -----------------------------
(***************************************************************************)
(* CLibraryImportFacade::Run with CImportRollbackService: the sources of   *)
(* one import job are worked through in order, neighbouring files by a     *)
(* pool of workers, an archive by the workers of its own coordinator, a    *)
(* lone file by the job's thread.  A job that was cancelled, or whose      *)
(* writer broke, takes its books back and compacts the catalog.  A worker  *)
(* is SingleFileImport seen from outside: it writes through the repository *)
(* of WriterContract and either leaves a row with its file or neither.     *)
(* That the coordinator of an archive comes to its end is assumed here; it *)
(* is looked into in ZipImport.                                            *)
(***************************************************************************)
EXTENDS Naturals, Sequences, SequencesExt, FiniteSets

CONSTANTS
    Books,           \* the importable entries of all sources
    Archives,        \* the ZIP sources
    EntriesOf,       \* the entries of each archive, in archive order
    Workloads,       \* what jobs are asked for: [candidates, oneSource]
    HashOf, NoHash, CatalogHashes,    \* see WriterContract
    Shelf,           \* the books in the catalog before
    Permits          \* slots of the semaphore inFlight

\* An archive stands for its entries, any other source for itself.
EntriesIn(source) == IF source \in Archives THEN Range(EntriesOf[source]) ELSE {source}

\* Every entry of a job is a book of its own.
ASSUME BatchAssumption ==
    /\ Permits \in Nat \ {0}
    /\ IsFiniteSet(Books) /\ Books \intersect (Archives \union Shelf) = {}
    /\ \A a \in Archives : EntriesOf[a] \in Seq(Books) /\ IsInjective(EntriesOf[a])
    /\ \A w \in Workloads :
          /\ w.candidates \in Seq(Books \union Archives) /\ w.oneSource \in BOOLEAN
          /\ \A m, n \in DOMAIN w.candidates :
                m # n => EntriesIn(w.candidates[m]) \intersect EntriesIn(w.candidates[n]) = {}

VARIABLES
    work,            \* the request and the candidates it expanded to
    next,            \* sourceIndex
    phase,           \* the place of the job's thread in Run
    seg, sent,       \* the entries of the current source, how many were begun
    at,              \* where the importer of each entry is
    result,          \* its status
    queue, pending,  \* progressEvents; submittedCount - completedCount
    slots,           \* permits left in inFlight
    tally,           \* Summary's Imported-, Failed- and SkippedEntries
    ids,             \* ImportedBookIds
    cancelled,       \* WasCancelled
    fatal, hadFatal, \* the writer's fatal error, and the facade's copy of it
    stop,            \* the job's stop token
    todo,            \* the books the current loop of the rollback has still to do
    lost,            \* unreachableIds and removalFailedIds
    residue,         \* HasRollbackCleanupResidue
    kept,            \* failed imports whose row could not be taken back
    hidden,          \* books of an archive whose Run threw
    files,           \* books whose managed file is in place
    index,           \* books in search_index
    call, rows, open \* the repository's promise, see WriterContract

W == INSTANCE WriterContract WITH Requests <- Books, Forced <- {}

catalog  == <<call, rows, open>>
job      == <<work, next, seg, sent>>
workers  == <<at, result, queue, pending, slots>>
summary  == <<tally, ids, cancelled, hadFatal, hidden>>
rollback == <<todo, lost, residue>>
store    == <<kept, files, index>>
vars     == <<phase, job, workers, summary, rollback, store, catalog, fatal, stop>>

Skips    == {"RejectedDuplicate", "UnsupportedFormat"}
Outcomes == {"Imported", "Failed", "Cancelled"} \union Skips
Returned == {"returned", "uncompacted"}
Over     == Returned \union {"threw"}
Phases   == {"loop", "submit", "acquire", "await", "unwind", "sequential", "inline", "drain",
             "judge", "lookup", "delete", "fallback", "cleanup", "compact", "rebuild",
             "optimize"} \union Over

TypeOK ==
    /\ work \in Workloads
    /\ next \in 1..(Len(work.candidates) + 1)
    /\ phase \in Phases
    /\ seg \in Seq(Books) /\ sent \in 0..Len(seg)
    /\ at \in [Books -> {"idle", "running", "writing", "publishing", "leaving", "ended"}]
    /\ result \in [Books -> Outcomes \union {"none"}]
    /\ queue \in Seq(Books) /\ pending \in Nat
    /\ slots \in 0..Permits
    /\ tally \in [{"imported", "failed", "skipped"} -> Nat]
    /\ ids \in Seq(Books)
    /\ {todo, lost, kept, hidden, files} \subseteq SUBSET Books
    /\ index \subseteq Books \union Shelf
    /\ {cancelled, fatal, hadFatal, stop, residue} \subseteq BOOLEAN
    /\ call \in [Books -> W!Statuses] /\ rows \subseteq Books /\ open \in BOOLEAN

Init ==
    /\ work \in Workloads
    /\ next = 1 /\ phase = "loop" /\ seg = <<>> /\ sent = 0
    /\ at = [b \in Books |-> "idle"] /\ result = [b \in Books |-> "none"]
    /\ queue = <<>> /\ pending = 0 /\ slots = Permits
    /\ tally = [imported |-> 0, failed |-> 0, skipped |-> 0]
    /\ ids = <<>> /\ cancelled = FALSE /\ hadFatal = FALSE /\ hidden = {}
    /\ todo = {} /\ lost = {} /\ residue = FALSE
    /\ kept = {} /\ files = {} /\ index = Shelf
    /\ fatal = FALSE /\ stop = FALSE
    /\ W!Init

-----------------------------------------------------------------------------
(* The request.                                                            *)

\* DetermineImportMode
Mode ==
    IF ~work.oneSource \/ Len(work.candidates) # 1 THEN "Batch"
    ELSE IF work.candidates[1] \in Archives THEN "ZipArchive" ELSE "SingleFile"

FromArchive == next > 1 /\ work.candidates[next - 1] \in Archives

\* Candidates m to n are files, and the next one is an archive.
FilesOnly(m, n) ==
    /\ \A k \in m..n : work.candidates[k] \notin Archives
    /\ n < Len(work.candidates) => work.candidates[n + 1] \in Archives

Begun      == SubSeq(seg, 1, sent)
OfBegun(S) == {b \in Range(Begun) : result[b] \in S}

Count(imported, failed, skipped) ==
    tally' = [imported |-> tally.imported + imported,
              failed   |-> tally.failed + failed,
              skipped  |-> tally.skipped + skipped]

\* BuildSingleFileProgressEvent and ApplyProgressEvent
CountOne(b) ==
    Count(IF result[b] = "Imported" THEN 1 ELSE 0,
          IF result[b] = "Failed" THEN 1 ELSE 0,
          IF result[b] \in Skips \union {"Cancelled"} THEN 1 ELSE 0)

-----------------------------------------------------------------------------
(* The main loop of Run.                                                   *)

More == next <= Len(work.candidates) /\ ~hadFatal /\ ~stop

NextArchive ==
    LET source == work.candidates[next]
    IN  /\ More /\ source \in Archives
        /\ seg' = EntriesOf[source]
        /\ next' = next + 1
        /\ phase' = "submit"

NextFiles ==
    \E last \in next..Len(work.candidates) :
        /\ More /\ FilesOnly(next, last)
        /\ seg' = SubSeq(work.candidates, next, last)
        /\ next' = last + 1
        /\ phase' = IF Mode = "Batch" /\ next < last THEN "submit" ELSE "sequential"

NextSource ==
    /\ phase = "loop"
    /\ \/ (NextArchive \/ NextFiles) /\ sent' = 0 /\ UNCHANGED work
       \/ ~More /\ phase' = "drain" /\ UNCHANGED job
    /\ UNCHANGED <<workers, summary, rollback, store, catalog, fatal, stop>>

\* ReserveIds for the files of the segment throws: nothing in Run catches it.
ReserveIdsThrows ==
    /\ phase = "submit" /\ ~FromArchive /\ sent = 0
    /\ phase' = "threw"
    /\ UNCHANGED <<job, workers, summary, rollback, store, catalog, fatal, stop>>

Admit ==
    /\ phase = "submit" /\ sent < Len(seg) /\ ~stop
    /\ phase' = "acquire"
    /\ UNCHANGED <<job, workers, summary, rollback, store, catalog, fatal, stop>>

Submit ==
    /\ phase = "acquire" /\ slots > 0
    /\ phase' = "submit"
    /\ slots' = slots - 1
    /\ sent' = sent + 1
    /\ pending' = pending + 1
    /\ at' = [at EXCEPT ![seg[sent + 1]] = "running"]
    /\ UNCHANGED <<work, next, seg, result, queue, summary, rollback, store, catalog,
                   fatal, stop>>

StopSubmitting ==
    /\ phase = "submit"
    /\ sent = Len(seg) \/ stop
    /\ phase' = "await"
    /\ UNCHANGED <<job, workers, summary, rollback, store, catalog, fatal, stop>>

\* An archive counts its entries only when it returns.
ApplyEvent ==
    /\ phase \in {"submit", "await"} /\ queue # <<>>
    /\ LET b == Head(queue)
       IN  IF FromArchive THEN UNCHANGED <<tally, cancelled>>
           ELSE /\ CountOne(b)
                /\ cancelled' = (cancelled \/ result[b] = "Cancelled")
    /\ queue' = Tail(queue)
    /\ pending' = pending - 1
    /\ UNCHANGED <<phase, job, at, result, slots, ids, hadFatal, hidden, rollback, store,
                   catalog, fatal, stop>>

\* Every future is waited for before its result is read.
WorkersDone == pending = 0 /\ \A b \in Range(Begun) : at[b] = "ended"

\* In which order the books are listed is left open.
Collect ==
    /\ phase = "await" /\ WorkersDone
    /\ phase' = "loop"
    /\ ids' = ids \o SetToSeq(OfBegun({"Imported"}))
    /\ cancelled' = (cancelled \/ sent < Len(seg) \/ OfBegun({"Cancelled"}) # {})
    /\ hadFatal' = (hadFatal \/ fatal)
    /\ IF FromArchive
       THEN Count(Cardinality(OfBegun({"Imported"})), Cardinality(OfBegun({"Failed"})),
                  Cardinality(OfBegun(Skips)))
       ELSE UNCHANGED tally
    /\ UNCHANGED <<job, workers, hidden, rollback, store, catalog, fatal, stop>>

\* The archive cannot be opened, or an entry's name cannot be read.
ArchiveThrows ==
    /\ phase = "submit" /\ FromArchive /\ sent < Len(seg)
    /\ phase' = "unwind"
    /\ UNCHANGED <<job, workers, summary, rollback, store, catalog, fatal, stop>>

\* Its pool joins the workers, whose results are lost with the exception.  All that
\* was planned of it has failed: Len(seg), since Prepare plans one entry for an
\* archive it cannot read, which is one with a single entry here.  (An archive in
\* which nothing was planned, and which throws, counts as one more; left out.)
ArchiveUnwound ==
    /\ phase = "unwind"
    /\ \A b \in Range(Begun) : at[b] = "ended"
    /\ hidden' = hidden \union OfBegun({"Imported"})
    /\ queue' = <<>> /\ pending' = 0
    /\ IF Mode = "Batch"
       THEN /\ phase' = "loop"
            /\ Count(0, Len(seg), 0)
            /\ hadFatal' = (hadFatal \/ fatal)
       ELSE phase' = "threw" /\ UNCHANGED <<tally, hadFatal>>
    /\ UNCHANGED <<job, at, result, slots, ids, cancelled, rollback, store, catalog, fatal,
                   stop>>

\* ProcessSequentialSingleSource: the job's thread imports the file itself.
SequentialBegins ==
    /\ phase = "sequential"
    /\ IF sent = Len(seg) \/ hadFatal \/ stop
       THEN phase' = "loop" /\ UNCHANGED <<at, sent>>
       ELSE /\ phase' = "inline"
            /\ sent' = sent + 1
            /\ at' = [at EXCEPT ![seg[sent + 1]] = "running"]
    /\ UNCHANGED <<work, next, seg, result, queue, pending, slots, summary, rollback, store,
                   catalog, fatal, stop>>

SequentialEnds ==
    LET b == seg[sent]
    IN  /\ phase = "inline" /\ at[b] = "publishing"
        /\ phase' = "sequential"
        /\ at' = [at EXCEPT ![b] = "ended"]
        /\ CountOne(b)
        /\ ids' = IF result[b] = "Imported" THEN Append(ids, b) ELSE ids
        /\ cancelled' = (cancelled \/ result[b] = "Cancelled")
        /\ hadFatal' = (hadFatal \/ fatal)
        /\ UNCHANGED <<job, result, queue, pending, slots, hidden, rollback, store, catalog,
                       fatal, stop>>

-----------------------------------------------------------------------------
(* The importer of one entry.                                              *)

Unwritten == <<phase, job, queue, pending, slots, summary, rollback, fatal, stop>>

Ends(b, from, s) ==
    /\ at[b] = from
    /\ at' = [at EXCEPT ![b] = "publishing"]
    /\ result' = [result EXCEPT ![b] = s]

EndsUnwritten(b) ==
    /\ \/ \E s \in {"UnsupportedFormat", "Failed"} : Ends(b, "running", s)
       \/ W!HashTaken(b, rows) /\ Ends(b, "running", "RejectedDuplicate")
       \/ stop /\ Ends(b, "running", "Cancelled")
    /\ UNCHANGED <<Unwritten, store, catalog>>

Writes(b) ==
    /\ Mode # "SingleFile"
    /\ \/ /\ W!Accept(b)
          /\ at[b] = "running"
          /\ at' = [at EXCEPT ![b] = "writing"]
          /\ UNCHANGED result
       \/ W!Refuse(b) /\ Ends(b, "running", "Failed")
    /\ UNCHANGED <<Unwritten, store>>

\* In SingleFile mode the row is written by a transaction of the importer's own.
WritesDirectly(b) ==
    /\ Mode = "SingleFile"
    /\ at[b] = "running" /\ ~W!HashTaken(b, rows)
    /\ at' = [at EXCEPT ![b] = "writing"]
    /\ call' = [call EXCEPT ![b] = "imported"]
    /\ rows' = rows \union {b}
    /\ index' = index \union {b}
    /\ UNCHANGED <<Unwritten, result, kept, files, open>>

Stores(b) ==
    /\ call[b] = "imported"
    /\ Ends(b, "writing", "Imported")
    /\ files' = files \union {b}
    /\ UNCHANGED <<Unwritten, kept, index, catalog>>

\* The files cannot be stored: the row is taken back, or that fails as well.
StoreFails(b) ==
    /\ call[b] = "imported"
    /\ Ends(b, "writing", "Failed")
    /\ \/ W!TakeBack(b) /\ index' = index \ {b} /\ UNCHANGED kept
       \/ kept' = kept \union {b} /\ UNCHANGED <<index, catalog>>
    /\ UNCHANGED <<Unwritten, files>>

NotWritten(b) ==
    /\ call[b] \in {"duplicate", "failed", "aborted"}
    /\ Ends(b, "writing", IF call[b] = "duplicate" THEN "RejectedDuplicate" ELSE "Failed")
    /\ UNCHANGED <<Unwritten, store, catalog>>

\* queueProgressEvent comes first; the semaphore is released on the way out.
Publishes(b) ==
    /\ at[b] = "publishing" /\ phase # "inline"
    /\ at' = [at EXCEPT ![b] = "leaving"]
    /\ queue' = Append(queue, b)
    /\ UNCHANGED <<phase, job, result, pending, slots, summary, rollback, store, catalog,
                   fatal, stop>>

\* Mutant: the permit comes back only with an imported book.
ReleasedBy(b) == IF result[b] = "Imported" THEN 1 ELSE 0

Released(b) == 1

Leaves(b) ==
    /\ at[b] = "leaving"
    /\ at' = [at EXCEPT ![b] = "ended"]
    /\ slots' = slots + Released(b)
    /\ UNCHANGED <<phase, job, result, queue, pending, summary, rollback, store, catalog,
                   fatal, stop>>

Imports(b) ==
    \/ EndsUnwritten(b) \/ Writes(b) \/ WritesDirectly(b) \/ Stores(b) \/ StoreFails(b)
    \/ NotWritten(b) \/ Publishes(b) \/ Leaves(b)

-----------------------------------------------------------------------------
(* The writer thread.  AddBatch indexes the books it inserts; after one    *)
(* that throws the repository stays closed.                                *)

WriterCommits ==
    /\ \E S \in (SUBSET Books) \ {{}} :
          W!Commit(S) /\ index' = index \union S
    /\ UNCHANGED <<phase, job, workers, summary, rollback, kept, files, fatal, stop>>

WriterAnswers ==
    /\ \E b \in Books, a \in W!Answers : W!Answer(b, a)
    /\ UNCHANGED <<phase, job, workers, summary, rollback, store, fatal, stop>>

\* A batch throws: its calls are answered before the repository is closed.  Which
\* of the failed calls were in that batch is not told apart from those that failed
\* alone, so that the writer breaks here wherever it can, and after any of them.
WriterBreaks ==
    /\ \E b \in Books : call[b] = "failed"
    /\ W!Close
    /\ fatal' = TRUE
    /\ UNCHANGED <<phase, job, workers, summary, rollback, store, stop>>

-----------------------------------------------------------------------------
(* The end of Run.                                                         *)

Drain ==
    /\ phase = "drain"
    /\ phase' = "judge"
    /\ open' = FALSE
    /\ hadFatal' = (hadFatal \/ fatal)
    /\ UNCHANGED <<job, workers, tally, ids, cancelled, hidden, rollback, store, call, rows,
                   fatal, stop>>

Judge ==
    /\ phase = "judge"
    /\ cancelled' = (cancelled \/ stop)
    /\ phase' = IF ids = <<>> THEN "returned"
                ELSE IF cancelled' \/ hadFatal THEN "lookup" ELSE "optimize"
    /\ UNCHANGED <<job, workers, tally, ids, hadFatal, hidden, rollback, store, catalog,
                   fatal, stop>>

\* OptimizeSearchIndex merges segments; when it throws that is only logged.
Optimize ==
    /\ phase = "optimize"
    /\ phase' = "returned"
    /\ UNCHANGED <<job, workers, summary, rollback, store, catalog, fatal, stop>>

\* GetById throws for some of the books: they stay, and are left out of the rest.
Lookup ==
    /\ phase = "lookup"
    /\ phase' = "delete"
    /\ lost' \in SUBSET Range(ids)
    /\ todo' = Range(ids) \ lost'
    /\ UNCHANGED <<job, workers, summary, residue, store, catalog, fatal, stop>>

\* Mutant: the statement is not reset, so that only the first id is bound.
OnlyFirstGone(S) == IF S = {} THEN rows' = rows ELSE \E b \in S : rows' = rows \ {b}

RowsGone(S) == rows' = rows \ S

\* RemoveBatch: one transaction, which does not touch the search index.
RemoveBatch ==
    /\ phase = "delete"
    /\ phase' = "cleanup"
    /\ RowsGone(todo)
    /\ UNCHANGED <<job, workers, summary, rollback, store, call, open, fatal, stop>>

RemoveBatchThrows ==
    /\ phase = "delete" /\ todo # {}
    /\ phase' = "fallback"
    /\ UNCHANGED <<job, workers, summary, rollback, store, catalog, fatal, stop>>

\* Mutant: a book that could not be removed is cleaned up with the others.
NothingLost(b) == lost' = lost

MarkLost(b) == lost' = lost \union {b}

FallbackRemove ==
    /\ phase = "fallback"
    /\ \E b \in todo :
          /\ \/ rows' = rows \ {b} /\ index' = index \ {b} /\ UNCHANGED lost
             \/ MarkLost(b) /\ UNCHANGED <<rows, index>>
          /\ IF todo # {b}
             THEN todo' = todo \ {b} /\ UNCHANGED phase
             ELSE todo' = Range(ids) \ lost' /\ phase' = "cleanup"
    /\ UNCHANGED <<job, workers, summary, residue, kept, files, call, open, fatal, stop>>

\* The files of a book whose row is gone; what resists is residue.
Cleanup ==
    /\ phase = "cleanup"
    /\ \E b \in todo :
          /\ \/ files' = files \ {b} /\ UNCHANGED residue
             \/ residue' = TRUE /\ UNCHANGED files
          /\ todo' = todo \ {b}
    /\ UNCHANGED <<phase, job, workers, summary, lost, kept, index, catalog, fatal, stop>>

\* RemainingBookIds are what the job goes on to report.
RolledBack ==
    /\ phase = "cleanup" /\ todo = {}
    /\ phase' = "compact"
    /\ ids' = SetToSeq(Range(ids) \intersect lost)
    /\ tally' = [tally EXCEPT !.imported = Len(ids')]
    /\ UNCHANGED <<job, workers, cancelled, hadFatal, hidden, rollback, store, catalog, fatal,
                   stop>>

\* Compact begins with RebuildAll: all entries of the index go, then each book
\* is put back by a statement, and a transaction, of its own.
WipeIndex ==
    /\ phase = "compact"
    /\ phase' = "rebuild"
    /\ index' = {}
    /\ UNCHANGED <<job, workers, summary, rollback, kept, files, catalog, fatal, stop>>

\* Mutant: only the books of this job are put back.
IndexableOfJob == rows

Indexable == rows \union Shelf

Reindex ==
    /\ phase = "rebuild"
    /\ \E b \in Indexable \ index : index' = index \union {b}
    /\ UNCHANGED <<phase, job, workers, summary, rollback, kept, files, catalog, fatal, stop>>

Vacuum ==
    /\ phase = "rebuild" /\ Indexable \subseteq index
    /\ phase' = "returned"
    /\ UNCHANGED <<job, workers, summary, rollback, store, catalog, fatal, stop>>

\* A failure of Compact is only logged.
CompactThrows ==
    /\ phase \in {"compact", "rebuild"}
    /\ phase' = "uncompacted"
    /\ UNCHANGED <<job, workers, summary, rollback, store, catalog, fatal, stop>>

-----------------------------------------------------------------------------
Begin  == NextSource \/ ReserveIdsThrows \/ SequentialBegins \/ SequentialEnds
Supply == Admit \/ Submit \/ StopSubmitting \/ ApplyEvent \/ Collect
Unwind == ArchiveThrows \/ ArchiveUnwound
Finish == Drain \/ Judge \/ Optimize
Revert == Lookup \/ RemoveBatch \/ RemoveBatchThrows \/ FallbackRemove \/ Cleanup \/ RolledBack
Shrink == WipeIndex \/ Reindex \/ Vacuum \/ CompactThrows

JobThread == Begin \/ Supply \/ Unwind \/ Finish \/ Revert \/ Shrink

\* The user cancels the job.
Stop ==
    /\ ~stop /\ phase \notin Over
    /\ stop' = TRUE
    /\ UNCHANGED <<phase, job, workers, summary, rollback, store, catalog, fatal>>

Next ==
    \/ JobThread \/ Stop
    \/ WriterCommits \/ WriterAnswers \/ WriterBreaks
    \/ \E b \in Books : Imports(b)

\* The job's thread, the workers and the writer are threads that run.
Spec ==
    /\ Init /\ [][Next]_vars
    /\ WF_vars(JobThread)
    /\ \A b \in Books : WF_vars(Imports(b))
    /\ WF_vars(WriterAnswers)

-----------------------------------------------------------------------------
(* Properties.                                                             *)

EntryCount == Cardinality(UNION {EntriesIn(c) : c \in Range(work.candidates)})

\* When Run returns, cancelled or not, ImportedBookIds are exactly the books
\* the job has left in the catalog, and ImportedEntries is their number.  It is
\* wrong only about the two leaks the code has: a row SingleFileImport could not
\* take back, and the books of an archive whose Run threw.  No other file is
\* left without its residue being reported, and a job that was neither
\* cancelled nor broken has counted every entry once.
ReportIsTrue ==
    phase \in Returned =>
        /\ Range(ids) = rows \ (kept \union hidden)
        /\ tally.imported = Len(ids)
        /\ Len(ids) = Cardinality(Range(ids))
        /\ residue \/ files \subseteq Range(ids) \union hidden
        /\ ~cancelled /\ ~hadFatal =>
              tally.imported + tally.failed + tally.skipped = EntryCount

\* At no moment, so neither when the host is killed in the middle of a rollback,
\* is there a row of an imported book without its file: rows go before files,
\* and the files of a book whose row could not be removed are not touched.
KeptBookWhole ==
    \A b \in rows : result[b] = "Imported" => b \in files

\* Every book of the catalog can be found by a search, except while the index
\* is rebuilt or after the rebuilding was broken off; and when Run returns with
\* the catalog compacted or never rolled back the index has no other books,
\* although RemoveBatch leaves the rolled back ones in it.
IndexFollowsCatalog ==
    /\ phase \notin {"rebuild", "uncompacted"} => rows \union Shelf \subseteq index
    /\ phase = "returned" => index = rows \union Shelf

\* However many workers fail and whenever the job is stopped or its writer
\* breaks, the semaphore, the events and the futures let Run come to its end.
RunReturns == <>(phase \in Over)
=============================================================================
