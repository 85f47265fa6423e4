# Librova: a TLA+ model of the import core

Librova is a Windows library manager for e-books: a C# user interface
(`src/apps/Librova.UI`) and a native C++ host (`src/apps/Librova.Core.Host`, `src/libs`)
that talk over a named pipe. This directory holds TLA+ models of the host, from the
pipe to the catalog and the files, TLC configurations that check them on small
instances, and TLAPS proofs, for instances of every size, of every safety property those
configurations check and of the write dispatcher's refinement.
`PROJECT.json` maps every definition to the lines it models, and lists runs, hazards,
findings and theorems.

    tlc -workers 2 -config MCWriterDispatch.cfg MCWriterDispatch.tla
    tlapm WriterDispatchProofs.tla
    tlapm ImportJobsProofs.tla
    tlapm SingleFileImportProofs.tla
    tlapm ZipImportProofs.tla
    tlapm HostLifetimeProofs.tla
    tlapm LibraryFilesProofs.tla
    tlapm IntakeProofs.tla
    tlapm BatchImportProofs.tla

## 1. The system

    UI view models -> pipe client ==named pipe==> host main thread (accept loop)
                                                     | one request per connection
                        catalog / trash / export facades     CImportJobManager
                                                     |            | std::jthread per job
                                                  SQLite     CLibraryImportFacade::Run
                                                               | reserves a block of ids
                                                               | pool of workers (batch) or the job thread itself
                                                             CSingleFileImportCoordinator::Run
                                                               |          |            |
                                                         parsers,    managed        IBookRepository:
                                                         converter   storage        SQLite directly, or
                                                                                   CWriterDispatchingRepository
                                                                                   -> one writer thread -> AddBatch

| component | state | operations | what makes it correct |
|---|---|---|---|
| Write dispatcher (`Import/WriterDispatchingRepository`) | queue of requests with promises, stop flag, fatal error | `Add`, `ForceAdd`, `Remove`, `Drain`; the writer's loop | every accepted call is answered once; the answer agrees with the catalog; a closed or failed repository takes nothing |
| SQLite repositories (`Database/SqliteBookRepository`, `...QueryRepository`) | catalog, FTS index, `book_id_sequence` | `Add`, `AddBatch`, `Remove`, `RemoveBatch`, `ReserveId(s)`, `FindDuplicates`, `Compact`, `OptimizeSearchIndex` | ids are unique; strict duplicates never get a row; a transaction is all or nothing |
| Single file import (`Import/SingleFileImportCoordinator`) | local to a run: reserved id, prepared storage, added id | `Run` | what it reports is what it left in catalog and storage |
| Managed storage (`Storage/ManagedFileStorage`) | staging and object directories | `PrepareImport`, `CommitImport`, `RollbackImport` | a file at a final path belongs to a row; a failed commit can be taken back |
| Batch facade and rollback (`App/LibraryImportFacade`, `ImportRollbackService`) | imported ids, counters, pool, semaphore | `Run`, `RollbackImportedBooks` | a cancelled job leaves nothing, or reports what it left; the search index follows the catalog |
| ZIP import (`Import/ZipImportCoordinator`) | extracted entries, workers | `Run` | every entry accounted for, with its own file; temporary files removed |
| Import jobs (`App/ImportJobManager`, `ImportJobRunner`) | records with thread, snapshot, result, stop token | `Start`, `TryGetSnapshot`, `TryGetResult`, `Wait`, `Cancel`, `Remove`, destructor | statuses move forward; a result outlives its thread; the host's end leaves no running job |
| Host process (`apps/Librova.Core.Host/Main.cpp`) | accept loop, watchdog threads | start-up, serve, shut down | a shutdown request ends the host |
| Pipe transport (`Transport`) | one pipe instance | accept, read, dispatch, reply | a request gets its own answer; a broken client does not stop the host |
| RPC adapter and mappers (`Rpc`) | none | one method per request | fields survive the mapping |
| Trash and export (`LibraryTrashFacade`, `LibraryExportFacade`) | files and rows | move to trash, export | row and files go together; the user's file survives a failed export |
| Catalog queries (`SqliteBookQueryRepository`, `App/LibraryCatalogFacade`) | statistics cache | `ListBooks`, `FindDuplicates`, `GetLibraryStatistics` | what several statements say together is true of the catalog |
| Converter (`Converter/ExternalBookConverter`) | a child process in a job object | `Convert` | no converter outlives its conversion or the host |
| Cover images (`Storage/StbCoverImageProcessor`) | none | `ProcessForManagedStorage` | a stored cover is within the library's bounds and of the image's shape |
| Parsers, domain types | none | pure functions | |
| UI supervision (`CoreHost/CoreHostProcess.cs`) | process handle, shutdown event | start, graceful stop, kill | one host per library; stop ends |
| UI import workflow (`ImportJobsViewModel.cs`, `ImportJobsService.cs`) | active job id, flags, polling task | validate, start, poll, cancel, remove | buttons agree with the job the host runs |
| UI shell, browser, settings; proto, scripts, tests | view state | | not modelled |

### What is hard here

* **Concurrency.** Workers of a batch, the writer thread, the job's thread, the
  host's main thread and its watchdogs share the queue, the catalog, the disk, the
  records and the stop tokens. Checks are made long before what depends on them
  (duplicates before the write, a result before `request_stop`).
* **Partial failure.** A row is written before its files move into place, so every
  failure after that must take back rows and files in an order that never leaves a
  visible broken entry. Cleanups are best effort.
* **Ends.** Cancellation, `Drain`, a fatal writer error, the destructor of the
  manager and the UI's five-second stop may meet each other in any order.

`PROJECT.json` lists the places as `hazards`, with the properties that cover them.

## 2. The modules

### WriterContract (abstract)

What an import worker is promised by the repository it writes to while a batch
runs. `call` is how far each call has got, `rows` the calls with a row, `open`
whether writes are taken. `Commit(S)` makes the rows of any set of waiting calls
appear in one transaction; `Answer` may say `imported` only for a call with a row,
and anything else only for a call without one. No queue, batch or thread is
visible. It is the specification `WriterDispatch` implements and the environment
`SingleFileImport` is written against, so the two fit together.

### WriterDispatch

`CWriterDispatchingRepository` in full, with the transactions of
`CSqliteBookRepository::AddBatch` and `Remove` it calls.

| model | code |
|---|---|
| `queue`, `held`, `results` | `m_queue`; the local `batch`, or `pendingRequests` after a fatal error; `results` |
| `stopped`, `fatal` | `m_stopped`, `m_fatalError` |
| `writer` | the place in `WriterLoop`: waiting, in the transaction, fulfilling promises one by one, failing the batch, swapping the queue, failing what was queued, gone |
| `Submit`, `SubmitRefused` | one critical section of `Submit`, and its two throws |
| `AddBatch`, `AddBatchThrows` | the whole transaction: verdicts follow the order of entries and see rows of earlier entries of the same batch; a throw rolls all of them back |
| `AnswerOne`, `FailBatchOne`, `FailPendingOne` | one `set_value` each: workers wake between them |
| `SetFatal` | the critical section that sets the flags and swaps the queue, after the batch's promises were set |
| `DrainStop`, `DrainJoin` | setting the flag, joining the thread |

The data is reduced to a hash per call. `NoHash` stands for an empty
`sha256_hex`, which is never compared.

### SingleFileImport

`CSingleFileImportCoordinator::Run` from the first stop check to the returned status,
with `CManagedFileStorage` under it. Several runs share one catalog, one id sequence
and one disk; each is either a worker of the batch job (id reserved beforehand,
writes through `WriterContract`) or a SingleFile job (reserves its own id, writes in
an IMMEDIATE transaction). `pc` is the place in `Run`, or the status it returned.

* The disk maps a path (id, staged or final, book or cover) to the run whose bytes it
  holds, to `Nothing`, or to `Torn` after a failed copy. `MoveFile` may leave its
  source behind (copy and a failed delete) or fail and leave a torn destination.
  Every cleanup may leave any subset of its files, which marks the run `dirty`.
* `CommitBook`, `CommitCover`, `RestoreBook` and `CleanStaging` are the steps of
  `CommitImport` and its catch block; `UndoAdd` and `Rollback` those of `Run`'s own catch
  block. Between any two of them other runs step, and the process may stop there.
* Parsing, hashing, conversion and cover processing (`Intake` has the last two) are the choice between going
  on, failing, and, when a stop was requested, cancelling. A run's hash and title are
  constants. The stop token is read in the same step as the action it guards: a
  stop that arrives between the two commutes with that action.
* `ReserveId` follows the code's `value_or(repo.ReserveId())`, which takes an id from the
  sequence for a worker that already has one.

### ImportJobs

`CImportJobManager`, the closure it runs on each job's thread, and the statuses that
`CJobProgressSink` publishes. The host's main thread serves one request at a time, so
a request is one step, or two when it lets go of a lock in between (`Cancel`:
`CancelCheck`, `CancelRequest`) or waits (`Wait`). Ownership of a record is modelled as far as
its end is concerned: the map, the closure and the request being served own it, and
`WorkerExits` of the last owner is the self-join of `std::jthread`. What the
facade does is three phases (import, rollback, compaction) with the stop token read
where the code reads it.

### BatchImport

`CLibraryImportFacade::Run` and `CImportRollbackService`. The job's thread (`phase`) takes
the candidates in order: neighbouring files go to a pool (`Admit`, `Submit`, `ApplyEvent`,
`Collect`), an archive to its coordinator's pool, a lone file to the thread itself
(`SequentialBegins`, `SequentialEnds`). Each importer (`at`) is `SingleFileImport` seen
from outside: it writes through `WriterContract`, or in SingleFile mode by a transaction of
its own, and ends with a row and its file, or with neither, or, when the row cannot be
taken back, with a row (`kept`). After `Drain` and `Judge` come the rollback (`Lookup`,
`RemoveBatch` or `FallbackRemove` book by book, `Cleanup`, `RolledBack`) and `Compact`
(`WipeIndex`, `Reindex`, `Vacuum`). `rows`, `files` and `index` are the catalog, the object
directories and `search_index`; `ids` and `tally` are what will be reported. `NextSource`
takes an archive (`NextArchive`) or the files up to the next one (`NextFiles`); the order in which
a rollback visits its books, and that of the ids an archive returns, makes no
difference to a property and is left open. An archive is worked through like a pool of files, and
that its coordinator returns or throws is assumed here (`ZipImport` has the one way it may not).
What was planned for an archive is the length of its list of entries, so one that `Prepare` cannot
open, and plans one entry for, is an archive of one entry that throws.

### ZipImport

`CZipImportCoordinator::Run`. The coordinator's thread scans the names, filters them,
takes a permit, makes the directory and writes the file (two steps, for workers remove
empty directories meanwhile) and submits; a worker imports what it finds at the path,
removes the file and its empty directory, publishes its event and gives the permit
back. `file` maps a path to the entry whose bytes lie there, so two entries with one
path are visible. A stop may end the scan and the loop. An exception may leave `Run` from the
scan, the filters, or the handler of a failed extraction (`Throw`), and its unwinding joins the
workers. What `output.write` does is not looked at by the code, so a file that was cut short
is submitted like any other; what the importer makes of it is one of its outcomes. A worker
may `Die` between the importer's return and `QueueProgressEvent`, for its calls there (log
lines, strings) are not guarded: the exception goes into the future, the permit comes back, and no
event is queued. `Forsaken` is the state in which the loop over `drainProgressEvents` waits for
events that only dead workers owe.

### HostLifetime

`main()` of the host, both watchdogs, the thread of an import job as far as the end of
the process is concerned, the pipe clients and `CoreHostProcess` of the UI.

| model | code |
|---|---|
| `main` | start-up, the accept loop (`CreateServer`, `WaitForClient`, `ReadRequest`, `Dispatch`, `WriteResponse`, `SessionBreaks`), `LogOff`, `Drain` (the job manager's destructor), `Exit` (the watchdogs' destructors) |
| `peer` | who has the one pipe instance: a call or a watchdog's wake |
| `dog`, `requested` | `Bark` logs and sets the flag, `Wake` is `TryWakePipeServer` |
| `call`, `sent`, `reply` | `CNamedPipeClient::Call`; `GiveUp` is a time-out or a broken pipe, after which the host may still execute what was sent |
| `job` | the thread of an import: it works, asks whether the logger is there (`JobAsks`), logs or throws (`JobLogs`), ends, or is `stuck`, waiting for a worker of an archive that died of that exception |
| `ui`, `event`, `attached` | `Dispose`, the kill after five seconds, a crash of the UI, which takes the host along if it is in the UI's job object |

### LibraryFiles and ManagedFileEncoding

The requests of a user against one book: `MoveBookToTrash` with its compensation and the
Recycle Bin, and `ExportBook` with its staged replacement of the destination. Beside them
run the rollback of the book's import and a kill of the host at every step. `place`
says where the book's file and its cover are, `dest`, `temp` and `backups` what lies at and
beside the user's destination. `ManagedFileEncoding` computes how `InflateFileToPath` reads
a compressed file back: the two loops over input and output chunks around zlib's
`inflate`, whose promise is modelled by what it does with the units it has.

### CatalogQueries, ExternalBookConverter, CoverImages and Intake

`CatalogQueries` is `CSqliteBookQueryRepository` under `CLibraryCatalogFacade::ListBooks`: one
step per SQL statement, each a snapshot of its own. `listing.at` is the number of the next
statement in `Plan`, the other fields of `listing` what the earlier ones said. A page is the set
of the books whose `Rank` in the order asked for lies between offset and limit. `index` is
`search_index`, which every text filter joins: `AddBook` writes row and index entry in one
transaction, `RemoveBatch` leaves the index alone, and the `Compact` that follows wipes it and fills it
book by book in transactions of their own, holding the writers' lock but keeping out no reader. `search` is
`FindDuplicates` with its three statements and their filters; a match is a book with its severity
and reason. `ExternalBookConverter` is
`Convert` with the child process it starts. `CoverImages` is `CStbCoverImageProcessor`:
`CalculateTargetSize` and the rounding on whole numbers, the ratio being a fraction where the
code has a double; an encoder is any function from size and quality to nothing, bytes that fit
the budget, or too many; `ResolveManagedCoverData` stores the original when processing failed.
`Intake` composes the three: a worker looks for
duplicates, decides, converts, makes the cover ready and writes (`SingleFileImport` has what follows), the user
lists books, other jobs commit, roll back and compact, and the host may be killed while a
converter runs.

## 3. What is checked

| run | expected | instance | distinct states | shows |
|---|---|---|---|---|
| `writer` | pass | two Adds and a ForceAdd of one file, one Add of a file the catalog has, one without a hash; batches of 2 | 161,000 | calls are never lost or answered twice, the catalog holds what callers were told, Drain is final, every call and Drain return, and the dispatcher implements `WriterContract` with its fairness |
| `jobs` | pass | two jobs | 22,000 | statuses and results, the destructor, liveness of stopped jobs |
| `single_file` | pass | a batch worker and a SingleFile job on one covered book | 207,000 | rows and files agree at every step, outcomes are true, finished imports are left alone, every run returns |
| `batch` | pass | jobs of three files, of an archive and a file, of one archive, of one file; two of the files are the same; two permits | 525,000 | what a job reports is what it left behind, kept books are whole, the index follows the catalog, the job ends |
| `zip` | pass | two archives of books in one directory, with one path twice, or one name in two directories, with a nested archive, an unsafe, an unreadable name; two permits | 606,000 | extraction is bounded, books with a path of their own come from their own bytes, progress adds up, the coordinator returns or waits for dead workers alone |
| `host` | pass | two calls of any kind, two watchdogs, one import job | 501,000 | answers are true of their own calls, a stop ends the service, the host ends unless an import it joins is stuck |
| `files` | pass | a plain book and compressed ones of two codes, with or without a cover and a file at the destination | 453,000 | no catalogued book loses its file, the user is told the truth about the trash, the user's file survives |
| `intake` | pass | two books on the shelf, one of another job, two candidates, four queries, two commits of others; a wide and a tall cover | 2,927,000 | pages, statistics and duplicate matches are true although they are read in steps; no converter runs on alone; covers fit |
| `remove_discards` | violation | one job | | finding 1 |
| `row_keeps_file` | violation | as `single_file` | | finding 2 |
| `editions` | violation | two workers of one batch, two files of one book | | finding 3 |
| `decode` | violation | stored books of up to five codes, chunks of two units | | finding 4 |

**Properties.** *writer*: `WaitingInOnePlace`, `RowsAreTold`, `NoStrictDuplicates`,
`DrainedIsFinal`, `EveryoneReturns`, `ImplementsContract`. *jobs*:
`CompletedHasResult`, `RecordsOutliveWork`, `NoWorkAfterDestructor`, `StatusMovesForward`,
`CancelledOnRequest`, `StoppedJobEnds`, `DestructorReturns`. *single_file*: `CatalogMatchesDisk`
(also the state a restart would find), `OutcomeIsTrue`, `NoStrictDuplicates`, `ImportedStays`,
`RunReturns`. *batch*: `ReportIsTrue`, `KeptBookWhole` (at every moment, so also for a host
killed in the middle of a rollback), `IndexFollowsCatalog`, `RunReturns`. *zip*: `ExtractedBounded`,
`OwnBytes`, `ProgressTrue`, `RunReturns`. *host*: `AnswersAreTrue`, `StopEndsService`, `HostEnds`.
*files*: `BookNeverLost`, `TrashIsTold`, `ChosenFileKept`. *intake*: `PageTrue`,
`StatisticsCurrent`, `DuplicatesTrue`, `NoRunawayConverter`, `CoverFits`. The first three modules have
a `TypeOK` in their runs besides. Each property is paired in `PROJECT.json` with a mutant, an
operator with a plausible bug kept next to the definition it stands for, under which
the run fails.

**Bounds and why they are enough.**

* `MaxBatch` is 2 where the code has `kMaxBatchSize = 50`. With five calls the queue
  can be longer than a batch, a batch can have a duplicate inside it, requests can be
  queued behind a batch that throws, and a call can come after the fatal flag. The
  proofs do not depend on the bound.
* `MaxJobs` is 2: requests address one job at a time and jobs share only the map, so
  the second serves for the destructor's loop and ids. A snapshot is its status.
* Two runs of the coordinator: its hazards are between one run and the rest, and
  the pair covers both ways of writing. `MaxId` allows two ids per run, the most the
  code takes. The run `editions` needs two workers of one batch.
* `BatchImport` has three books, more than it has permits, so that a worker must end
  before the last one is submitted; the rollback of two or three covers a fallback
  that loses the first, a middle or the last. Sources of both kinds in one job cover the
  seams between segments. `Shelf` is one book that no job has imported.
* `ZipImport` has three books for two permits in one archive.
* `HostLifetime` has two calls, one to be served and one to wait for the pipe. `MaxSessions`
  is 0, as the UI starts the host; a bounded host only stops earlier.
* `GChunkSize` is 2 where the code has 64 KiB. That chunks of input and of output have the
  same size is the code's; what matters is whether their ends coincide.
* `MaxCommits` of `Intake` is 2: a book of another job comes and goes during one call; a rebuilding
  of the index goes on after it. Of the `Options` of its jobs the one under which the
  user lists books has one file and no converter: conversions and a second file touch nothing
  a listing reads, so their interleavings with it add states and no behaviour.
  The candidate that is another edition shares an ISBN, the other is the other job's file.
* The covers' bounds and qualities are the code's. One image is limited by its width, the
  other by its height, both by either bound; the theorem has every size.

**Fairness.** The writer thread, a thread inside `join`, a job's thread, a worker that
has begun and the main thread once it serves a request are weakly fair: each is an OS
thread that blocks on nothing but what the model shows. No client has to submit,
cancel, wait, or stop the host, and a candidate of a batch may never begin
(workers are not submitted after a stop). In `SingleFileImport` the repository's answers are
fair because the run `writer` checks exactly that of the dispatcher
(`ImplementsContract` includes the contract's fairness). `BatchImport` and `ZipImport` are
fair to the job's thread, to each worker and, for the former, to the writer's answers;
a writer need not commit before it answers, and nobody need cancel.
`HostLifetime` is fair to the main thread, the watchdogs, the UI that is disposing, and a
client's own time-out; no client has to call. The job's end is strongly fair: it
moves between work and logging, and each time it works it may end, but a job that is `stuck` has no
step at all. That the host ends with the UI that disposes of it, the first part of `HostEnds`, follows from the
UI's kill alone; the second part is about the way without a kill. `ImportJobs` assumes that the
facade comes back from the import of a job, as `BatchImport` shows of it, with the same exception. `LibraryFiles` and
`Intake` state no liveness.

**Deadlock.** The configurations say `CHECK_DEADLOCK FALSE`, except those of `LibraryFiles`,
where a user can always ask again: when all calls are answered,
all runs returned or the host has stopped, the systems end. That nobody blocks
for ever is stated by the liveness properties instead.

## 4. What is proved

`WriterDispatchProofs` proves, for every set of calls, every batch size and every
assignment of hashes, assuming only `RequestAssumption` (forced calls are calls) and
`BatchAssumption` (`MaxBatch` is a positive number):

| theorem | statement |
|---|---|
| `TypeCorrect` | `Spec => []TypeOK` |
| `PlaceCorrect` | `Spec => []WaitingInOnePlace` |
| `RowsCorrect` | `Spec => []RowsAreTold` |
| `HashCorrect` | `Spec => []NoStrictDuplicates` |
| `DrainCorrect` | `Spec => []DrainedIsFinal` |
| `Invariance` | `Spec => []IInv`, the inductive invariant |
| `Refinement` | `Spec => Contract!Safety` |

The inductive invariant is `IInv == TypeOK /\ WaitingInOnePlace /\ RowInv /\ NoStrictDuplicates /\ EndInv`.
`TypeOK` says what the writer holds at each place of its loop, without which
`Head(held)` in a fulfilling step has no meaning. `WaitingInOnePlace` is
inductive with it and gives that a promise still held belongs to a waiting call and to no
other place. `RowsAreTold` is not inductive alone: while the writer fulfils promises, each verdict
of `imported` still held must have its row (`HeldVerdicts`, in `RowInv`).
`DrainedIsFinal` needs to know how the end comes about (`EndInv`): the writer leaves only
with an empty queue and the stop flag, and a call is `aborted` exactly when the
flag is set or the writer is on its way to set it. The refinement maps `open` to
`~stopped` and needs the full invariant: `AddBatch` is a `Commit` because the requests it inserts
are waiting and have no row yet; the answers agree with the rows because of
`HeldVerdicts` and `RowsAreTold`.

`ImportJobsProofs` proves for every number of jobs, assuming only that `MaxJobs` is a
natural number, `[]TypeOK` (`JobsTypeCorrect`), `[]RecordsOutliveWork` (`RecordsCorrect`),
`[]CompletedHasResult` (`CompletionCorrect`), `[]NoWorkAfterDestructor` (`DestructorCorrect`) and the
action properties `StatusMovesForward` (`StatusCorrect`) and `CancelledOnRequest`
(`CancelCorrect`). They follow from one inductive invariant (`JobsInvariance`): `PhaseInv` ties the
published status and the result to the place of the job's thread, so that a thread
that publishes knows what was published before, and a job with a result is past
its work; `StopInv` says the facade saw only stops that were requested; `OwnerInv` that
a waiting request's job is in the map, since requests are served one at a time, and that a stopped host
has joined what it knew. Each action property is proved as a fact about every
step from a state of the invariant (`StatusStep`).

`SingleFileImportProofs` proves for every finite set of runs, any of them in a batch, any
assignment of hashes, titles and covers:

| theorem | statement |
|---|---|
| `ImportsTypeCorrect` | `Spec => []TypeOK` |
| `CatalogAndDiskAgree` | `Spec => []CatalogMatchesDisk` |
| `OutcomesAreTrue` | `Spec => []OutcomeIsTrue` |
| `StrictDuplicatesRejected` | `Spec => []NoStrictDuplicates` |
| `ImportedBooksStay` | `Spec => ImportedStays` |
| `ImportsInvariance` | `Spec => []IInv`, the inductive invariant |

It assumes `ImportsAssumption` (the runs are finitely many, the other sets are sets of
runs) and `DiskAssumption` (a run is neither `Nothing` nor `Torn`).
`IInv == TypeInv /\ CountInv /\ IdInv /\ RunInv /\ NoStrictDuplicates`. What keeps one run out of
another's directory is the id in its name, so everything rests on `IdInv`: ids given out are
below the sequence and differ. `CountInv` shows that the ids are enough: the sequence, the
runs that may still take an id and those whose block is still to be reserved
together stay within `MaxId`, so `MaxId` bounds nothing but the paths of the model. `RunInv` then says
of each run separately, per place in `Run`, which files it has, all in its own directory
(`FilesInv`), and whether it has a row (`RowInv`); a step of one run leaves the files of all
others where they are, which is proved once for all steps on files.
`ImportedStays` is a fact about every step from a state of `IInv`.

`ZipImportProofs` proves `[]ExtractedBounded` (`ExtractedIsBounded`), `[]OwnBytes`
(`BooksKeepTheirBytes`) and `[]ProgressTrue` (`ProgressIsTrue`) for all archives of distinct
entries and any number of permits (`ArchiveAssumption`), and for workers that die. `PermitsInv` is the account of the semaphore: free permits, entries with
a worker and the one the coordinator is extracting add up to `Permits`. `BytesInv` says that
while a worker runs on a book whose path no other has, the book's bytes lie there; the
coordinator writes only at the path of an entry that has not begun (`WalkInv`). For the
progress, `ScanInv` says that whatever begins was counted by the scan, since a scan that was
broken off is followed by no entry, and `EventInv` that an outcome is told, and then processed or in the
queue, or still to be told (for ever, if its worker died), with `processed` and the length of the queue
together the number of the told ones, so that none is counted twice.

`HostLifetimeProofs` proves `[]AnswersAreTrue` (`EveryAnswerIsTrue`) and `[]StopEndsService`
(`StopEndsTheService`) for any number of clients and sessions, without an assumption. `AnswerInv`
follows a request from the pipe to its client: what the host holds while it serves a call is
true of that call, then what was sent, then what the client was told, also when the client is no longer there.
`StopInv`: once a call was executed after the request to stop, the main thread is at
places from which it serves no other.

`LibraryFilesProofs` proves `[]BookNeverLost`, `[]TrashIsTold` and `[]ChosenFileKept`
(`BookIsNeverLost`, `TrashAnswerIsTrue`, `ChosenFileIsKept`), with an invariant for each. `BookInv`: the Recycle
Bin and the rollback take files only when the row is gone. `ToldInv`: what
was found is staged before the row goes, and once the user has been told, nothing more happens to the
book. `ExportInv`: there is a whole file to put in place before the one in the way
is set aside, and it is in place before that one is removed.

`BatchImportProofs` proves for jobs of any number of files and archives, any number of
permits, and every failure, cancellation and end of the writer:

| theorem | statement |
|---|---|
| `BatchTypesCorrect` | `Spec => []TypeOK` |
| `BooksAreWhole` | `Spec => []KeptBookWhole` |
| `IndexIsCurrent` | `Spec => []IndexFollowsCatalog` |
| `ReportsAreTrue` | `Spec => []ReportIsTrue` |
| `RolledBackForCause` | `Spec => []OnlyForCause` |
| `BookInvariance` | `Spec => []BookInv`, the invariant of rows, files and index |
| `ReportInvariance` | `Spec => []IInv`, the same with the numbers |

It assumes `BatchAssumption`: the semaphore has a permit, the books are finitely many and
none of them was in the catalog, and a job has each entry once. `ReportIsTrue` compares,
at the very end, a list and three numbers with a catalog that other threads wrote, so the
invariant has to follow each book the whole way. `SegInv` says who was begun: entries begin in
order, and an importer that runs is one the job's thread will wait for (`Open`). `RowOf` says for
each place of an importer what the catalog and the disk have of its book. `IdsInv`: before a
rollback the list has exactly the imported books somebody has asked for (`Taken`), except those
of an archive that threw (`hidden`). `RollInv` says at each place of the rollback what of the list is
still in the catalog, `FilesInv` what is still on the disk, and `IndexInv` which side of the
index may lag behind. For the numbers, `EventInv` shows that an importer of the pool sends one event
and is pending until it is applied (`Untold`); `CountInv` that the imported ones counted are
those in the list and those told of; `SumInv` that a job without cancellation or
fatal error (`Smooth`) has counted each entry behind it once. `SlotsInv` adds the account of the semaphore:
permits free and permits held are always `Permits`. `OnlyForCause`, which no run checks, is stated
beside its proof: a job is rolled back only when it was stopped or its writer broke, and
otherwise every book it imported has its row and its file at the end. `CauseInv` follows each
reason for a rollback to its cause: an importer ends as cancelled, and entries are left out,
only after a stop.

`IntakeProofs` has the theorems about `Intake` and the modules it composes. They assume
`QueriesAssumption` (books are finitely many, a query has its filters, a limit above zero
and an order without ties, for every `ORDER BY` ends with the id), `IntakeAssumption` (the books
imports bring are new) and, for covers, `CoversAssumption` (images have sizes).

* `PagesAreTrue`, `StatisticsAreCurrent` and `DuplicatesAreTrue` are about answers put together
  from statements of different moments, so the invariants speak of the catalogs since the
  beginning (`during`, `met`). They rest on `BirthInv`: a book that was rolled back never
  comes back, so what two statements both saw was there in between. `PageInv` says of each statement
  behind the listing that its part was true of one of those catalogs, and that a relation read
  has every book of the page still there; the length of the page is a fact about ranks in an order
  without ties. `StatsInv` ties the cache to its key: the key is taken before the
  statistics it is kept with, and as long as no commit has changed what it was taken
  of, they are those of the catalog as it is. `SearchInv` says what each of the three
  statements of `FindDuplicates` has added to the matches.
* `CoversFit`: every scaled cover that is stored fits. `ProcessedFits` says, for images of every
  size and every encoder, that what the processor answers has pixels, is within the library's
  bounds, no larger than the image and of its shape, and over the budget only when the
  smaller size was tried. One side is exactly the bound (`RoundExact`), the other within half a
  pixel of the ratio (`RoundNear`) or a single pixel, and since the smaller ratio was taken its
  exact value is within its bound, which rounding does not leave (`RoundBounded`). `CoverInv` adds
  that there is a cover only when the book is about to be stored and that it was made of
  that book's image.
* `ConverterNeverRunsAway`: the process is resumed only as a member of the job object, whose
  handle closes with `Convert` or with the host (`ConverterInv`).

Only model-checked: liveness, since fairness and `ENABLED` are out of the prover's reach:
`EveryoneReturns` and the fairness part of `ImplementsContract`, `StoppedJobEnds`,
`DestructorReturns`, the three properties `RunReturns`, and `HostEnds`. Every other property of a passing run
is a theorem. What the recursive functions of `ManagedFileEncoding` compute would need an
induction over data, so that module has no theorem. The violation runs show
single behaviours and need no proof.

## 5. Findings

1. `RemoveOnlyDiscards` (`ImportJobManager.cpp:174`). Removing a job right after its result
   is published can leave the worker's closure as the record's last owner; the
   record is then destroyed on the thread its `std::jthread` joins, and the host ends.
2. `RowKeepsItsFile` (`SingleFileImportCoordinator.cpp:894`). When the commit fails and taking
   back the row fails too, the row is kept on the ground that its files are in place,
   but the failed commit has not put them there.
3. `ProbableNeedsOptIn` (`SingleFileImportCoordinator.cpp:623`). Probable duplicates are looked
   for once, before the write, so two workers of one batch can both import the same
   title without the user's opt-in.
4. `StoredBookDecodes` (`ManagedFileEncoding.cpp:280`). When a chunk of a compressed file is used
   up exactly as the output buffer is full, `inflate` is called once more, answers
   `Z_BUF_ERROR`, and the intact file is rejected.

## 6. Observations

What the models have as the code has it, and a reader of the documents might not
expect. None is checked as a property of its own.

* An exception in an archive's loop (an unreadable name) loses the results of the
  books already imported from it: they stay in the catalog, but are in no report and in no
  rollback (`hidden` in `ReportIsTrue`). `docs/CodebaseMap.md:446` says "Partial success is always visible
  to the caller; it is never hidden". The unwinding also destroys `progressMutex` and
  `progressEvents`, declared after the pool, while workers may still publish.
* `ReserveIds` outside the `try` of the parallel segment ends a whole job without the rollback
  of what earlier sources imported.
* A book may be rejected as the duplicate of one that its own job rolls back afterwards.
* Entries of an archive are extracted to their own relative paths, so two entries with one
  path, or paths that differ in case, overwrite each other (`OwnBytes` says so); only the
  importer's directory uses the index (`docs/CodebaseMap.md:438`).
* While `Compact` rebuilds the search index, or after it broke off, searches by text find
  fewer books than there are; each insertion is a transaction of its own. A page read before
  the wipe and its total and facets read after it disagree although no book came or went, which is why
  the second part of `PageTrue` asks for an unchanged index when the query has a text: without that
  premise TLC finds the listing.
* The worker of a ZIP entry may leave without its event (`ZipImportCoordinator.cpp:768`-`836`). The
  host shuts the logger down before it stops its jobs (`Main.cpp:475`), so `IsInitialized` may be
  true at `ZipImportCoordinator.cpp:73` and `GetLogger` throw at line 84 (`Logging.cpp:75`); running out of
  memory does the same at any time. The exception stays in the future, the loop at lines
  849-852 waits for an event nobody queues, the job never ends, and the destructor of the
  job manager joins it for ever, until the UI kills the host. `RunReturns` and `HostEnds`
  name this state (`Forsaken`, `JoinsForEver`); without it TLC finds the behaviour in both.
* `ExtractEntryToWorkspace` does not look at what `output.write` did
  (`ZipImportCoordinator.cpp:400`), so on a full disk a truncated file is imported, if it still parses.
* An archive in which nothing was planned and that throws all the same counts as one failed entry
  of none (`LibraryImportFacade.cpp:690`, `:806`); `BatchImport` leaves that case out.
* The wake of a watchdog is lost when no pipe instance exists at that moment; the host
  then ends with the next client or with the UI's kill. A host that is in no job object and
  whose UI crashes may stay (`docs/Librova-Product.md:48` expects it to stop).
* The logger is shut down before running imports are stopped and joined
  (`docs/CodebaseMap.md:699` has the order reversed); a job that has just asked whether the logger is there
  may then end the process from a `noexcept` function.
* The one pipe instance serves one call at a time without a time-out of its own: a client
  that connects and stays silent, or waits for a job, holds up all others. Methods the host
  does not know are answered as an invalid envelope without an id.
* A user's text of punctuation only becomes an empty `MATCH`, and the request fails.
* Page, total, facets and statistics are separate statements; they agree only when nothing was
  committed in between. A candidate that lists an author twice is never found as a
  duplicate by title and authors.
* A failed conversion can take a new file somebody else put into the output directory for
  its own (`stranger` in `ChosenFileKept`), and leaves partial output behind.
* Workers of a batch count processed books with an unsigned difference to the count logged
  last (`ImportPerfTracker.cpp`, `OnBookProcessed`). When another worker has logged a larger count in
  between, the difference wraps around, the slot is claimed again and the count set back: two workers
  log where the comment says "only one thread logs per interval". Only log lines depend on it.
* When the job object of a converter cannot be made, the suspended process is leaked; it
  never runs (`NoRunawayConverter`).

## 7. Not modelled, and why

Parsers, genre names, and the pixels and encoders of covers are pure functions over XML, ZIP and image
libraries; ratios of sizes are fractions, so a rounding error of a double is not modelled;
protobuf mappings copy fields; source expansion walks directories; path safety,
text normalisation, hashing, option parsing, performance counters and log texts keep no state that several
steps share. Schema creation and the inserts of a row are SQL inside one transaction, and SQLite is taken
as transactions that are atomic and either commit or roll back, each of which changes the time or size of the
database's files (the key of the statistics cache). The sizes of managed files in the
library's statistics are those of the rows; the size on disk beside them (`TotalLibrarySizeBytes`) is left out.
The second look at the cache under its lock before the statistics are kept finds what the first did, since
the host serves one request at a time. Sorting and the FTS ranking of a page are an order the
query is given. The C# view models are outside the native core; the requests they can make are inputs here.
Directory removal is modelled where somebody else may need the directory (`ZipImport`), temporary
files in a job's working directory are not. Compaction's `VACUUM` and the optimisation of
the index keep the data and are steps without effect. The Linux build of the host, which has neither
pipe nor watchdogs, is not modelled.
