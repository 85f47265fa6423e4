--------------------------- MODULE WriterDispatch ---------------------------
(***************************************************************************)
(* CWriterDispatchingRepository: import workers call Add and ForceAdd and  *)
(* block on a future; one writer thread takes their requests from a queue, *)
(* at most kMaxBatchSize at a time, writes each batch in one transaction   *)
(* of CSqliteBookRepository::AddBatch, and fulfils the promises.  A batch  *)
(* whose transaction throws puts the repository in a fatal state.          *)
(* Drain, called by the import facade once its workers are done, stops and *)
(* joins the writer.                                                       *)
(***************************************************************************)
EXTENDS Naturals, Sequences, Functions

CONSTANTS
    Requests,        \* the Add and ForceAdd calls, one element per call
    Forced,          \* the calls that are ForceAdd
    HashOf,          \* the SHA-256 of the book each call adds
    NoHash,          \* the empty sha256_hex
    CatalogHashes,   \* hashes of the books in the catalog before the import
    MaxBatch         \* kMaxBatchSize

ASSUME RequestAssumption == Forced \subseteq Requests
ASSUME BatchAssumption   == MaxBatch \in Nat \ {0}

VARIABLES
    call,            \* how far each call has got
    queue,           \* m_queue
    held,            \* requests the writer took out of the queue: batch, later pendingRequests
    results,         \* what AddBatch returned for the requests still held
    writer,          \* where the writer thread is
    rows,            \* the calls whose row is committed
    stopped,         \* m_stopped
    fatal,           \* m_fatalError.has_value()
    drain            \* the thread that calls Drain

vars == <<call, queue, held, results, writer, rows, stopped, fatal, drain>>

Verdicts == {"imported", "duplicate", "failed"}   \* EBatchAddStatus
Answers  == Verdicts \union {"aborted"}           \* Failed with the text of the batch's exception
Statuses == {"idle", "waiting", "refused"} \union Answers
WriterPCs == {"take", "add", "answer", "failBatch", "setFatal", "failPending", "exited"}

\* The types, and what the writer holds at each place of its loop: it holds
\* nothing while it waits, and never more than kMaxBatchSize in a transaction.
TypeOK ==
    /\ call \in [Requests -> Statuses]
    /\ queue \in Seq(Requests)
    /\ held \in Seq(Requests)
    /\ results \in Seq(Verdicts)
    /\ writer \in WriterPCs
    /\ rows \subseteq Requests
    /\ stopped \in BOOLEAN
    /\ fatal \in BOOLEAN
    /\ drain \in {"no", "joining", "done"}
    /\ writer = "answer" => Len(results) = Len(held)
    /\ writer \in {"add", "answer", "failBatch"} => Len(held) \in 1..MaxBatch
    /\ writer = "failPending" => held # <<>>
    /\ writer \in {"take", "setFatal", "exited"} => held = <<>>

\* SELECT id FROM books WHERE sha256_hex = ?, over the catalog and the rows of s
HashTaken(r, s) ==
    /\ HashOf[r] # NoHash
    /\ \/ HashOf[r] \in CatalogHashes
       \/ \E t \in s : HashOf[t] = HashOf[r]

Init ==
    /\ call = [r \in Requests |-> "idle"]
    /\ queue = <<>>
    /\ held = <<>>
    /\ results = <<>>
    /\ writer = "take"
    /\ rows = {}
    /\ stopped = FALSE
    /\ fatal = FALSE
    /\ drain = "no"

-----------------------------------------------------------------------------
(* The workers.                                                            *)

Enqueue(r) ==
    /\ call[r] = "idle"
    /\ call' = [call EXCEPT ![r] = "waiting"]
    /\ queue' = Append(queue, r)
    /\ UNCHANGED <<held, results, writer, rows, stopped, fatal, drain>>

\* Mutant: the stop flag is not checked.
SubmitStopUnchecked(r) ==
    /\ ~fatal
    /\ Enqueue(r)

Submit(r) ==
    /\ ~fatal
    /\ ~stopped
    /\ Enqueue(r)

\* Submit throws in the fatal state and after Drain: nothing is queued.
SubmitRefused(r) ==
    /\ fatal \/ stopped
    /\ call[r] = "idle"
    /\ call' = [call EXCEPT ![r] = "refused"]
    /\ UNCHANGED <<queue, held, results, writer, rows, stopped, fatal, drain>>

\* Remove goes straight to the real repository: a worker that was told
\* "imported" takes its row back when the files cannot be committed.
Remove(r) ==
    /\ call[r] = "imported"
    /\ r \in rows
    /\ rows' = rows \ {r}
    /\ UNCHANGED <<call, queue, held, results, writer, stopped, fatal, drain>>

-----------------------------------------------------------------------------
(* The writer thread.                                                      *)

\* Mutant: the batch has no limit.
TakeSizeUnbounded == Len(queue)

TakeSize == IF Len(queue) < MaxBatch THEN Len(queue) ELSE MaxBatch

\* The wait ends on a request, on the stop flag or after 10 ms; a wake that
\* finds neither changes nothing.
Take ==
    /\ writer = "take"
    /\ queue # <<>>
    /\ held' = SubSeq(queue, 1, TakeSize)
    /\ queue' = SubSeq(queue, TakeSize + 1, Len(queue))
    /\ writer' = "add"
    /\ UNCHANGED <<call, results, rows, stopped, fatal, drain>>

\* Mutant: the writer leaves as soon as it is told to stop.
MayExitStopped == stopped

MayExit == queue = <<>> /\ stopped

Exit ==
    /\ writer = "take"
    /\ MayExit
    /\ writer' = "exited"
    /\ UNCHANGED <<call, queue, held, results, rows, stopped, fatal, drain>>

Imported(v) == {held[i] : i \in {j \in 1..Len(held) : v[j] = "imported"}}

\* Mutant: an entry does not see the entries before it in its batch.
RowsBeforeCommitted(v, i) == rows

\* The rows entry i finds in its transaction: committed ones and those
\* inserted by earlier entries of its batch.
RowsBefore(v, i) == rows \union {held[j] : j \in {k \in 1..(i - 1) : v[k] = "imported"}}

\* Each entry runs in a savepoint of its own: it can fail alone; an unforced
\* entry whose hash is taken is never inserted.
BatchVerdicts ==
    {v \in [1..Len(held) -> Verdicts] :
        \A i \in 1..Len(held) :
            IF held[i] \notin Forced /\ HashTaken(held[i], RowsBefore(v, i))
            THEN v[i] # "imported"
            ELSE v[i] # "duplicate"}

AddBatch ==
    /\ writer = "add"
    /\ \E v \in BatchVerdicts :
          /\ results' = v
          /\ rows' = rows \union Imported(v)
    /\ writer' = "answer"
    /\ UNCHANGED <<call, queue, held, stopped, fatal, drain>>

\* Mutant: the rows inserted before the exception stay.
AddBatchThrowsKept ==
    /\ writer = "add"
    /\ writer' = "failBatch"
    /\ rows' = rows \union {held[1]}
    /\ UNCHANGED <<call, queue, held, results, stopped, fatal, drain>>

\* BEGIN, a savepoint or COMMIT fails: the transaction is rolled back.
AddBatchThrows ==
    /\ writer = "add"
    /\ writer' = "failBatch"
    /\ UNCHANGED <<call, queue, held, results, rows, stopped, fatal, drain>>

\* The promise of the first request still held is fulfilled.
Fulfil(a) ==
    /\ call' = [call EXCEPT ![Head(held)] = a]
    /\ held' = Tail(held)

AnswerOne ==
    /\ writer = "answer"
    /\ Fulfil(Head(results))
    /\ results' = Tail(results)
    /\ writer' = IF Len(held) = 1 THEN "take" ELSE "answer"
    /\ UNCHANGED <<queue, rows, stopped, fatal, drain>>

FailBatchOne ==
    /\ writer = "failBatch"
    /\ Fulfil("aborted")
    /\ writer' = IF Len(held) = 1 THEN "setFatal" ELSE "failBatch"
    /\ UNCHANGED <<queue, results, rows, stopped, fatal, drain>>

\* Mutant: the queue is copied instead of swapped.
SetFatalCopied ==
    /\ writer = "setFatal"
    /\ fatal' = TRUE
    /\ stopped' = TRUE
    /\ held' = queue
    /\ writer' = IF queue = <<>> THEN "exited" ELSE "failPending"
    /\ UNCHANGED <<call, queue, results, rows, drain>>

\* Mutant: the writer returns without failing what is still queued.
SetFatalPendingLost ==
    /\ writer = "setFatal"
    /\ fatal' = TRUE
    /\ stopped' = TRUE
    /\ writer' = "exited"
    /\ UNCHANGED <<call, queue, held, results, rows, drain>>

SetFatal ==
    /\ writer = "setFatal"
    /\ fatal' = TRUE
    /\ stopped' = TRUE
    /\ held' = queue
    /\ queue' = <<>>
    /\ writer' = IF queue = <<>> THEN "exited" ELSE "failPending"
    /\ UNCHANGED <<call, results, rows, drain>>

FailPendingOne ==
    /\ writer = "failPending"
    /\ Fulfil("aborted")
    /\ writer' = IF Len(held) = 1 THEN "exited" ELSE "failPending"
    /\ UNCHANGED <<queue, results, rows, stopped, fatal, drain>>

-----------------------------------------------------------------------------
(* The thread that drains, and the next-state relation.                    *)

DrainStop ==
    /\ drain = "no"
    /\ stopped' = TRUE
    /\ drain' = "joining"
    /\ UNCHANGED <<call, queue, held, results, writer, rows, fatal>>

DrainJoin ==
    /\ drain = "joining"
    /\ writer = "exited"
    /\ drain' = "done"
    /\ UNCHANGED <<call, queue, held, results, writer, rows, stopped, fatal>>

Writer == Take \/ Exit \/ AddBatch \/ AddBatchThrows \/ AnswerOne
             \/ FailBatchOne \/ SetFatal \/ FailPendingOne

Next ==
    \/ \E r \in Requests : Submit(r) \/ SubmitRefused(r) \/ Remove(r)
    \/ Writer
    \/ DrainStop
    \/ DrainJoin

\* The writer thread and a thread inside join are scheduled; nobody has to
\* submit a request or to call Drain.
Spec == Init /\ [][Next]_vars /\ WF_vars(Writer) /\ WF_vars(DrainJoin)

-----------------------------------------------------------------------------
(* Properties.                                                             *)

\* A request that waits for its future is held exactly once, by the queue or
\* by the writer, and nothing else is: a request in no place would block its
\* worker for ever, one in two places would set its promise twice.
WaitingInOnePlace ==
    /\ \A r \in Requests :
          call[r] = "waiting" <=> r \in Range(queue) \union Range(held)
    /\ \A i, j \in 1..Len(queue) : queue[i] = queue[j] => i = j
    /\ \A i, j \in 1..Len(held) : held[i] = held[j] => i = j
    /\ Range(queue) \intersect Range(held) = {}

\* A worker that is told its book was rejected or failed may delete the files
\* it staged: no row refers to them, not even after its whole batch threw.
RowsAreTold ==
    \A r \in rows :
        \/ call[r] = "imported"
        \/ writer = "answer" /\ \E i \in 1..Len(held) :
                                 held[i] = r /\ results[i] = "imported"

\* Strict duplicates stay out of the catalog however the requests of the
\* workers are batched: of the rows with one hash at most one was not forced,
\* and none when the catalog had that hash before the import.
NoStrictDuplicates ==
    \A r \in rows \ Forced :
        /\ HashOf[r] # NoHash => HashOf[r] \notin CatalogHashes
        /\ \A s \in rows \ Forced :
              HashOf[r] # NoHash /\ HashOf[r] = HashOf[s] => r = s

\* What the facade relies on when Drain returns and it reads HasFatalError a
\* last time: nobody waits, and a batch that threw is known as fatal, though
\* its callers were told before the flag was set.
DrainedIsFinal ==
    drain = "done" =>
        /\ \A r \in Requests : call[r] # "waiting"
        /\ fatal <=> \E r \in Requests : call[r] = "aborted"

\* Every worker that waits on a future is answered, in the fatal state and
\* across Drain as well, and Drain returns, whatever is queued when it is called.
EveryoneReturns ==
    /\ \A r \in Requests : call[r] = "waiting" ~> call[r] # "waiting"
    /\ drain = "joining" ~> drain = "done"

\* The dispatcher keeps the contract of the repository it stands in for.
Contract == INSTANCE WriterContract WITH open <- ~stopped
ImplementsContract == Contract!Spec
=============================================================================
