----------------------------- MODULE ImportJobs -----------------------------
(***************************************************************************)
(* CImportJobManager and CImportJobRunner: the import jobs of the host.    *)
(* The host's main thread serves one request at a time (Start, snapshot,   *)
(* result, Wait, Cancel, Remove) and destroys the manager when its accept  *)
(* loop ends; every job runs on a thread of its own, publishes snapshots   *)
(* of its progress and at last its result.  A job's record is owned by the *)
(* map of jobs, by the closure its thread runs, and by a request that      *)
(* looked it up; the record owns the thread (std::jthread), so its last    *)
(* owner joins it.                                                         *)
(***************************************************************************)
EXTENDS Naturals

CONSTANT MaxJobs     \* bound on the jobs started, for TLC

ASSUME MaxJobsAssumption == MaxJobs \in Nat

Jobs   == 1..MaxJobs
NoJob  == 0          \* SImportJobHandle with Id 0

VARIABLES
    nextJobId,       \* m_nextJobId
    jobs,            \* the keys of m_jobs
    snapshot,        \* Status of each record's Snapshot
    result,          \* Status of each record's Result, "none" while it has no value
    stop,            \* the stop token of each worker
    worker,          \* where each worker thread is
    cancelled,       \* WasCancelled of what the facade returned
    rpc,             \* the request the main thread is serving
    told,            \* jobs some Wait said completed, and not removed since
    host             \* the main thread's life

vars == <<nextJobId, jobs, snapshot, result, stop, worker, cancelled, rpc, told, host>>

Terminal == {"Completed", "Failed", "Cancelled"}
Statuses == {"Pending", "Running", "Cancelling", "RollingBack", "Compacting"} \union Terminal
WorkerPCs == {"none", "starting", "importing", "rollback", "compacting", "mapping",
              "ended", "returning", "exited", "joined"}
Operations == {"idle", "wait", "cancel", "remove", "destroy"}

\* The types; a record in the map has an id already given out.
TypeOK ==
    /\ nextJobId \in 1..(MaxJobs + 1)
    /\ jobs \subseteq 1..(nextJobId - 1)
    /\ snapshot \in [Jobs -> Statuses]
    /\ result \in [Jobs -> Terminal \union {"none"}]
    /\ stop \in [Jobs -> BOOLEAN]
    /\ worker \in [Jobs -> WorkerPCs]
    /\ cancelled \in [Jobs -> BOOLEAN]
    /\ rpc \in [op : Operations, job : Jobs \union {NoJob}]
    /\ told \subseteq Jobs
    /\ host \in {"serving", "joining", "stopped", "terminated"}

Idle == [op |-> "idle", job |-> NoJob]

Init ==
    /\ nextJobId = 1
    /\ jobs = {}
    /\ snapshot = [j \in Jobs |-> "Pending"]
    /\ result = [j \in Jobs |-> "none"]
    /\ stop = [j \in Jobs |-> FALSE]
    /\ worker = [j \in Jobs |-> "none"]
    /\ cancelled = [j \in Jobs |-> FALSE]
    /\ rpc = Idle
    /\ told = {}
    /\ host = "serving"

\* The worker's closure still owns the record of its job.
Runs(j)     == worker[j] \notin {"none", "exited", "joined"}
Joinable(j) == worker[j] \notin {"none", "joined"}

-----------------------------------------------------------------------------
(* The main thread: one request at a time.                                 *)

Serving == host = "serving" /\ rpc = Idle

\* Mutant: the record is stored under the id after its own.
StartNextKey ==
    /\ Serving
    /\ nextJobId <= MaxJobs
    /\ nextJobId' = nextJobId + 1
    /\ jobs' = jobs \union {nextJobId + 1}
    /\ worker' = [worker EXCEPT ![nextJobId] = "starting"]
    /\ UNCHANGED <<snapshot, result, stop, cancelled, rpc, told, host>>

Start ==
    /\ Serving
    /\ nextJobId <= MaxJobs
    /\ nextJobId' = nextJobId + 1
    /\ jobs' = jobs \union {nextJobId}
    /\ worker' = [worker EXCEPT ![nextJobId] = "starting"]
    /\ UNCHANGED <<snapshot, result, stop, cancelled, rpc, told, host>>

\* The thread cannot be created: Start throws, its record stays in the map.
StartThrows ==
    /\ Serving
    /\ nextJobId <= MaxJobs
    /\ nextJobId' = nextJobId + 1
    /\ jobs' = jobs \union {nextJobId}
    /\ UNCHANGED <<snapshot, result, stop, worker, cancelled, rpc, told, host>>

WaitCall(j) ==
    /\ Serving
    /\ j \in jobs
    /\ rpc' = [op |-> "wait", job |-> j]
    /\ UNCHANGED <<nextJobId, jobs, snapshot, result, stop, worker, cancelled, told, host>>

\* Mutant: the wait ends on a terminal snapshot.
WaitOverAtSnapshot(j) == snapshot[j] \in Terminal

\* The predicate of Wait's condition variable.
WaitOver(j) == result[j] # "none"

WaitCompleted ==
    /\ rpc.op = "wait"
    /\ WaitOver(rpc.job)
    /\ told' = told \union {rpc.job}
    /\ rpc' = Idle
    /\ UNCHANGED <<nextJobId, jobs, snapshot, result, stop, worker, cancelled, host>>

WaitTimedOut ==
    /\ rpc.op = "wait"
    /\ ~WaitOver(rpc.job)
    /\ rpc' = Idle
    /\ UNCHANGED <<nextJobId, jobs, snapshot, result, stop, worker, cancelled, told, host>>

\* Cancel answers false for a job that is unknown, never ran or has a result.
CancelCheck(j) ==
    /\ Serving
    /\ j \in jobs
    /\ Joinable(j)
    /\ result[j] = "none"
    /\ rpc' = [op |-> "cancel", job |-> j]
    /\ UNCHANGED <<nextJobId, jobs, snapshot, result, stop, worker, cancelled, told, host>>

\* The record's lock is released by now: the job may have ended meanwhile.
CancelRequest ==
    /\ rpc.op = "cancel"
    /\ stop' = [stop EXCEPT ![rpc.job] = TRUE]
    /\ rpc' = Idle
    /\ UNCHANGED <<nextJobId, jobs, snapshot, result, worker, cancelled, told, host>>

\* Mutant: Remove does not look for a result.
RemovableUnchecked(j) == j \in jobs

Removable(j) == j \in jobs /\ result[j] # "none"

RemoveErase(j) ==
    /\ Serving
    /\ Removable(j)
    /\ jobs' = jobs \ {j}
    /\ told' = told \ {j}
    /\ rpc' = [op |-> "remove", job |-> j]
    /\ UNCHANGED <<nextJobId, snapshot, result, stop, worker, cancelled, host>>

\* Remove returns and lets go of the record.  When the worker's closure is
\* gone the record is destroyed here, joining a thread that is done; when not,
\* the closure is now the record's last owner.
RemoveRelease ==
    /\ rpc.op = "remove"
    /\ worker' = [worker EXCEPT ![rpc.job] = IF @ = "exited" THEN "joined" ELSE @]
    /\ rpc' = Idle
    /\ UNCHANGED <<nextJobId, jobs, snapshot, result, stop, cancelled, told, host>>

EndAcceptLoop ==
    /\ Serving
    /\ host' = "joining"
    /\ UNCHANGED <<nextJobId, jobs, snapshot, result, stop, worker, cancelled, rpc, told>>

\* The destructor takes the records one after the other: request_stop, join.
DestructorStops(j) ==
    /\ host = "joining"
    /\ rpc = Idle
    /\ j \in jobs
    /\ Joinable(j)
    /\ stop' = [stop EXCEPT ![j] = TRUE]
    /\ rpc' = [op |-> "destroy", job |-> j]
    /\ UNCHANGED <<nextJobId, jobs, snapshot, result, worker, cancelled, told, host>>

DestructorJoins ==
    /\ rpc.op = "destroy"
    /\ worker[rpc.job] = "exited"
    /\ worker' = [worker EXCEPT ![rpc.job] = "joined"]
    /\ rpc' = Idle
    /\ UNCHANGED <<nextJobId, jobs, snapshot, result, stop, cancelled, told, host>>

\* Mutant: the destructor does not look for more records.
AllJoinedUnchecked == TRUE

\* Mutant: a record whose thread was never created is waited for.
AllJoinedNone == \A j \in jobs : worker[j] = "joined"

AllJoined == \A j \in jobs : ~Joinable(j)

DestructorDone ==
    /\ host = "joining"
    /\ rpc = Idle
    /\ AllJoined
    /\ host' = "stopped"
    /\ UNCHANGED <<nextJobId, jobs, snapshot, result, stop, worker, cancelled, rpc, told>>

-----------------------------------------------------------------------------
(* A job's thread.                                                         *)

\* The job's thread moves on and publishes a status with the move.
Publish(j, from, to, status) ==
    /\ worker[j] = from
    /\ worker' = [worker EXCEPT ![j] = to]
    /\ snapshot' = [snapshot EXCEPT ![j] = status]
    /\ UNCHANGED <<nextJobId, jobs, result, stop, rpc, told, host>>

WorkerStart(j) ==
    /\ Publish(j, "starting", "importing", "Running")
    /\ UNCHANGED cancelled

\* The facade has drained its workers and reads the stop token a last time.
\* What it imported is rolled back when the import was stopped or the writer
\* failed for good; progress before this point leaves the status as it is.
ImportEnds(j) ==
    /\ cancelled' = [cancelled EXCEPT ![j] = stop[j]]
    /\ \E fatalWriter, importedBooks \in BOOLEAN :
          IF (stop[j] \/ fatalWriter) /\ importedBooks
          THEN Publish(j, "importing", "rollback", "Cancelling")
          ELSE Publish(j, "importing", "mapping", snapshot[j])

\* Mutant: the rollback reports its progress as import progress.
RollbackProgressAsImport(j) ==
    /\ Publish(j, "rollback", "rollback", "Running")
    /\ UNCHANGED cancelled

RollbackProgress(j) ==
    /\ Publish(j, "rollback", "rollback", "RollingBack")
    /\ UNCHANGED cancelled

CompactStarts(j) ==
    /\ Publish(j, "rollback", "compacting", "Compacting")
    /\ UNCHANGED cancelled

\* A failed compaction is only logged.
CompactEnds(j) ==
    /\ Publish(j, "compacting", "mapping", snapshot[j])
    /\ UNCHANGED cancelled

\* Mutant: the stop token is read again when the outcome is mapped.
OutcomesNow(j) == IF stop[j] THEN {"Cancelled"} ELSE {"Completed", "Failed"}

\* Cancellation comes before every other outcome the facade returned.
Outcomes(j) == IF cancelled[j] THEN {"Cancelled"} ELSE {"Completed", "Failed"}

PublishOutcome(j) ==
    /\ \E o \in Outcomes(j) : Publish(j, "mapping", "ended", o)
    /\ UNCHANGED cancelled

\* The facade throws before it rolls anything back.
ImportThrows(j) ==
    /\ Publish(j, "importing", "ended", "Failed")
    /\ UNCHANGED cancelled

\* Mutant: a worker that was asked to stop leaves without a result.
SetResultUnlessStopped(j) ==
    /\ worker[j] = "ended"
    /\ result' = [result EXCEPT ![j] = IF stop[j] THEN @ ELSE snapshot[j]]
    /\ worker' = [worker EXCEPT ![j] = "returning"]
    /\ UNCHANGED <<nextJobId, jobs, snapshot, stop, cancelled, rpc, told, host>>

SetResult(j) ==
    /\ worker[j] = "ended"
    /\ result' = [result EXCEPT ![j] = snapshot[j]]
    /\ worker' = [worker EXCEPT ![j] = "returning"]
    /\ UNCHANGED <<nextJobId, jobs, snapshot, stop, cancelled, rpc, told, host>>

Referenced(j) == j \in jobs \/ rpc.job = j

\* The closure lets go of the record.  As its last owner it destroys it on the
\* very thread the record's std::jthread joins: that join throws out of a
\* destructor and the process ends.
WorkerExits(j) ==
    /\ worker[j] = "returning"
    /\ worker' = [worker EXCEPT ![j] = "exited"]
    /\ host' = IF Referenced(j) THEN host ELSE "terminated"
    /\ UNCHANGED <<nextJobId, jobs, snapshot, result, stop, cancelled, rpc, told>>

Worker(j) ==
    /\ host # "terminated"
    /\ \/ WorkerStart(j) \/ ImportEnds(j) \/ ImportThrows(j)
       \/ RollbackProgress(j) \/ CompactStarts(j) \/ CompactEnds(j)
       \/ PublishOutcome(j) \/ SetResult(j) \/ WorkerExits(j)

\* What the main thread does by itself once it has begun.
Main ==
    /\ host # "terminated"
    /\ \/ WaitCompleted \/ WaitTimedOut \/ CancelRequest \/ RemoveRelease
       \/ (\E j \in Jobs : DestructorStops(j))
       \/ DestructorJoins \/ DestructorDone

Requests ==
    \/ Start \/ StartThrows \/ EndAcceptLoop
    \/ \E j \in Jobs : WaitCall(j) \/ CancelCheck(j) \/ RemoveErase(j)

Next == Requests \/ Main \/ \E j \in Jobs : Worker(j)

\* The jobs' threads and the main thread are scheduled; no client has to ask
\* for anything, and nothing has to stop the host.
Spec ==
    /\ Init /\ [][Next]_vars
    /\ WF_vars(Main)
    /\ \A j \in Jobs : WF_vars(Worker(j))

-----------------------------------------------------------------------------
(* Properties.                                                             *)

Phase == [s \in Statuses |->
    CASE s = "Pending" -> 0 [] s = "Running" -> 1 [] s = "Cancelling" -> 2
      [] s = "RollingBack" -> 3 [] s = "Compacting" -> 4 [] OTHER -> 5]

\* What a client polls never goes back: a job that rolls back does not report
\* Running again, and the terminal status it shows first is the one its
\* result has, although it is published twice.
StatusMovesForward ==
    [][\A j \in Jobs :
          /\ Phase[snapshot'[j]] >= Phase[snapshot[j]]
          /\ snapshot[j] \in Terminal => snapshot'[j] = snapshot[j]
          /\ result[j] # "none" => result'[j] = snapshot[j]]_vars

\* A result says Cancelled only if somebody asked this job to stop, and a stop
\* that was read too late does not change the outcome.
CancelledOnRequest ==
    [][\A j \in Jobs :
          snapshot'[j] = "Cancelled" /\ snapshot[j] # "Cancelled" =>
              stop[j] /\ cancelled[j]]_vars

\* A client told that its job is complete finds the result, until it removes
\* the job: the snapshot alone turns terminal before there is one.
CompletedHasResult ==
    \A j \in told : j \in jobs /\ result[j] # "none"

\* A job in the map is running, has its result, or was never started; so a
\* Wait can end, and nothing is discarded under a thread that still works.
RecordsOutliveWork ==
    \A j \in Jobs : worker[j] \notin {"none", "returning", "exited", "joined"} => j \in jobs

\* After the manager's destructor no thread of a job it still knew runs: the
\* runner, the facade and the repository they use are destroyed next.
NoWorkAfterDestructor ==
    host = "stopped" => \A j \in jobs : ~Runs(j)

\* A running job that is asked to stop, by Cancel or by the destructor, gets a
\* result; a job that is past its last look at the token gets it as well.
StoppedJobEnds ==
    \A j \in Jobs : stop[j] ~> result[j] # "none" \/ host = "terminated"

\* The destructor returns, whatever the jobs are doing when the host stops.
DestructorReturns == host = "joining" ~> host \in {"stopped", "terminated"}

\* RemoveImportJob discards the record of a completed job: nothing else
\* happens to the host that serves it.
RemoveOnlyDiscards == host # "terminated"
=============================================================================
