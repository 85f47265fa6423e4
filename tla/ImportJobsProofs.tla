-------------------------- MODULE ImportJobsProofs --------------------------
(***************************************************************************)
(* Theorems about ImportJobs, for every number of jobs.                    *)
(***************************************************************************)
EXTENDS ImportJobs, TLAPS

-----------------------------------------------------------------------------
(* The inductive invariant.                                                *)

\* What a job's thread has told so far: nothing before it starts, the status
\* of its phase while it works, and as its result what it told last.
PhaseInv ==
    \A j \in Jobs :
        /\ worker[j] \in {"none", "starting"} => snapshot[j] = "Pending"
        /\ worker[j] = "importing" => snapshot[j] = "Running"
        /\ worker[j] = "rollback" => snapshot[j] \in {"Cancelling", "RollingBack"}
        /\ worker[j] = "compacting" => snapshot[j] = "Compacting"
        /\ worker[j] = "mapping" => snapshot[j] \in {"Running", "Compacting"}
        /\ worker[j] = "ended" => snapshot[j] \in Terminal
        /\ IF worker[j] \in {"returning", "exited", "joined"}
           THEN result[j] \in Terminal /\ result[j] = snapshot[j]
           ELSE result[j] = "none"

\* The facade can only have seen a stop that was requested.
StopInv == \A j \in Jobs : cancelled[j] => stop[j]

\* Threads belong to jobs that were started, requests to jobs of the map, and
\* a host that has stopped has joined what it knew.
OwnerInv ==
    /\ \A j \in Jobs : j >= nextJobId => worker[j] = "none"
    /\ rpc.op = "wait" => rpc.job \in jobs
    /\ host = "stopped" => \A j \in jobs : worker[j] \in {"none", "joined"}

IInv ==
    /\ TypeOK
    /\ PhaseInv
    /\ StopInv
    /\ OwnerInv
    /\ RecordsOutliveWork
    /\ CompletedHasResult

\* The invariant holds at the start.
LEMMA InvInit == Init => IInv
<1> SUFFICES ASSUME Init PROVE IInv
  OBVIOUS
<1>1. TypeOK
  BY MaxJobsAssumption DEF Init, TypeOK, Statuses, WorkerPCs, Operations, Idle
<1>2. PhaseInv
  BY DEF Init, PhaseInv
<1>3. QED
  BY <1>1, <1>2 DEF Init, IInv, StopInv, OwnerInv, RecordsOutliveWork, CompletedHasResult, Idle

-----------------------------------------------------------------------------
(* Types.                                                                  *)

\* The map holds jobs.
LEMMA JobsOfMap ==
    ASSUME TypeOK
    PROVE  jobs \subseteq Jobs
<1>1. nextJobId - 1 <= MaxJobs /\ nextJobId \in Nat
  BY MaxJobsAssumption DEF TypeOK
<1>2. QED BY <1>1, MaxJobsAssumption DEF TypeOK, Jobs

\* What a job's thread publishes are statuses.
LEMMA PublishTypes ==
    ASSUME TypeOK, NEW j \in Jobs, NEW from, NEW to \in WorkerPCs,
           NEW s \in Statuses, Publish(j, from, to, s), cancelled' \in [Jobs -> BOOLEAN]
    PROVE  TypeOK'
BY DEF TypeOK, Publish

\* Every step keeps the types.
LEMMA TypeStep == TypeOK /\ PhaseInv /\ OwnerInv /\ [Next]_vars => TypeOK'
<1> SUFFICES ASSUME TypeOK, PhaseInv, OwnerInv, [Next]_vars PROVE TypeOK'
  OBVIOUS
<1>1. CASE Start
  <2>1. nextJobId \in Jobs /\ nextJobId + 1 \in 1..(MaxJobs + 1)
    BY <1>1, MaxJobsAssumption DEF Start, TypeOK, Jobs
  <2>2. jobs' \subseteq 1..(nextJobId' - 1)
    BY <1>1, <2>1 DEF Start, TypeOK, Jobs
  <2>3. QED BY <1>1, <2>1, <2>2 DEF Start, TypeOK, WorkerPCs
<1>2. CASE StartThrows
  <2>1. nextJobId \in Jobs /\ nextJobId + 1 \in 1..(MaxJobs + 1)
    BY <1>2, MaxJobsAssumption DEF StartThrows, TypeOK, Jobs
  <2>2. jobs' \subseteq 1..(nextJobId' - 1)
    BY <1>2, <2>1 DEF StartThrows, TypeOK, Jobs
  <2>3. QED BY <1>2, <2>1, <2>2 DEF StartThrows, TypeOK
<1>3. CASE EndAcceptLoop
  BY <1>3 DEF EndAcceptLoop, TypeOK
<1>4. ASSUME NEW j \in Jobs, WaitCall(j) PROVE TypeOK'
  BY <1>4 DEF WaitCall, TypeOK, Operations, Idle
<1>5. ASSUME NEW j \in Jobs, CancelCheck(j) PROVE TypeOK'
  BY <1>5 DEF CancelCheck, TypeOK, Operations, Idle
<1>6. ASSUME NEW j \in Jobs, RemoveErase(j) PROVE TypeOK'
  BY <1>6 DEF RemoveErase, TypeOK, Operations, Idle
<1>7. CASE WaitCompleted
  <2>1. rpc.job \in Jobs
    BY <1>7, JobsOfMap DEF WaitCompleted, OwnerInv
  <2>2. QED BY <1>7, <2>1 DEF WaitCompleted, TypeOK, Operations, Idle
<1>8. CASE WaitTimedOut
  BY <1>8 DEF WaitTimedOut, TypeOK, Operations, Idle
<1>9. CASE CancelRequest
  BY <1>9 DEF CancelRequest, TypeOK, Operations, Idle
<1>10. CASE RemoveRelease
  BY <1>10 DEF RemoveRelease, TypeOK, WorkerPCs, Operations, Idle
<1>11. ASSUME NEW j \in Jobs, DestructorStops(j) PROVE TypeOK'
  BY <1>11 DEF DestructorStops, TypeOK, Operations, Idle
<1>12. CASE DestructorJoins
  BY <1>12 DEF DestructorJoins, TypeOK, WorkerPCs, Operations, Idle
<1>13. CASE DestructorDone
  BY <1>13 DEF DestructorDone, TypeOK
<1>14. ASSUME NEW j \in Jobs, WorkerStart(j) PROVE TypeOK'
  BY <1>14, PublishTypes DEF WorkerStart, TypeOK, WorkerPCs, Statuses, Terminal
<1>15. ASSUME NEW j \in Jobs, ImportEnds(j) PROVE TypeOK'
  <2>1. cancelled' \in [Jobs -> BOOLEAN] /\ snapshot[j] \in Statuses
    BY <1>15 DEF ImportEnds, TypeOK
  <2>2. {"mapping", "rollback"} \subseteq WorkerPCs /\ "Cancelling" \in Statuses
    BY DEF WorkerPCs, Statuses
  <2>3. \/ Publish(j, "importing", "rollback", "Cancelling")
        \/ Publish(j, "importing", "mapping", snapshot[j])
    BY <1>15 DEF ImportEnds
  <2>4. QED BY <2>1, <2>2, <2>3, PublishTypes
<1>16. ASSUME NEW j \in Jobs, ImportThrows(j) PROVE TypeOK'
  BY <1>16, PublishTypes DEF ImportThrows, TypeOK, WorkerPCs, Statuses, Terminal
<1>17. ASSUME NEW j \in Jobs, RollbackProgress(j) PROVE TypeOK'
  BY <1>17, PublishTypes DEF RollbackProgress, TypeOK, WorkerPCs, Statuses, Terminal
<1>18. ASSUME NEW j \in Jobs, CompactStarts(j) PROVE TypeOK'
  BY <1>18, PublishTypes DEF CompactStarts, TypeOK, WorkerPCs, Statuses, Terminal
<1>19. ASSUME NEW j \in Jobs, CompactEnds(j) PROVE TypeOK'
  <2>1. snapshot[j] \in Statuses /\ "mapping" \in WorkerPCs
    BY DEF TypeOK, WorkerPCs
  <2>2. QED BY <1>19, <2>1, PublishTypes DEF CompactEnds, TypeOK
<1>20. ASSUME NEW j \in Jobs, PublishOutcome(j) PROVE TypeOK'
  <2>1. PICK o \in Outcomes(j) : Publish(j, "mapping", "ended", o)
    BY <1>20 DEF PublishOutcome
  <2>2. o \in Statuses /\ "ended" \in WorkerPCs
    BY DEF Outcomes, Statuses, Terminal, WorkerPCs
  <2>3. QED BY <1>20, <2>1, <2>2, PublishTypes DEF PublishOutcome, TypeOK
<1>21. ASSUME NEW j \in Jobs, SetResult(j) PROVE TypeOK'
  <2>1. snapshot[j] \in Terminal
    BY <1>21 DEF SetResult, PhaseInv
  <2>2. QED BY <1>21, <2>1 DEF SetResult, TypeOK, WorkerPCs
<1>22. ASSUME NEW j \in Jobs, WorkerExits(j) PROVE TypeOK'
  BY <1>22 DEF WorkerExits, TypeOK, WorkerPCs, Operations, Idle
<1>23. CASE UNCHANGED vars
  BY <1>23 DEF vars, TypeOK
<1>24. QED
  BY <1>1, <1>2, <1>3, <1>4, <1>5, <1>6, <1>7, <1>8, <1>9, <1>10, <1>11, <1>12,
     <1>13, <1>14, <1>15, <1>16, <1>17, <1>18, <1>19, <1>20, <1>21, <1>22,
     <1>23
  DEF Next, Requests, Main, Worker

-----------------------------------------------------------------------------
(* The parts of the invariant, one step each.                              *)

\* A thread tells what its phase says.
LEMMA PhaseStep == TypeOK /\ PhaseInv /\ OwnerInv /\ [Next]_vars => PhaseInv'
<1> SUFFICES ASSUME TypeOK, PhaseInv, OwnerInv, [Next]_vars PROVE PhaseInv'
  OBVIOUS
<1> USE DEF Terminal
<1>1. CASE Start
  BY <1>1 DEF Start, PhaseInv, TypeOK, OwnerInv
<1>2. CASE StartThrows
  BY <1>2 DEF StartThrows, PhaseInv, TypeOK, OwnerInv
<1>3. CASE EndAcceptLoop
  BY <1>3 DEF EndAcceptLoop, PhaseInv, TypeOK, OwnerInv
<1>4. ASSUME NEW j \in Jobs, WaitCall(j) PROVE PhaseInv'
  BY <1>4 DEF WaitCall, PhaseInv, TypeOK, OwnerInv
<1>5. ASSUME NEW j \in Jobs, CancelCheck(j) PROVE PhaseInv'
  BY <1>5 DEF CancelCheck, PhaseInv, TypeOK, OwnerInv
<1>6. ASSUME NEW j \in Jobs, RemoveErase(j) PROVE PhaseInv'
  BY <1>6 DEF RemoveErase, PhaseInv, TypeOK, OwnerInv
<1>7. CASE WaitCompleted
  BY <1>7 DEF WaitCompleted, PhaseInv, TypeOK, OwnerInv
<1>8. CASE WaitTimedOut
  BY <1>8 DEF WaitTimedOut, PhaseInv, TypeOK, OwnerInv
<1>9. CASE CancelRequest
  BY <1>9 DEF CancelRequest, PhaseInv, TypeOK, OwnerInv
<1>10. CASE RemoveRelease
  BY <1>10 DEF RemoveRelease, PhaseInv, TypeOK, OwnerInv
<1>11. ASSUME NEW j \in Jobs, DestructorStops(j) PROVE PhaseInv'
  BY <1>11 DEF DestructorStops, PhaseInv, TypeOK, OwnerInv
<1>12. CASE DestructorJoins
  BY <1>12 DEF DestructorJoins, PhaseInv, TypeOK, OwnerInv
<1>13. CASE DestructorDone
  BY <1>13 DEF DestructorDone, PhaseInv, TypeOK, OwnerInv
<1>14. ASSUME NEW j \in Jobs, WorkerStart(j) PROVE PhaseInv'
  BY <1>14 DEF WorkerStart, Publish, PhaseInv, TypeOK, OwnerInv
<1>15. ASSUME NEW j \in Jobs, ImportEnds(j) PROVE PhaseInv'
  BY <1>15 DEF ImportEnds, Publish, PhaseInv, TypeOK, OwnerInv
<1>16. ASSUME NEW j \in Jobs, ImportThrows(j) PROVE PhaseInv'
  BY <1>16 DEF ImportThrows, Publish, PhaseInv, TypeOK, OwnerInv
<1>17. ASSUME NEW j \in Jobs, RollbackProgress(j) PROVE PhaseInv'
  BY <1>17 DEF RollbackProgress, Publish, PhaseInv, TypeOK, OwnerInv
<1>18. ASSUME NEW j \in Jobs, CompactStarts(j) PROVE PhaseInv'
  BY <1>18 DEF CompactStarts, Publish, PhaseInv, TypeOK, OwnerInv
<1>19. ASSUME NEW j \in Jobs, CompactEnds(j) PROVE PhaseInv'
  BY <1>19 DEF CompactEnds, Publish, PhaseInv, TypeOK, OwnerInv
<1>20. ASSUME NEW j \in Jobs, PublishOutcome(j) PROVE PhaseInv'
  <2>1. PICK o \in Outcomes(j) : Publish(j, "mapping", "ended", o)
    BY <1>20 DEF PublishOutcome
  <2>2. o \in Terminal
    BY DEF Outcomes, Terminal
  <2>3. QED BY <2>1, <2>2 DEF Publish, PhaseInv, TypeOK
<1>21. ASSUME NEW j \in Jobs, SetResult(j) PROVE PhaseInv'
  BY <1>21 DEF SetResult, PhaseInv, TypeOK, OwnerInv
<1>22. ASSUME NEW j \in Jobs, WorkerExits(j) PROVE PhaseInv'
  BY <1>22 DEF WorkerExits, PhaseInv, TypeOK, OwnerInv
<1>23. CASE UNCHANGED vars
  BY <1>23 DEF vars, PhaseInv, TypeOK, OwnerInv
<1>24. QED
  BY <1>1, <1>2, <1>3, <1>4, <1>5, <1>6, <1>7, <1>8, <1>9, <1>10, <1>11, <1>12,
     <1>13, <1>14, <1>15, <1>16, <1>17, <1>18, <1>19, <1>20, <1>21, <1>22,
     <1>23
  DEF Next, Requests, Main, Worker

\* Stops are never taken back.
LEMMA StopStep == TypeOK /\ StopInv /\ [Next]_vars => StopInv'
<1> SUFFICES ASSUME TypeOK, StopInv, [Next]_vars PROVE StopInv'
  OBVIOUS
<1>1. CASE Start
  BY <1>1 DEF Start, StopInv, TypeOK
<1>2. CASE StartThrows
  BY <1>2 DEF StartThrows, StopInv, TypeOK
<1>3. CASE EndAcceptLoop
  BY <1>3 DEF EndAcceptLoop, StopInv, TypeOK
<1>4. ASSUME NEW j \in Jobs, WaitCall(j) PROVE StopInv'
  BY <1>4 DEF WaitCall, StopInv, TypeOK
<1>5. ASSUME NEW j \in Jobs, CancelCheck(j) PROVE StopInv'
  BY <1>5 DEF CancelCheck, StopInv, TypeOK
<1>6. ASSUME NEW j \in Jobs, RemoveErase(j) PROVE StopInv'
  BY <1>6 DEF RemoveErase, StopInv, TypeOK
<1>7. CASE WaitCompleted
  BY <1>7 DEF WaitCompleted, StopInv, TypeOK
<1>8. CASE WaitTimedOut
  BY <1>8 DEF WaitTimedOut, StopInv, TypeOK
<1>9. CASE CancelRequest
  BY <1>9 DEF CancelRequest, StopInv, TypeOK
<1>10. CASE RemoveRelease
  BY <1>10 DEF RemoveRelease, StopInv, TypeOK
<1>11. ASSUME NEW j \in Jobs, DestructorStops(j) PROVE StopInv'
  BY <1>11 DEF DestructorStops, StopInv, TypeOK
<1>12. CASE DestructorJoins
  BY <1>12 DEF DestructorJoins, StopInv, TypeOK
<1>13. CASE DestructorDone
  BY <1>13 DEF DestructorDone, StopInv, TypeOK
<1>14. ASSUME NEW j \in Jobs, WorkerStart(j) PROVE StopInv'
  BY <1>14 DEF WorkerStart, Publish, StopInv, TypeOK
<1>15. ASSUME NEW j \in Jobs, ImportEnds(j) PROVE StopInv'
  BY <1>15 DEF ImportEnds, Publish, StopInv, TypeOK
<1>16. ASSUME NEW j \in Jobs, ImportThrows(j) PROVE StopInv'
  BY <1>16 DEF ImportThrows, Publish, StopInv, TypeOK
<1>17. ASSUME NEW j \in Jobs, RollbackProgress(j) PROVE StopInv'
  BY <1>17 DEF RollbackProgress, Publish, StopInv, TypeOK
<1>18. ASSUME NEW j \in Jobs, CompactStarts(j) PROVE StopInv'
  BY <1>18 DEF CompactStarts, Publish, StopInv, TypeOK
<1>19. ASSUME NEW j \in Jobs, CompactEnds(j) PROVE StopInv'
  BY <1>19 DEF CompactEnds, Publish, StopInv, TypeOK
<1>20. ASSUME NEW j \in Jobs, PublishOutcome(j) PROVE StopInv'
  BY <1>20 DEF PublishOutcome, Publish, StopInv, TypeOK
<1>21. ASSUME NEW j \in Jobs, SetResult(j) PROVE StopInv'
  BY <1>21 DEF SetResult, StopInv, TypeOK
<1>22. ASSUME NEW j \in Jobs, WorkerExits(j) PROVE StopInv'
  BY <1>22 DEF WorkerExits, StopInv, TypeOK
<1>23. CASE UNCHANGED vars
  BY <1>23 DEF vars, StopInv, TypeOK
<1>24. QED
  BY <1>1, <1>2, <1>3, <1>4, <1>5, <1>6, <1>7, <1>8, <1>9, <1>10, <1>11, <1>12,
     <1>13, <1>14, <1>15, <1>16, <1>17, <1>18, <1>19, <1>20, <1>21, <1>22,
     <1>23
  DEF Next, Requests, Main, Worker

\* Requests and the destructor see the map as it is.
LEMMA OwnerStep == TypeOK /\ OwnerInv /\ [Next]_vars => OwnerInv'
<1> SUFFICES ASSUME TypeOK, OwnerInv, [Next]_vars PROVE OwnerInv'
  OBVIOUS
<1>1. CASE Start
  BY <1>1 DEF Start, OwnerInv, TypeOK, Serving, Idle, Jobs
<1>2. CASE StartThrows
  BY <1>2 DEF StartThrows, OwnerInv, TypeOK, Serving, Idle, Jobs
<1>3. CASE EndAcceptLoop
  BY <1>3 DEF EndAcceptLoop, OwnerInv, TypeOK, Serving, Idle, Jobs
<1>4. ASSUME NEW j \in Jobs, WaitCall(j) PROVE OwnerInv'
  BY <1>4 DEF WaitCall, OwnerInv, TypeOK, Serving, Idle, Jobs
<1>5. ASSUME NEW j \in Jobs, CancelCheck(j) PROVE OwnerInv'
  BY <1>5 DEF CancelCheck, OwnerInv, TypeOK, Serving, Idle, Jobs
<1>6. ASSUME NEW j \in Jobs, RemoveErase(j) PROVE OwnerInv'
  BY <1>6 DEF RemoveErase, OwnerInv, TypeOK, Serving, Idle, Jobs
<1>7. CASE WaitCompleted
  BY <1>7 DEF WaitCompleted, OwnerInv, TypeOK, Serving, Idle, Jobs
<1>8. CASE WaitTimedOut
  BY <1>8 DEF WaitTimedOut, OwnerInv, TypeOK, Serving, Idle, Jobs
<1>9. CASE CancelRequest
  BY <1>9 DEF CancelRequest, OwnerInv, TypeOK, Serving, Idle, Jobs
<1>10. CASE RemoveRelease
  BY <1>10 DEF RemoveRelease, OwnerInv, TypeOK, Serving, Idle, Jobs
<1>11. ASSUME NEW j \in Jobs, DestructorStops(j) PROVE OwnerInv'
  BY <1>11 DEF DestructorStops, OwnerInv, TypeOK, Serving, Idle, Jobs
<1>12. CASE DestructorJoins
  BY <1>12 DEF DestructorJoins, OwnerInv, TypeOK, Serving, Idle, Jobs
<1>13. CASE DestructorDone
  BY <1>13 DEF DestructorDone, OwnerInv, TypeOK, AllJoined, Joinable, Idle, Jobs
<1>14. ASSUME NEW j \in Jobs, WorkerStart(j) PROVE OwnerInv'
  BY <1>14 DEF WorkerStart, Publish, OwnerInv, TypeOK, Serving, Idle, Jobs
<1>15. ASSUME NEW j \in Jobs, ImportEnds(j) PROVE OwnerInv'
  <2>1. /\ worker[j] = "importing"
        /\ \E to \in WorkerPCs : worker' = [worker EXCEPT ![j] = to]
        /\ UNCHANGED <<nextJobId, jobs, rpc, host>>
    BY <1>15 DEF ImportEnds, Publish, WorkerPCs
  <2>2. QED BY <2>1 DEF OwnerInv, TypeOK
<1>16. ASSUME NEW j \in Jobs, ImportThrows(j) PROVE OwnerInv'
  BY <1>16 DEF ImportThrows, Publish, OwnerInv, TypeOK, Serving, Idle, Jobs
<1>17. ASSUME NEW j \in Jobs, RollbackProgress(j) PROVE OwnerInv'
  BY <1>17 DEF RollbackProgress, Publish, OwnerInv, TypeOK, Serving, Idle, Jobs
<1>18. ASSUME NEW j \in Jobs, CompactStarts(j) PROVE OwnerInv'
  BY <1>18 DEF CompactStarts, Publish, OwnerInv, TypeOK, Serving, Idle, Jobs
<1>19. ASSUME NEW j \in Jobs, CompactEnds(j) PROVE OwnerInv'
  BY <1>19 DEF CompactEnds, Publish, OwnerInv, TypeOK, Serving, Idle, Jobs
<1>20. ASSUME NEW j \in Jobs, PublishOutcome(j) PROVE OwnerInv'
  BY <1>20 DEF PublishOutcome, Publish, OwnerInv, TypeOK, Serving, Idle, Jobs
<1>21. ASSUME NEW j \in Jobs, SetResult(j) PROVE OwnerInv'
  BY <1>21 DEF SetResult, OwnerInv, TypeOK, Serving, Idle, Jobs
<1>22. ASSUME NEW j \in Jobs, WorkerExits(j) PROVE OwnerInv'
  BY <1>22 DEF WorkerExits, OwnerInv, TypeOK, Serving, Idle, Jobs
<1>23. CASE UNCHANGED vars
  BY <1>23 DEF vars, OwnerInv, TypeOK, Serving, Idle, Jobs
<1>24. QED
  BY <1>1, <1>2, <1>3, <1>4, <1>5, <1>6, <1>7, <1>8, <1>9, <1>10, <1>11, <1>12,
     <1>13, <1>14, <1>15, <1>16, <1>17, <1>18, <1>19, <1>20, <1>21, <1>22,
     <1>23
  DEF Next, Requests, Main, Worker

\* Only a job with a result leaves the map.
LEMMA WorkStep == TypeOK /\ PhaseInv /\ RecordsOutliveWork /\ [Next]_vars => RecordsOutliveWork'
<1> SUFFICES ASSUME TypeOK, PhaseInv, RecordsOutliveWork, [Next]_vars PROVE RecordsOutliveWork'
  OBVIOUS
<1>1. CASE Start
  BY <1>1 DEF Start, RecordsOutliveWork, PhaseInv, TypeOK
<1>2. CASE StartThrows
  BY <1>2 DEF StartThrows, RecordsOutliveWork, PhaseInv, TypeOK
<1>3. CASE EndAcceptLoop
  BY <1>3 DEF EndAcceptLoop, RecordsOutliveWork, PhaseInv, TypeOK
<1>4. ASSUME NEW j \in Jobs, WaitCall(j) PROVE RecordsOutliveWork'
  BY <1>4 DEF WaitCall, RecordsOutliveWork, PhaseInv, TypeOK
<1>5. ASSUME NEW j \in Jobs, CancelCheck(j) PROVE RecordsOutliveWork'
  BY <1>5 DEF CancelCheck, RecordsOutliveWork, PhaseInv, TypeOK
<1>6. ASSUME NEW j \in Jobs, RemoveErase(j) PROVE RecordsOutliveWork'
  BY <1>6 DEF RemoveErase, Removable, RecordsOutliveWork, PhaseInv, TypeOK
<1>7. CASE WaitCompleted
  BY <1>7 DEF WaitCompleted, RecordsOutliveWork, PhaseInv, TypeOK
<1>8. CASE WaitTimedOut
  BY <1>8 DEF WaitTimedOut, RecordsOutliveWork, PhaseInv, TypeOK
<1>9. CASE CancelRequest
  BY <1>9 DEF CancelRequest, RecordsOutliveWork, PhaseInv, TypeOK
<1>10. CASE RemoveRelease
  BY <1>10 DEF RemoveRelease, RecordsOutliveWork, PhaseInv, TypeOK
<1>11. ASSUME NEW j \in Jobs, DestructorStops(j) PROVE RecordsOutliveWork'
  BY <1>11 DEF DestructorStops, RecordsOutliveWork, PhaseInv, TypeOK
<1>12. CASE DestructorJoins
  BY <1>12 DEF DestructorJoins, RecordsOutliveWork, PhaseInv, TypeOK
<1>13. CASE DestructorDone
  BY <1>13 DEF DestructorDone, RecordsOutliveWork, PhaseInv, TypeOK
<1>14. ASSUME NEW j \in Jobs, WorkerStart(j) PROVE RecordsOutliveWork'
  BY <1>14 DEF WorkerStart, Publish, RecordsOutliveWork, PhaseInv, TypeOK
<1>15. ASSUME NEW j \in Jobs, ImportEnds(j) PROVE RecordsOutliveWork'
  BY <1>15 DEF ImportEnds, Publish, RecordsOutliveWork, PhaseInv, TypeOK
<1>16. ASSUME NEW j \in Jobs, ImportThrows(j) PROVE RecordsOutliveWork'
  BY <1>16 DEF ImportThrows, Publish, RecordsOutliveWork, PhaseInv, TypeOK
<1>17. ASSUME NEW j \in Jobs, RollbackProgress(j) PROVE RecordsOutliveWork'
  BY <1>17 DEF RollbackProgress, Publish, RecordsOutliveWork, PhaseInv, TypeOK
<1>18. ASSUME NEW j \in Jobs, CompactStarts(j) PROVE RecordsOutliveWork'
  BY <1>18 DEF CompactStarts, Publish, RecordsOutliveWork, PhaseInv, TypeOK
<1>19. ASSUME NEW j \in Jobs, CompactEnds(j) PROVE RecordsOutliveWork'
  BY <1>19 DEF CompactEnds, Publish, RecordsOutliveWork, PhaseInv, TypeOK
<1>20. ASSUME NEW j \in Jobs, PublishOutcome(j) PROVE RecordsOutliveWork'
  BY <1>20 DEF PublishOutcome, Publish, RecordsOutliveWork, PhaseInv, TypeOK
<1>21. ASSUME NEW j \in Jobs, SetResult(j) PROVE RecordsOutliveWork'
  BY <1>21 DEF SetResult, RecordsOutliveWork, PhaseInv, TypeOK
<1>22. ASSUME NEW j \in Jobs, WorkerExits(j) PROVE RecordsOutliveWork'
  BY <1>22 DEF WorkerExits, RecordsOutliveWork, PhaseInv, TypeOK
<1>23. CASE UNCHANGED vars
  BY <1>23 DEF vars, RecordsOutliveWork, PhaseInv, TypeOK
<1>24. QED
  BY <1>1, <1>2, <1>3, <1>4, <1>5, <1>6, <1>7, <1>8, <1>9, <1>10, <1>11, <1>12,
     <1>13, <1>14, <1>15, <1>16, <1>17, <1>18, <1>19, <1>20, <1>21, <1>22,
     <1>23
  DEF Next, Requests, Main, Worker

\* A result is never withdrawn from a client that was told of it.
LEMMA ToldStep == TypeOK /\ OwnerInv /\ CompletedHasResult /\ [Next]_vars => CompletedHasResult'
<1> SUFFICES ASSUME TypeOK, OwnerInv, CompletedHasResult, [Next]_vars PROVE CompletedHasResult'
  OBVIOUS
<1>1. CASE Start
  BY <1>1 DEF Start, CompletedHasResult, OwnerInv, TypeOK
<1>2. CASE StartThrows
  BY <1>2 DEF StartThrows, CompletedHasResult, OwnerInv, TypeOK
<1>3. CASE EndAcceptLoop
  BY <1>3 DEF EndAcceptLoop, CompletedHasResult, OwnerInv, TypeOK
<1>4. ASSUME NEW j \in Jobs, WaitCall(j) PROVE CompletedHasResult'
  BY <1>4 DEF WaitCall, CompletedHasResult, OwnerInv, TypeOK
<1>5. ASSUME NEW j \in Jobs, CancelCheck(j) PROVE CompletedHasResult'
  BY <1>5 DEF CancelCheck, CompletedHasResult, OwnerInv, TypeOK
<1>6. ASSUME NEW j \in Jobs, RemoveErase(j) PROVE CompletedHasResult'
  BY <1>6 DEF RemoveErase, CompletedHasResult, OwnerInv, TypeOK
<1>7. CASE WaitCompleted
  BY <1>7 DEF WaitCompleted, WaitOver, CompletedHasResult, OwnerInv, TypeOK
<1>8. CASE WaitTimedOut
  BY <1>8 DEF WaitTimedOut, CompletedHasResult, OwnerInv, TypeOK
<1>9. CASE CancelRequest
  BY <1>9 DEF CancelRequest, CompletedHasResult, OwnerInv, TypeOK
<1>10. CASE RemoveRelease
  BY <1>10 DEF RemoveRelease, CompletedHasResult, OwnerInv, TypeOK
<1>11. ASSUME NEW j \in Jobs, DestructorStops(j) PROVE CompletedHasResult'
  BY <1>11 DEF DestructorStops, CompletedHasResult, OwnerInv, TypeOK
<1>12. CASE DestructorJoins
  BY <1>12 DEF DestructorJoins, CompletedHasResult, OwnerInv, TypeOK
<1>13. CASE DestructorDone
  BY <1>13 DEF DestructorDone, CompletedHasResult, OwnerInv, TypeOK
<1>14. ASSUME NEW j \in Jobs, WorkerStart(j) PROVE CompletedHasResult'
  BY <1>14 DEF WorkerStart, Publish, CompletedHasResult, OwnerInv, TypeOK
<1>15. ASSUME NEW j \in Jobs, ImportEnds(j) PROVE CompletedHasResult'
  BY <1>15 DEF ImportEnds, Publish, CompletedHasResult, OwnerInv, TypeOK
<1>16. ASSUME NEW j \in Jobs, ImportThrows(j) PROVE CompletedHasResult'
  BY <1>16 DEF ImportThrows, Publish, CompletedHasResult, OwnerInv, TypeOK
<1>17. ASSUME NEW j \in Jobs, RollbackProgress(j) PROVE CompletedHasResult'
  BY <1>17 DEF RollbackProgress, Publish, CompletedHasResult, OwnerInv, TypeOK
<1>18. ASSUME NEW j \in Jobs, CompactStarts(j) PROVE CompletedHasResult'
  BY <1>18 DEF CompactStarts, Publish, CompletedHasResult, OwnerInv, TypeOK
<1>19. ASSUME NEW j \in Jobs, CompactEnds(j) PROVE CompletedHasResult'
  BY <1>19 DEF CompactEnds, Publish, CompletedHasResult, OwnerInv, TypeOK
<1>20. ASSUME NEW j \in Jobs, PublishOutcome(j) PROVE CompletedHasResult'
  BY <1>20 DEF PublishOutcome, Publish, CompletedHasResult, OwnerInv, TypeOK
<1>21. ASSUME NEW j \in Jobs, SetResult(j) PROVE CompletedHasResult'
  BY <1>21 DEF SetResult, CompletedHasResult, TypeOK, Statuses, Terminal
<1>22. ASSUME NEW j \in Jobs, WorkerExits(j) PROVE CompletedHasResult'
  BY <1>22 DEF WorkerExits, CompletedHasResult, OwnerInv, TypeOK
<1>23. CASE UNCHANGED vars
  BY <1>23 DEF vars, CompletedHasResult, OwnerInv, TypeOK
<1>24. QED
  BY <1>1, <1>2, <1>3, <1>4, <1>5, <1>6, <1>7, <1>8, <1>9, <1>10, <1>11, <1>12,
     <1>13, <1>14, <1>15, <1>16, <1>17, <1>18, <1>19, <1>20, <1>21, <1>22,
     <1>23
  DEF Next, Requests, Main, Worker

\* The invariant is inductive.
LEMMA InvStep == IInv /\ [Next]_vars => IInv'
BY TypeStep, PhaseStep, StopStep, OwnerStep, WorkStep, ToldStep DEF IInv

-----------------------------------------------------------------------------
(* What a step may do to the statuses.                                     *)

\* The step of StatusMovesForward.
Forward ==
    \A j \in Jobs :
        /\ Phase[snapshot'[j]] >= Phase[snapshot[j]]
        /\ snapshot[j] \in Terminal => snapshot'[j] = snapshot[j]
        /\ result[j] # "none" => result'[j] = snapshot[j]

\* The step of CancelledOnRequest.
OnRequest ==
    \A j \in Jobs :
        snapshot'[j] = "Cancelled" /\ snapshot[j] # "Cancelled" => stop[j] /\ cancelled[j]

\* The phases in their order.
LEMMA PhaseValues ==
    /\ \A s \in Statuses : Phase[s] \in 0..5
    /\ Phase["Pending"] = 0 /\ Phase["Running"] = 1 /\ Phase["Cancelling"] = 2
    /\ Phase["RollingBack"] = 3 /\ Phase["Compacting"] = 4
    /\ \A s \in Terminal : Phase[s] = 5
BY DEF Phase, Statuses, Terminal

\* A step that publishes nothing.
LEMMA QuietStep ==
    ASSUME IInv, UNCHANGED <<snapshot, result>>
    PROVE  Forward /\ OnRequest
<1>1. \A j \in Jobs : Phase[snapshot[j]] \in Nat
  BY PhaseValues DEF IInv, TypeOK
<1>2. Forward
  BY <1>1 DEF Forward, IInv, PhaseInv
<1>3. QED BY <1>2 DEF OnRequest

\* A thread that has not told its outcome publishes a status of the same phase
\* or a later one.
LEMMA PublishForward ==
    ASSUME IInv, NEW j \in Jobs, NEW from, NEW to, NEW s \in Statuses,
           Publish(j, from, to, s),
           from \in {"starting", "importing", "rollback", "compacting", "mapping"},
           Phase[s] >= Phase[snapshot[j]],
           s = "Cancelled" => stop[j] /\ cancelled[j]
    PROVE  Forward /\ OnRequest
<1>1. /\ snapshot \in [Jobs -> Statuses]
      /\ snapshot' = [snapshot EXCEPT ![j] = s]
      /\ result' = result
      /\ worker[j] = from
  BY DEF Publish, IInv, TypeOK
<1>2. result[j] = "none" /\ snapshot[j] \notin Terminal
  BY <1>1 DEF IInv, PhaseInv, Terminal
<1>3. \A k \in Jobs : Phase[snapshot[k]] \in Nat
  BY <1>1, PhaseValues
<1>4. Forward
  BY <1>1, <1>2, <1>3 DEF Forward, IInv, PhaseInv
<1>5. QED BY <1>1, <1>4 DEF OnRequest

\* Every step keeps to both.
LEMMA StatusStep == IInv /\ [Next]_vars => Forward /\ OnRequest
<1> SUFFICES ASSUME IInv, [Next]_vars PROVE Forward /\ OnRequest
  OBVIOUS
<1>1. CASE UNCHANGED vars
  BY <1>1, QuietStep DEF vars
<1>2. CASE Requests
  BY <1>2, QuietStep
  DEF Requests, Start, StartThrows, EndAcceptLoop, WaitCall, CancelCheck, RemoveErase
<1>3. CASE Main
  BY <1>3, QuietStep
  DEF Main, WaitCompleted, WaitTimedOut, CancelRequest, RemoveRelease, DestructorStops,
      DestructorJoins, DestructorDone
<1>4. ASSUME NEW j \in Jobs, Worker(j) PROVE Forward /\ OnRequest
  <2>1. TypeOK /\ PhaseInv
    BY DEF IInv
  <2>2. CASE WorkerStart(j)
    <3>1. snapshot[j] = "Pending"
      BY <2>1, <2>2 DEF WorkerStart, Publish, PhaseInv
    <3>2. QED BY <2>2, <3>1, PublishForward, PhaseValues DEF WorkerStart, Statuses
  <2>3. CASE ImportEnds(j)
    <3>1. snapshot[j] = "Running"
      BY <2>1, <2>3 DEF ImportEnds, Publish, PhaseInv
    <3>2. \/ Publish(j, "importing", "rollback", "Cancelling")
          \/ Publish(j, "importing", "mapping", "Running")
      BY <2>3, <3>1 DEF ImportEnds
    <3>3. QED BY <3>1, <3>2, PublishForward, PhaseValues DEF Statuses
  <2>4. CASE ImportThrows(j)
    <3>1. snapshot[j] = "Running"
      BY <2>1, <2>4 DEF ImportThrows, Publish, PhaseInv
    <3>2. QED
      BY <2>4, <3>1, PublishForward, PhaseValues DEF ImportThrows, Statuses, Terminal
  <2>5. CASE RollbackProgress(j)
    <3>1. snapshot[j] \in {"Cancelling", "RollingBack"}
      BY <2>1, <2>5 DEF RollbackProgress, Publish, PhaseInv
    <3>2. QED BY <2>5, <3>1, PublishForward, PhaseValues DEF RollbackProgress, Statuses
  <2>6. CASE CompactStarts(j)
    <3>1. snapshot[j] \in {"Cancelling", "RollingBack"}
      BY <2>1, <2>6 DEF CompactStarts, Publish, PhaseInv
    <3>2. QED BY <2>6, <3>1, PublishForward, PhaseValues DEF CompactStarts, Statuses
  <2>7. CASE CompactEnds(j)
    <3>1. snapshot[j] = "Compacting"
      BY <2>1, <2>7 DEF CompactEnds, Publish, PhaseInv
    <3>2. Publish(j, "compacting", "mapping", "Compacting")
      BY <2>7, <3>1 DEF CompactEnds
    <3>3. QED BY <3>1, <3>2, PublishForward, PhaseValues DEF Statuses
  <2>8. CASE PublishOutcome(j)
    <3>1. snapshot[j] \in {"Running", "Compacting"}
      BY <2>1, <2>8 DEF PublishOutcome, Publish, PhaseInv
    <3>2. PICK o \in Outcomes(j) : Publish(j, "mapping", "ended", o)
      BY <2>8 DEF PublishOutcome
    <3>3. o \in Terminal /\ o \in Statuses
      BY DEF Outcomes, Terminal, Statuses
    <3>4. o = "Cancelled" => stop[j] /\ cancelled[j]
      BY DEF Outcomes, IInv, StopInv
    <3>5. QED BY <3>1, <3>2, <3>3, <3>4, PublishForward, PhaseValues
  <2>9. CASE SetResult(j)
    <3>1. \A k \in Jobs : result[k] # "none" => result'[k] = snapshot[k]
      BY <2>1, <2>9 DEF SetResult, PhaseInv, TypeOK
    <3>2. \A k \in Jobs : Phase[snapshot[k]] \in Nat
      BY <2>1, PhaseValues DEF TypeOK
    <3>3. snapshot' = snapshot
      BY <2>9 DEF SetResult
    <3>4. QED BY <3>1, <3>2, <3>3 DEF Forward, OnRequest
  <2>10. CASE WorkerExits(j)
    BY <2>10, QuietStep DEF WorkerExits
  <2>11. QED
    BY <1>4, <2>2, <2>3, <2>4, <2>5, <2>6, <2>7, <2>8, <2>9, <2>10 DEF Worker
<1>5. QED BY <1>1, <1>2, <1>3, <1>4 DEF Next

-----------------------------------------------------------------------------
(* The theorems.                                                           *)

\* All of the invariant holds in every reachable state.
THEOREM JobsInvariance == Spec => []IInv
<1>1. QED BY InvInit, InvStep, PTL DEF Spec

\* The type invariant.
THEOREM JobsTypeCorrect == Spec => []TypeOK
<1>1. IInv => TypeOK
  BY DEF IInv
<1>2. QED BY <1>1, JobsInvariance, PTL

\* The record of a job whose thread still works is in the map.
THEOREM RecordsCorrect == Spec => []RecordsOutliveWork
<1>1. IInv => RecordsOutliveWork
  BY DEF IInv
<1>2. QED BY <1>1, JobsInvariance, PTL

\* A job that a Wait reported complete has its result until it is removed.
THEOREM CompletionCorrect == Spec => []CompletedHasResult
<1>1. IInv => CompletedHasResult
  BY DEF IInv
<1>2. QED BY <1>1, JobsInvariance, PTL

\* The manager's destructor leaves no thread of a job it knew.
THEOREM DestructorCorrect == Spec => []NoWorkAfterDestructor
<1>1. IInv => NoWorkAfterDestructor
  BY DEF IInv, OwnerInv, NoWorkAfterDestructor, Runs
<1>2. QED BY <1>1, JobsInvariance, PTL

\* The status a client polls never goes back, and its result is the status it
\* showed first.
THEOREM StatusCorrect == Spec => StatusMovesForward
<1>1. IInv /\ [Next]_vars => [Forward]_vars
  BY StatusStep
<1>2. Spec => [][Forward]_vars
  BY <1>1, JobsInvariance, PTL DEF Spec
<1>3. QED BY <1>2 DEF Forward, StatusMovesForward

\* A job ends as Cancelled only if it was asked to stop.
THEOREM CancelCorrect == Spec => CancelledOnRequest
<1>1. IInv /\ [Next]_vars => [OnRequest]_vars
  BY StatusStep
<1>2. Spec => [][OnRequest]_vars
  BY <1>1, JobsInvariance, PTL DEF Spec
<1>3. QED BY <1>2 DEF OnRequest, CancelledOnRequest
=============================================================================
