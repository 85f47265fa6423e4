------------------------ MODULE ExternalBookConverter ------------------------
(***************************************************************************)
(* CExternalBookConverter::Convert: one run of the converter as a process  *)
(* of its own.  It is started suspended and let go only as a member of a   *)
(* job object, which kills it when its last handle closes, be it that      *)
(* Convert is done with it or that the host is gone.                       *)
(***************************************************************************)
EXTENDS Naturals

VARIABLES
    conv,            \* the place of Convert, or what it returned
    process,         \* the converter process of this run
    inJob,           \* it belongs to the job object, whose handle is open
    verdict,         \* how Convert goes on when its handles are closed
    output           \* there is a new file in the output directory

convVars == <<conv, process, inJob, verdict, output>>

Places  == {"prepare", "makeJob", "assign", "resume", "wait", "terminate", "close",
            "cleanup", "resolve"}
Results == {"none", "Succeeded", "Failed", "Cancelled", "threw"}

ConverterInit ==
    /\ conv = "none" /\ process = "none" /\ inJob = FALSE
    /\ verdict = "none" /\ output = FALSE

At(place) == conv = place

\* Mutant: the process runs as soon as it is created.
Running == "running"

Suspended == "suspended"

\* The output of before is removed and the directories are made; CreateProcess
\* with CREATE_SUSPENDED.  Whatever fails here is thrown.
Launch ==
    /\ At("prepare")
    /\ \/ conv' = "threw" /\ UNCHANGED process
       \/ conv' = "makeJob" /\ process' = Suspended
    /\ output' = FALSE
    /\ UNCHANGED <<inJob, verdict>>

\* The handles of the process have no owner yet: when the job object cannot be
\* made, the suspended process stays.
CreateKillOnCloseJob ==
    /\ At("makeJob")
    /\ conv' \in {"assign", "threw"}
    /\ UNCHANGED <<process, inJob, verdict, output>>

AssignProcessToKillOnCloseJob ==
    /\ At("assign")
    /\ \/ inJob' = TRUE /\ conv' = "resume" /\ UNCHANGED verdict
       \/ conv' = "terminate" /\ verdict' = "threw" /\ UNCHANGED inJob
    /\ UNCHANGED <<process, output>>

Resume ==
    /\ At("resume")
    /\ \/ process' = "running" /\ conv' = "wait" /\ UNCHANGED verdict
       \/ conv' = "terminate" /\ verdict' = "threw" /\ UNCHANGED process
    /\ UNCHANGED <<inJob, output>>

\* The converter itself.
WritesOutput ==
    /\ process = "running"
    /\ output' = TRUE
    /\ UNCHANGED <<conv, process, inJob, verdict>>

Exits ==
    /\ process = "running"
    /\ process' \in {"succeeded", "failed"}
    /\ UNCHANGED <<conv, inJob, verdict, output>>

HasExited == process \in {"succeeded", "failed"}

\* WaitForProcessWithCancellation: an exit is seen before a stop.
WaitEnds(stop) ==
    /\ At("wait")
    /\ \/ HasExited /\ conv' = "close"
          /\ verdict' = IF process = "succeeded" THEN "resolve" ELSE "Failed"
       \/ process = "running" /\ stop /\ conv' = "terminate" /\ verdict' = "cleanup"
       \/ conv' = "close" /\ verdict' = "threw"
    /\ UNCHANGED <<process, inJob, output>>

\* TerminateProcess, and after a while TerminateJobObject; either may fail.
TerminateProcessNoThrow ==
    /\ At("terminate")
    /\ conv' = "close"
    /\ process' \in {process, "failed"}
    /\ UNCHANGED <<inJob, verdict, output>>

\* The last handle of the job object closes.
KillWithJob ==
    /\ process' = IF inJob /\ ~HasExited THEN "failed" ELSE process
    /\ inJob' = FALSE

CloseHandles ==
    /\ At("close")
    /\ KillWithJob
    /\ conv' = verdict /\ verdict' = "none"
    /\ UNCHANGED output

\* CleanupProducedFiles, as far as the files can be removed.
CleanupProducedFiles ==
    /\ At("cleanup")
    /\ output' \in {FALSE, output}
    /\ conv' = "Cancelled"
    /\ UNCHANGED <<process, inJob, verdict>>

\* ResolveSingleProducedFile, which may find several new files and none of them a
\* book of the wanted format, and the rename to the expected path.
ResolveProducedFile ==
    /\ At("resolve")
    /\ conv' \in {"Failed", "threw"} \union (IF output THEN {"Succeeded"} ELSE {})
    /\ UNCHANGED <<process, inJob, verdict, output>>

Convert(stop) ==
    \/ Launch \/ CreateKillOnCloseJob \/ AssignProcessToKillOnCloseJob \/ Resume
    \/ WaitEnds(stop) \/ TerminateProcessNoThrow \/ CloseHandles
    \/ CleanupProducedFiles \/ ResolveProducedFile

TheProcess == WritesOutput \/ Exits
=============================================================================
