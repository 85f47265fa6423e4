------------------------------ MODULE ZipImport ------------------------------
(***************************************************************************)
(* CZipImportCoordinator::Run: one thread walks through the archive and    *)
(* extracts the books one by one (zip_t is not thread-safe), a pool of     *)
(* workers imports what was extracted and removes it.  All extracted files *)
(* lie under one directory of the job's workspace, at their own names, so  *)
(* entries of one directory of the archive share a directory on disk.      *)
(***************************************************************************)
EXTENDS Naturals, Sequences, FiniteSets

CONSTANTS
    Archives,        \* the archives: their entries in order
    KindOf,          \* what the name of each entry says of it
    PathOf,          \* where it is extracted to: a directory and a file name
    Permits          \* slots of the semaphore inFlight

Entries == UNION {{a[n] : n \in DOMAIN a} : a \in Archives}
Kinds   == {"directory", "nested", "unsafe", "unsupported", "unmappable", "book"}

ASSUME ArchiveAssumption ==
    /\ Archives \subseteq Seq(Entries)
    /\ \A a \in Archives : \A m, n \in DOMAIN a : a[m] = a[n] => m = n
    /\ \A e \in Entries : KindOf[e] \in Kinds
    /\ Permits \in Nat \ {0}

VARIABLES
    archive,         \* the archive being imported
    phase,           \* the place of the coordinator's thread
    scanned, total,  \* entries counted so far; totalEntries
    index,           \* entries done with in the loop
    at,              \* where each entry is
    result,          \* its status
    read,            \* the bytes its importer worked on
    file,            \* the bytes at each path: the entry they came from, of which the
                     \* end may be missing (the write's outcome is not looked at)
    dirs,            \* the directories under "extracted"
    queue, pending,  \* progressEvents; submittedWorkers - completedWorkers
    processed,       \* processedEntries, as reported to the sink
    slots,           \* permits left
    stop             \* the job's stop token

vars == <<archive, phase, scanned, total, index, at, result, read, file, dirs, queue, pending, processed,
          slots, stop>>

Nothing   == "nothing"
Directory(e) == PathOf[e][1]
Dirs      == {Directory(e) : e \in Entries}
Current   == archive[index + 1]
Immediate == {"NestedArchiveSkipped", "UnsupportedEntry"}
Statuses  == {"Imported", "Skipped", "Failed", "Cancelled"} \union Immediate
Over      == {"returned", "threw"}

\* Mutant: entries are told apart by their file names only.
PathByName(e) == <<"extracted", PathOf[e][2]>>

Extracted(e) == PathOf[e]

Init ==
    /\ archive \in Archives
    /\ phase = "scan" /\ scanned = 0 /\ total = 0 /\ index = 0
    /\ at = [e \in Entries |-> "idle"] /\ result = [e \in Entries |-> "none"]
    /\ read = [e \in Entries |-> Nothing]
    /\ file = [p \in {Extracted(e) : e \in Entries} |-> Nothing] /\ dirs = {}
    /\ queue = <<>> /\ pending = 0 /\ processed = 0 /\ slots = Permits
    /\ stop = FALSE

-----------------------------------------------------------------------------
(* The coordinator's thread.                                               *)

\* Mutant: only what will be imported is planned for.
PlannedBook(e) == KindOf[e] = "book"

Planned(e) == KindOf[e] # "directory"

\* CountPlannedEntries, which a stop breaks off.
Scan ==
    /\ phase = "scan"
    /\ IF scanned < Len(archive) /\ ~stop
       THEN /\ scanned' = scanned + 1
            /\ total' = total + (IF Planned(archive[scanned + 1]) THEN 1 ELSE 0)
            /\ UNCHANGED phase
       ELSE phase' = "next" /\ UNCHANGED <<scanned, total>>
    /\ UNCHANGED <<archive, index, at, result, read, file, dirs, queue, pending, processed,
                   slots, stop>>

\* An entry that gets its result without a worker.
Answered(s) ==
    /\ result' = [result EXCEPT ![Current] = s]
    /\ at' = [at EXCEPT ![Current] = "ended"]
    /\ processed' = processed + 1
    /\ index' = index + 1

LoopEnds ==
    /\ phase = "next"
    /\ index = Len(archive) \/ stop
    /\ phase' = "await"
    /\ UNCHANGED <<archive, scanned, total, index, at, result, read, file, dirs, queue, pending, processed,
                   slots, stop>>

\* Mutant: the permit of an entry that cannot be extracted is lost.
PermitLost == slots

\* Mutant: the handler releases the permit the guard releases as well.
PermitTwice == slots + 2

PermitBack == slots + 1

\* An exception leaves Run before the loop's end: the archive or a name cannot be
\* read, or the logger was shut down between the look at it and the call.  The
\* handler of a failed extraction gives the permit back before it logs.
Throw ==
    /\ \/ phase = "scan" /\ UNCHANGED slots
       \/ phase = "next" /\ index < Len(archive) /\ ~stop /\ UNCHANGED slots
       \/ phase \in {"directory", "write"} /\ slots' = PermitBack
    /\ phase' = "unwind"
    /\ UNCHANGED <<archive, scanned, total, index, at, result, read, file, dirs, queue, pending, processed,
                   stop>>

\* The filters of the loop; a book has to wait for a permit.
NextEntry ==
    /\ phase = "next" /\ index < Len(archive) /\ ~stop
    /\ CASE KindOf[Current] = "directory"   -> index' = index + 1
                                               /\ UNCHANGED <<phase, at, result, processed>>
         [] KindOf[Current] = "nested"      -> Answered("NestedArchiveSkipped")
                                               /\ UNCHANGED phase
         [] KindOf[Current] \in {"unsafe", "unsupported"} -> Answered("UnsupportedEntry")
                                               /\ UNCHANGED phase
         [] KindOf[Current] = "unmappable"  -> phase' = "unwind"
                                               /\ UNCHANGED <<index, at, result, processed>>
         [] KindOf[Current] = "book"        -> phase' = "acquire"
                                               /\ UNCHANGED <<index, at, result, processed>>
    /\ UNCHANGED <<archive, scanned, total, read, file, dirs, queue, pending, slots, stop>>

Acquire ==
    /\ phase = "acquire" /\ slots > 0
    /\ slots' = slots - 1
    /\ phase' = "directory"
    /\ UNCHANGED <<archive, scanned, total, index, at, result, read, file, dirs, queue, pending, processed,
                   stop>>

\* ExtractEntryToWorkspace: EnsureDirectory, then the bytes are read, then the
\* file is opened in the directory and written.
MakeDirectory ==
    /\ phase = "directory"
    /\ dirs' = dirs \union {Directory(Current)}
    /\ phase' = "write"
    /\ UNCHANGED <<archive, scanned, total, index, at, result, read, file, queue, pending, processed, slots,
                   stop>>

\* The entry cannot be read, or its directory or file cannot be made (a worker may
\* have removed the directory again).
ExtractFails ==
    /\ phase \in {"directory", "write"}
    /\ Answered("Failed")
    /\ slots' = PermitBack
    /\ phase' = "next"
    /\ UNCHANGED <<archive, scanned, total, read, file, dirs, queue, pending, stop>>

\* What output.write does goes unnoticed: a file cut short is submitted as well.
ExtractAndSubmit ==
    /\ phase = "write" /\ Directory(Current) \in dirs
    /\ file' = [file EXCEPT ![Extracted(Current)] = Current]
    /\ at' = [at EXCEPT ![Current] = "running"]
    /\ pending' = pending + 1
    /\ index' = index + 1
    /\ phase' = "next"
    /\ UNCHANGED <<archive, scanned, total, result, read, dirs, queue, processed, slots, stop>>

ApplyEvent ==
    /\ phase \in {"next", "await"} /\ queue # <<>>
    /\ processed' = processed + 1
    /\ queue' = Tail(queue)
    /\ pending' = pending - 1
    /\ UNCHANGED <<archive, phase, scanned, total, index, at, result, read, file, dirs, slots, stop>>

AllEnded == \A e \in Entries : at[e] \in {"idle", "ended", "died"}

\* The futures are resolved and the workspace is removed; the log lines after that
\* may throw.
Return ==
    /\ phase = "await" /\ pending = 0 /\ AllEnded
    /\ phase' \in Over
    /\ file' = [p \in DOMAIN file |-> Nothing]
    /\ dirs' = {}
    /\ UNCHANGED <<archive, scanned, total, index, at, result, read, queue, pending, processed, slots,
                   stop>>

\* The pool's destructor joins the workers, and what they extracted stays in the
\* workspace.  (The queue is destroyed before the pool: what a worker publishes
\* meanwhile is undefined behaviour, and is read by nobody here.)
Unwound ==
    /\ phase = "unwind" /\ AllEnded
    /\ phase' = "threw"
    /\ UNCHANGED <<archive, scanned, total, index, at, result, read, file, dirs, queue, pending, processed,
                   slots, stop>>

-----------------------------------------------------------------------------
(* A worker.                                                               *)

Thread == <<archive, phase, scanned, total, index, pending, processed, stop>>

\* The importer fails, or works on the bytes it finds at the path.
Import(e) ==
    /\ at[e] = "running"
    /\ \E s \in {"Skipped", "Failed", "Cancelled", "Imported"} :
          /\ s = "Cancelled" => stop
          /\ s = "Imported" => file[Extracted(e)] # Nothing
          /\ result' = [result EXCEPT ![e] = s]
    /\ read' = [read EXCEPT ![e] = file[Extracted(e)]]
    /\ at' = [at EXCEPT ![e] = "cleanup"]
    /\ UNCHANGED <<Thread, file, dirs, queue, slots>>

\* CleanupExtractedEntryNoThrow: first the file, if it can be removed, ...
RemoveExtracted(e) ==
    /\ at[e] = "cleanup"
    /\ file' \in {file, [file EXCEPT ![Extracted(e)] = Nothing]}
    /\ at' = [at EXCEPT ![e] = "tidy"]
    /\ UNCHANGED <<Thread, result, read, dirs, queue, slots>>

\* ... then its directory, if it is empty.
RemoveEmptyDirectory(e) ==
    /\ at[e] = "tidy"
    /\ dirs' = IF \E p \in DOMAIN file : p[1] = Directory(e) /\ file[p] # Nothing
               THEN dirs ELSE dirs \ {Directory(e)}
    /\ at' = [at EXCEPT ![e] = "publish"]
    /\ UNCHANGED <<Thread, result, read, file, queue, slots>>

Publish(e) ==
    /\ at[e] = "publish"
    /\ queue' = Append(queue, e)
    /\ at' = [at EXCEPT ![e] = "leave"]
    /\ UNCHANGED <<Thread, result, read, file, dirs, slots>>

\* An exception on the way to QueueProgressEvent (a log line when the host shuts
\* logging down, no memory) ends in the future; semGuard gives the permit back.
Die(e) ==
    /\ at[e] = "publish"
    /\ at' = [at EXCEPT ![e] = "died"]
    /\ slots' = slots + 1
    /\ UNCHANGED <<Thread, result, read, file, dirs, queue>>

\* semGuard goes out of scope.
Leave(e) ==
    /\ at[e] = "leave"
    /\ at' = [at EXCEPT ![e] = "ended"]
    /\ slots' = slots + 1
    /\ UNCHANGED <<Thread, result, read, file, dirs, queue>>

Work(e) ==
    Import(e) \/ RemoveExtracted(e) \/ RemoveEmptyDirectory(e) \/ Publish(e) \/ Die(e) \/ Leave(e)

-----------------------------------------------------------------------------
Coordinator ==
    \/ Scan \/ Throw \/ NextEntry \/ LoopEnds \/ Acquire \/ MakeDirectory \/ ExtractFails
    \/ ExtractAndSubmit \/ ApplyEvent \/ Return \/ Unwound

Stop ==
    /\ ~stop /\ phase \notin Over
    /\ stop' = TRUE
    /\ UNCHANGED <<archive, phase, scanned, total, index, at, result, read, file, dirs, queue, pending,
                   processed, slots>>

Next == Coordinator \/ Stop \/ \E e \in Entries : Work(e)

Spec ==
    /\ Init /\ [][Next]_vars
    /\ WF_vars(Coordinator)
    /\ \A e \in Entries : WF_vars(Work(e))

-----------------------------------------------------------------------------
(* Properties.                                                             *)

\* The semaphore bounds the extracted files that wait for a worker, are worked
\* on or are about to be removed, also when extractions fail.
ExtractedBounded ==
    /\ slots \in 0..Permits
    /\ Cardinality({e \in Entries : at[e] \in {"running", "cleanup"}}) <= Permits

\* A book is imported from its own bytes, whatever its neighbours of the same
\* directory, or of the same name in another directory, do meanwhile; only books
\* with one and the same path get in each other's way.
OwnBytes ==
    LET books == {archive[n] : n \in DOMAIN archive} \intersect {e \in Entries : KindOf[e] = "book"}
    IN  \A e \in books :
            result[e] = "Imported" /\ (\A d \in books \ {e} : PathOf[d] # PathOf[e]) =>
                read[e] = e

\* The progress shown stays within the total of the scan, wherever a stop breaks
\* off the scan or the loop, and counts at the return each entry that was begun,
\* once.
ProgressTrue ==
    /\ processed <= total
    /\ phase = "returned" => processed = Cardinality({e \in Entries : result[e] # "none"})

\* The loop over drainProgressEvents waits for nobody but workers that died before
\* they queued their events.
Forsaken ==
    /\ phase = "await" /\ queue = <<>>
    /\ pending > 0 /\ pending = Cardinality({e \in Entries : at[e] = "died"})

\* Run ends, or is left waiting for the events of dead workers alone: no permit, no
\* living worker and no queued event is ever waited for in vain.
RunReturns == <>(phase \in Over \/ Forsaken)
=============================================================================
