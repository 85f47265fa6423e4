----------------------------- MODULE HostLifetime -----------------------------
(***************************************************************************)
(* The host process from its start to its end.  The main thread serves one *)
(* call per pipe instance, one after another; two watchdogs turn the UI's  *)
(* event and the end of the UI into a stop of the accept loop and wake it  *)
(* by connecting to the pipe once.  The UI is at the same time the client, *)
(* the one who asks the host to stop and the one who kills it.             *)
(***************************************************************************)
EXTENDS Naturals, FiniteSets

CONSTANTS
    Calls,           \* the calls the UI may make, a thread and a pipe client each
    Requests,        \* what it may ask for: [method, shape]
    MaxSessions      \* options.MaxSessions; 0 stands for no limit

Shapes == {"valid", "foreign", "truncatedPayload"}

\* EPipeMethod by what the adapter does, with a method of a newer client.
ImportMethods  == {"StartImport", "WaitImportJob"}
CatalogMethods == {"ExportBook"}
IsKnownMethod(m) == m \in ImportMethods \union CatalogMethods

ASSUME RequestsAssumption ==
    /\ \A r \in Requests : r.shape \in Shapes /\ r.method \in STRING
    /\ MaxSessions \in Nat

Dogs    == {"event", "parent"}
Nobody  == "nobody"

VARIABLES
    main,            \* the place of the host's main thread
    peer,            \* who is connected to the pipe instance
    served,          \* servedSessions
    response,        \* the envelope about to be written
    logging,         \* the logger exists
    requested,       \* SHostShutdownState.Requested
    dog,             \* the watchdogs
    job,             \* the thread of an import job
    call, request,   \* where each call is, and what it asks
    sent, reply,     \* the bytes in either direction of its connection
    executed,        \* when the host executed it
    ui, event,       \* the UI; its shutdown event
    attached         \* the host is in the UI's job object

host    == <<main, peer, served, response, logging, requested, dog, job, executed>>
clients == <<call, request, sent, reply>>
outside == <<ui, event, attached>>
vars    == <<host, clients, outside>>

Over    == {"exited", "aborted", "killed"}
Alive   == main \notin Over
Replies == {"none", "ok", "internalError", "invalid", "invalidWithoutId"}

Init ==
    /\ main = "starting" /\ peer = Nobody /\ served = 0 /\ response = "none"
    /\ logging = TRUE /\ requested = FALSE
    /\ dog = [d \in Dogs |-> "watching"] /\ job = "none"
    /\ call = [c \in Calls |-> "idle"] /\ request \in [Calls -> Requests]
    /\ sent = [c \in Calls |-> FALSE] /\ reply = [c \in Calls |-> "none"]
    /\ executed = [c \in Calls |-> "no"]
    /\ ui = "up" /\ event = FALSE /\ attached \in BOOLEAN

-----------------------------------------------------------------------------
(* The accept loop of main().                                              *)

\* A client holds its end of the pipe.
Open(c) == c \in Calls /\ call[c] \in {"connected", "waiting"}

\* Mutant: nobody looks at the flag.
NeverSeen == FALSE

StopSeen == requested

Loop == IF StopSeen THEN "stopped" ELSE "top"

\* The library is prepared and migrated, and everything is wired; a failure
\* of it ends the process.
Start ==
    /\ main = "starting"
    /\ main' \in {"top", "stopped"}
    /\ UNCHANGED <<peer, served, response, logging, requested, dog, job, executed, clients, outside>>

\* CNamedPipeServer: the only instance there may be.  While a client still holds
\* its end of the one before, the attempt fails and the loop comes around again.
CreateServer ==
    /\ main = "top" /\ ~StopSeen
    /\ MaxSessions = 0 \/ served < MaxSessions
    /\ \A c \in Calls : ~Open(c)
    /\ main' = "listening" /\ peer' = Nobody
    /\ UNCHANGED <<served, response, logging, requested, dog, job, executed, clients, outside>>

LoopEnds ==
    /\ main = "top"
    /\ StopSeen \/ (MaxSessions # 0 /\ served >= MaxSessions)
    /\ main' = "stopped" /\ peer' = Nobody
    /\ UNCHANGED <<served, response, logging, requested, dog, job, executed, clients, outside>>

\* WaitForClient returns, also when the client came before it was called.
WaitForClient ==
    /\ main = "listening" /\ peer # Nobody
    /\ main' = IF StopSeen THEN "stopped" ELSE "read"
    /\ UNCHANGED <<peer, served, response, logging, requested, dog, job, executed, clients, outside>>

\* ParseFromString of the typed request.
PayloadParses(r) == r.shape # "truncatedPayload"

\* DeserializeRequestEnvelope: magic, version, a known method, no trailing bytes.
EnvelopeParses(r) == r.shape # "foreign" /\ IsKnownMethod(r.method)

\* ReadMessage, without a timeout; what a client wrote before it left arrives.
ReadRequest ==
    /\ main = "read" /\ peer \in Calls /\ sent[peer]
    /\ IF EnvelopeParses(request[peer])
       THEN IF PayloadParses(request[peer])
            THEN main' = "dispatch" /\ UNCHANGED response
            ELSE main' = "write" /\ response' = "invalid"
       ELSE main' = "write" /\ response' = "invalidWithoutId"
    /\ UNCHANGED <<peer, served, logging, requested, dog, job, executed, clients, outside>>

\* What the adapter may answer: the operations of the catalog report their errors
\* in a regular response, an exception of an import operation becomes a status.
AdapterOutcomes(r) == IF r.method \in CatalogMethods THEN {"ok"} ELSE {"ok", "internalError"}

\* Dispatch and the adapter.  WaitImportJob holds the session until the job is
\* over or its time is up.
Dispatch ==
    /\ main = "dispatch"
    /\ response' \in AdapterOutcomes(request[peer])
    /\ executed' = [executed EXCEPT ![peer] = IF requested THEN "afterStop" ELSE "beforeStop"]
    /\ job' = IF request[peer].method = "StartImport" /\ response' = "ok" /\ job = "none"
              THEN "running" ELSE job
    /\ main' = "write"
    /\ UNCHANGED <<peer, served, logging, requested, dog, clients, outside>>

WriteResponse ==
    /\ main = "write" /\ Open(peer)
    /\ reply' = [reply EXCEPT ![peer] = response]
    /\ served' = IF StopSeen THEN served ELSE served + 1
    /\ main' = Loop
    /\ UNCHANGED <<peer, response, logging, requested, dog, job, executed, call, request, sent, outside>>

\* The client closed its end, or was a watchdog: accepting, reading or writing
\* throws, which costs this session only.
SessionBreaks ==
    /\ \/ main = "listening" /\ peer # Nobody /\ ~Open(peer)
       \/ main = "read" /\ ~Open(peer) /\ ~(peer \in Calls /\ sent[peer])
       \/ main = "write" /\ ~Open(peer)
    /\ main' = Loop
    /\ UNCHANGED <<peer, served, response, logging, requested, dog, job, executed, clients, outside>>

-----------------------------------------------------------------------------
(* The end of main().                                                      *)

LogOff ==
    /\ main = "stopped"
    /\ logging' = FALSE
    /\ main' = "draining"
    /\ UNCHANGED <<peer, served, response, requested, dog, job, executed, clients, outside>>

JobsJoined == job \in {"none", "over"}

\* ~CImportJobManager stops and joins the job before anything it uses is gone.
Drain ==
    /\ main = "draining" /\ JobsJoined
    /\ main' = "joining"
    /\ UNCHANGED <<peer, served, response, logging, requested, dog, job, executed, clients, outside>>

\* The watchdogs' destructors.
Exit ==
    /\ main = "joining" /\ \A d \in Dogs : dog[d] = "done"
    /\ main' = "exited"
    /\ UNCHANGED <<peer, served, response, logging, requested, dog, job, executed, clients, outside>>

-----------------------------------------------------------------------------
(* The watchdogs and the job's thread.                                     *)

Signalled(d) == IF d = "event" THEN event ELSE ui = "crashed"

\* The signal, or a failed wait.  It is logged before the flag is set, and a
\* logger that is gone already is an exception nobody catches.
Bark(d) ==
    /\ Alive /\ dog[d] = "watching" /\ Signalled(d)
    /\ IF logging
       THEN requested' = TRUE /\ dog' = [dog EXCEPT ![d] = "waking"] /\ UNCHANGED main
       ELSE main' = "aborted" /\ UNCHANGED <<requested, dog>>
    /\ UNCHANGED <<peer, served, response, logging, job, executed, clients, outside>>

\* TryWakePipeServer, once: it connects if an instance is free, and it fails if
\* there is none or it stays busy for 250 ms.
Wake(d) ==
    /\ Alive /\ dog[d] = "waking"
    /\ dog' = [dog EXCEPT ![d] = "done"]
    /\ peer' = IF main = "listening" /\ peer = Nobody THEN d ELSE peer
    /\ UNCHANGED <<main, served, response, logging, requested, job, executed, clients, outside>>

Release(d) ==
    /\ main = "joining" /\ dog[d] = "watching"
    /\ dog' = [dog EXCEPT ![d] = "done"]
    /\ UNCHANGED <<main, peer, served, response, logging, requested, job, executed, clients, outside>>

\* The job asks IsInitialized, and logs after that: between the two the logger
\* may go, and what is thrown then ends the job; or, from a noexcept function of
\* the rollback, the process; or, from a worker of a ZIP archive, the worker alone,
\* for whose event the job then waits for ever (ZipImport.Die).
JobAsks ==
    /\ Alive /\ job = "running" /\ logging
    /\ job' = "logging"
    /\ UNCHANGED <<main, peer, served, response, logging, requested, dog, executed, clients, outside>>

JobLogs ==
    /\ Alive /\ job = "logging"
    /\ IF logging THEN job' = "running" /\ UNCHANGED main
       ELSE \/ job' \in {"over", "stuck"} /\ UNCHANGED main
            \/ main' = "aborted" /\ UNCHANGED job
    /\ UNCHANGED <<peer, served, response, logging, requested, dog, executed, clients, outside>>

JobEnds ==
    /\ Alive /\ job = "running"
    /\ job' = "over"
    /\ UNCHANGED <<main, peer, served, response, logging, requested, dog, executed, clients, outside>>

-----------------------------------------------------------------------------
(* CNamedPipeClient::Call.                                                 *)

Begin(c) ==
    /\ ui = "up" /\ main # "starting" /\ call[c] = "idle"
    /\ call' = [call EXCEPT ![c] = "begun"]
    /\ UNCHANGED <<host, request, sent, reply, outside>>

\* WaitNamedPipe sees a free instance, ...
SeeServer(c) ==
    /\ call[c] = "begun" /\ main = "listening" /\ peer = Nobody
    /\ call' = [call EXCEPT ![c] = "seen"]
    /\ UNCHANGED <<host, request, sent, reply, outside>>

\* ... and CreateFile gets it, unless somebody else did.
Connect(c) ==
    /\ call[c] = "seen"
    /\ IF main = "listening" /\ peer = Nobody
       THEN peer' = c /\ call' = [call EXCEPT ![c] = "connected"]
       ELSE call' = [call EXCEPT ![c] = "failed"] /\ UNCHANGED peer
    /\ UNCHANGED <<main, served, response, logging, requested, dog, job, executed,
                   request, sent, reply, outside>>

Write(c) ==
    /\ call[c] = "connected" /\ Alive /\ peer = c
    /\ sent' = [sent EXCEPT ![c] = TRUE]
    /\ call' = [call EXCEPT ![c] = "waiting"]
    /\ UNCHANGED <<host, request, reply, outside>>

\* Mutant: whatever arrives is taken for the answer.
AnyId(answer) == IF answer = "none" THEN "failed" ELSE "ok"

\* The envelope's id and status.
Outcome(answer) ==
    CASE answer = "ok" -> "ok"
      [] answer = "invalid" -> "refused"
      [] OTHER -> "failed"

Read(c) ==
    /\ call[c] = "waiting" /\ reply[c] # "none"
    /\ call' = [call EXCEPT ![c] = Outcome(reply[c])]
    /\ UNCHANGED <<host, request, sent, reply, outside>>

\* Its time is up, or the pipe broke: the handle is closed, and the host may
\* still execute what was sent.
GiveUp(c) ==
    /\ call[c] \in {"begun", "seen", "connected", "waiting"}
    /\ call' = [call EXCEPT ![c] = "failed"]
    /\ UNCHANGED <<host, request, sent, reply, outside>>

-----------------------------------------------------------------------------
(* CoreHostProcess of the UI.                                              *)

\* DisposeAsync signals the event; when that fails it goes straight to the kill.
Dispose ==
    /\ ui = "up" /\ main # "starting"
    /\ ui' = "disposing" /\ event' \in BOOLEAN
    /\ UNCHANGED <<host, clients, attached>>

\* Mutant: the UI goes without its host.
Left == UNCHANGED main

Terminated == main' = "killed"

\* After five seconds the process tree is killed; so it is when the start fails.
Kill ==
    /\ ui = "disposing" \/ (ui = "up" /\ main = "starting")
    /\ Alive /\ Terminated
    /\ ui' = "disposed"
    /\ UNCHANGED <<peer, served, response, logging, requested, dog, job, executed, clients, event, attached>>

Disposed ==
    /\ ui = "disposing" /\ ~Alive
    /\ ui' = "disposed"
    /\ UNCHANGED <<host, clients, event, attached>>

\* With the UI its job object goes, and the host in it.
Crash ==
    /\ ui = "up"
    /\ ui' = "crashed"
    /\ main' = IF attached /\ Alive THEN "killed" ELSE main
    /\ call' = [c \in Calls |-> IF call[c] \in {"begun", "seen", "connected", "waiting"}
                                THEN "failed" ELSE call[c]]
    /\ UNCHANGED <<peer, served, response, logging, requested, dog, job, executed,
                   request, sent, reply, event, attached>>

-----------------------------------------------------------------------------
Main == \/ Start \/ CreateServer \/ LoopEnds \/ WaitForClient \/ ReadRequest \/ Dispatch
        \/ WriteResponse \/ SessionBreaks \/ LogOff \/ Drain \/ Exit
Watch(d)  == Bark(d) \/ Wake(d) \/ Release(d)
Job       == JobAsks \/ JobLogs \/ JobEnds
Client(c) == SeeServer(c) \/ Connect(c) \/ Write(c) \/ Read(c) \/ GiveUp(c)
Ending    == Kill \/ Disposed

Next == \/ Main \/ Job \/ Dispose \/ Ending \/ Crash
        \/ \E d \in Dogs : Watch(d)
        \/ \E c \in Calls : Begin(c) \/ Client(c)

Spec ==
    /\ Init /\ [][Next]_vars
    /\ WF_vars(Main) /\ WF_vars(Ending)
    /\ WF_vars(JobLogs) /\ SF_vars(JobEnds)
    /\ \A d \in Dogs : WF_vars(Watch(d))
    /\ \A c \in Calls : WF_vars(Read(c)) /\ WF_vars(GiveUp(c))

-----------------------------------------------------------------------------
(* Properties.                                                             *)

\* What a caller is told is true of its own call: an answer means that the host
\* executed it, a refusal that it did not and will not.
AnswersAreTrue ==
    \A c \in Calls :
        /\ call[c] = "ok" => executed[c] # "no" /\ PayloadParses(request[c])
        /\ call[c] = "refused" => executed[c] = "no"

\* After a stop was requested at most the call that was being served is executed,
\* however many clients are waiting for the pipe.
StopEndsService ==
    Cardinality({c \in Calls : executed[c] = "afterStop"}) <= 1

\* The job's thread is joined, and waits for a worker that is dead.
JoinsForEver == main = "draining" /\ job = "stuck"

\* The host ends with the UI that disposes of it, by the kill if need be, since the
\* only wake may be lost; and a wake that gets through ends it without the kill,
\* except when the job cannot be joined.
HostEnds ==
    /\ ui = "disposing" ~> main \in Over
    /\ (peer \in Dogs /\ requested) ~> main \in Over \/ JoinsForEver
=============================================================================
