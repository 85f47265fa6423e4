-------------------------- MODULE HostLifetimeProofs --------------------------
(***************************************************************************)
(* Theorems about HostLifetime, for every number of callers and of         *)
(* sessions.                                                               *)
(***************************************************************************)
EXTENDS HostLifetime, FiniteSetTheorems, TLAPS

-----------------------------------------------------------------------------
(* The inductive invariants.                                               *)

\* What the host holds for the call it is serving.
ServingInv ==
    /\ main = "dispatch" => peer \in Calls /\ PayloadParses(request[peer])
    /\ main = "write" =>
           /\ peer \in Calls
           /\ response = "ok" => executed[peer] # "no" /\ PayloadParses(request[peer])
           /\ response = "invalid" => ~PayloadParses(request[peer])

\* What was executed could be understood, and what was answered is true of it.
AnswerInv ==
    /\ DOMAIN executed = Calls /\ DOMAIN reply = Calls /\ DOMAIN call = Calls
    /\ ServingInv
    /\ \A c \in Calls :
          /\ executed[c] # "no" => PayloadParses(request[c])
          /\ reply[c] = "ok" => executed[c] # "no"
          /\ reply[c] = "invalid" => ~PayloadParses(request[c])
          /\ call[c] = "ok" => executed[c] # "no"
          /\ call[c] = "refused" => ~PayloadParses(request[c])

\* The places of the main thread from which it serves no further call once a stop
\* was requested.
Leaving == {"write", "stopped", "draining", "joining"} \union Over

\* A call executed after the request to stop is the last one.
StopInv ==
    /\ DOMAIN executed = Calls
    /\ \A c \in Calls : executed[c] = "afterStop" => requested /\ main \in Leaving
    /\ \A c, d \in Calls : executed[c] = "afterStop" /\ executed[d] = "afterStop" => c = d

-----------------------------------------------------------------------------
(* Answers.                                                                *)

\* The invariant of the answers holds at the start.
LEMMA AnswerInit == Init => AnswerInv
  BY DEF Init, AnswerInv, ServingInv

\* Steps that leave calls, replies and executions alone, and after which nothing
\* is being served that was not served before.
LEMMA AnswerStutter ==
    ASSUME AnswerInv, UNCHANGED <<request, executed, reply, call>>,
           main' \notin {"dispatch", "write"} \/ UNCHANGED <<main, peer, response>>
    PROVE  AnswerInv'
  BY DEF AnswerInv, ServingInv, PayloadParses

\* Every step keeps the invariant of the answers.
LEMMA AnswerNext == AnswerInv /\ [Next]_vars => AnswerInv'
<1> SUFFICES ASSUME AnswerInv, [Next]_vars PROVE AnswerInv'
  OBVIOUS
<1> USE DEF host, clients, outside
<1>1. CASE Start \/ CreateServer \/ LoopEnds \/ WaitForClient \/ LogOff \/ Drain \/ Exit
  BY <1>1, AnswerStutter DEF Start, CreateServer, LoopEnds, WaitForClient, LogOff, Drain, Exit
<1>2. CASE ReadRequest
  <2>1. UNCHANGED <<request, executed, reply, call, peer>> /\ peer \in Calls
    BY <1>2 DEF ReadRequest
  <2>2. ServingInv'
    <3>1. CASE EnvelopeParses(request[peer]) /\ PayloadParses(request[peer])
      BY <1>2, <2>1, <3>1 DEF ReadRequest, ServingInv, PayloadParses
    <3>2. CASE EnvelopeParses(request[peer]) /\ ~PayloadParses(request[peer])
      BY <1>2, <2>1, <3>2 DEF ReadRequest, ServingInv, PayloadParses
    <3>3. CASE ~EnvelopeParses(request[peer])
      BY <1>2, <2>1, <3>3 DEF ReadRequest, ServingInv, PayloadParses
    <3>4. QED
      BY <3>1, <3>2, <3>3
  <2>3. QED
    BY <2>1, <2>2 DEF AnswerInv, PayloadParses
<1>3. CASE Dispatch
  <2>1. /\ UNCHANGED <<request, reply, call, peer>> /\ peer \in Calls
        /\ PayloadParses(request[peer])
        /\ main' = "write" /\ response' \in {"ok", "internalError"}
    BY <1>3 DEF Dispatch, AdapterOutcomes, AnswerInv, ServingInv
  <2>2. /\ DOMAIN executed' = Calls /\ executed'[peer] # "no"
        /\ \A c \in Calls \ {peer} : executed'[c] = executed[c]
    BY <1>3, <2>1 DEF Dispatch, AnswerInv
  <2>3. QED
    BY <2>1, <2>2 DEF AnswerInv, ServingInv, PayloadParses
<1>4. CASE WriteResponse
  <2>1. /\ UNCHANGED <<request, executed, call, peer>> /\ peer \in Calls
        /\ main' \notin {"dispatch", "write"}
        /\ reply' = [reply EXCEPT ![peer] = response]
    BY <1>4 DEF WriteResponse, Open, Loop
  <2>2. ASSUME NEW c \in Calls
        PROVE  /\ reply'[c] = "ok" => executed[c] # "no"
               /\ reply'[c] = "invalid" => ~PayloadParses(request[c])
    BY <1>4, <2>1, <2>2 DEF WriteResponse, AnswerInv, ServingInv
  <2>3. QED
    BY <2>1, <2>2 DEF AnswerInv, ServingInv, PayloadParses
<1>5. CASE SessionBreaks
  BY <1>5, AnswerStutter DEF SessionBreaks, Loop
<1>6. ASSUME NEW d \in Dogs, Watch(d) PROVE AnswerInv'
  <2>1. CASE Bark(d)
    BY <2>1, AnswerStutter DEF Bark
  <2>2. CASE Wake(d)
    BY <2>2, AnswerStutter DEF Wake
  <2>3. CASE Release(d)
    BY <2>3, AnswerStutter DEF Release
  <2>4. QED
    BY <1>6, <2>1, <2>2, <2>3 DEF Watch
<1>7. CASE Job
  BY <1>7, AnswerStutter DEF Job, JobAsks, JobLogs, JobEnds
<1>8. CASE Dispose \/ Ending
  BY <1>8, AnswerStutter DEF Dispose, Ending, Kill, Disposed, Terminated
<1>9. CASE Crash
  <2>1. /\ UNCHANGED <<request, executed, reply, peer, response>>
        /\ main' = main \/ main' = "killed"
    BY <1>9 DEF Crash
  <2>2. /\ DOMAIN call' = Calls
        /\ \A c \in Calls : call'[c] = call[c] \/ call'[c] = "failed"
    BY <1>9 DEF Crash
  <2>3. QED
    BY <2>1, <2>2 DEF AnswerInv, ServingInv, PayloadParses
<1>10. ASSUME NEW c \in Calls, Begin(c) \/ Client(c) PROVE AnswerInv'
  <2>1. /\ UNCHANGED <<request, executed, reply, response, main>>
        /\ peer' = peer \/ main = "listening"
    BY <1>10 DEF Begin, Client, SeeServer, Connect, Write, Read, GiveUp
  <2>2. PICK s : /\ call' = [call EXCEPT ![c] = s]
                 /\ s = "ok" => reply[c] = "ok"
                 /\ s = "refused" => reply[c] = "invalid"
    <3>1. CASE Begin(c) \/ SeeServer(c) \/ Connect(c) \/ Write(c) \/ GiveUp(c)
      BY <3>1 DEF Begin, SeeServer, Connect, Write, GiveUp
    <3>2. CASE Read(c)
      <4>1. call' = [call EXCEPT ![c] = Outcome(reply[c])]
        BY <3>2 DEF Read
      <4>2. /\ Outcome(reply[c]) = "ok" => reply[c] = "ok"
            /\ Outcome(reply[c]) = "refused" => reply[c] = "invalid"
        BY DEF Outcome
      <4>3. QED
        BY <4>1, <4>2
    <3>3. QED
      BY <1>10, <3>1, <3>2 DEF Client
  <2>3. QED
    BY <2>1, <2>2 DEF AnswerInv, ServingInv, PayloadParses
<1>11. CASE UNCHANGED vars
  BY <1>11, AnswerStutter DEF vars
<1>12. QED
  BY <1>1, <1>2, <1>3, <1>4, <1>5, <1>6, <1>7, <1>8, <1>9, <1>10, <1>11 DEF Next, Main

\* What CNamedPipeClient::Call returns is true of the call that was made, whatever
\* other callers, time-outs, the watchdogs and the end of the host do meanwhile.
THEOREM EveryAnswerIsTrue == Spec => []AnswersAreTrue
<1>1. AnswerInv => AnswersAreTrue
  BY DEF AnswerInv, AnswersAreTrue
<1>2. QED
  BY AnswerInit, AnswerNext, <1>1, PTL DEF Spec

-----------------------------------------------------------------------------
(* The stop.                                                               *)

\* The invariant of the stop holds at the start.
LEMMA StopInit == Init => StopInv
  BY DEF Init, StopInv

\* Steps that execute nothing, and do not turn back.
LEMMA StopStutter ==
    ASSUME StopInv, executed' = executed, requested => requested',
           requested /\ main \in Leaving => main' \in Leaving
    PROVE  StopInv'
  BY DEF StopInv

\* Every step keeps the invariant of the stop.
LEMMA StopNext == StopInv /\ [Next]_vars => StopInv'
<1> SUFFICES ASSUME StopInv, [Next]_vars PROVE StopInv'
  OBVIOUS
<1> USE DEF host, clients, outside, Leaving, Over
<1>1. CASE Start \/ CreateServer \/ LoopEnds \/ WaitForClient \/ LogOff \/ Drain \/ Exit
  BY <1>1, StopStutter DEF Start, CreateServer, LoopEnds, WaitForClient, LogOff, Drain, Exit, StopSeen
<1>2. CASE ReadRequest
  BY <1>2, StopStutter DEF ReadRequest
<1>3. CASE Dispatch
  <2>1. /\ requested' = requested /\ main = "dispatch" /\ main' = "write"
        /\ executed' = [executed EXCEPT ![peer] =
                            IF requested THEN "afterStop" ELSE "beforeStop"]
    BY <1>3 DEF Dispatch
  <2>2. \A c \in Calls : executed[c] # "afterStop"
    BY <2>1 DEF StopInv
  <2>3. \A c \in Calls : executed'[c] = "afterStop" => requested /\ c = peer
    BY <2>1, <2>2 DEF StopInv
  <2>4. QED
    BY <2>1, <2>3 DEF StopInv
<1>4. CASE WriteResponse \/ SessionBreaks
  BY <1>4, StopStutter DEF WriteResponse, SessionBreaks, Loop, StopSeen
<1>5. ASSUME NEW d \in Dogs, Watch(d) PROVE StopInv'
  BY <1>5, StopStutter DEF Watch, Bark, Wake, Release
<1>6. CASE Job
  BY <1>6, StopStutter DEF Job, JobAsks, JobLogs, JobEnds
<1>7. CASE Dispose \/ Ending \/ Crash
  BY <1>7, StopStutter DEF Dispose, Ending, Kill, Disposed, Terminated, Crash
<1>8. ASSUME NEW c \in Calls, Begin(c) \/ Client(c) PROVE StopInv'
  BY <1>8, StopStutter DEF Begin, Client, SeeServer, Connect, Write, Read, GiveUp
<1>9. CASE UNCHANGED vars
  BY <1>9, StopStutter DEF vars
<1>10. QED
  BY <1>1, <1>2, <1>3, <1>4, <1>5, <1>6, <1>7, <1>8, <1>9 DEF Next, Main

\* After the watchdogs have asked for the stop the accept loop finishes at most the
\* call it is serving, for any number of waiting clients.
THEOREM StopEndsTheService == Spec => []StopEndsService
<1>1. StopInv => StopEndsService
  <2> SUFFICES ASSUME StopInv PROVE StopEndsService
    OBVIOUS
  <2> DEFINE late == {c \in Calls : executed[c] = "afterStop"}
  <2>1. CASE late = {}
    BY <2>1, FS_EmptySet DEF StopEndsService
  <2>2. ASSUME NEW c \in late PROVE Cardinality(late) <= 1
    <3>1. late = {c}
      BY <2>2 DEF StopInv
    <3>2. Cardinality({c}) = 1
      BY FS_Singleton
    <3>3. QED
      BY <3>1, <3>2
  <2>3. QED
    BY <2>1, <2>2 DEF StopEndsService
<1>2. QED
  BY StopInit, StopNext, <1>1, PTL DEF Spec
=============================================================================
