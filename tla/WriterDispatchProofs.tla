------------------------ MODULE WriterDispatchProofs ------------------------
(***************************************************************************)
(* Theorems about WriterDispatch, for every set of calls, every batch size *)
(* and every assignment of hashes.                                         *)
(***************************************************************************)
EXTENDS WriterDispatch, SequenceTheorems, TLAPS

-----------------------------------------------------------------------------
(* What the queue operations do to a sequence and to its elements.         *)

\* The range of a sequence, by index.
LEMMA RangeFacts ==
    ASSUME NEW S, NEW s \in Seq(S)
    PROVE  Range(s) = {s[i] : i \in 1..Len(s)}
<1>1. DOMAIN s = 1..Len(s)
  OBVIOUS
<1>2. QED BY <1>1 DEF Range

\* A sequence has no element that another one lacks.
LEMMA RangeWithin ==
    ASSUME NEW S, NEW s \in Seq(S), NEW t \in Seq(S),
           \A i \in 1..Len(t) : \E j \in 1..Len(s) : t[i] = s[j]
    PROVE  Range(t) \subseteq Range(s)
<1>1. Range(t) = {t[i] : i \in 1..Len(t)}
  BY RangeFacts
<1>2. Range(s) = {s[i] : i \in 1..Len(s)}
  BY RangeFacts
<1>3. QED BY <1>1, <1>2

\* Head and Tail of a sequence that is not empty, index by index.
LEMMA TailFacts ==
    ASSUME NEW S, NEW s \in Seq(S), s # <<>>
    PROVE  /\ Len(s) \in Nat \ {0}
           /\ Head(s) = s[1]
           /\ Head(s) \in S
           /\ Tail(s) \in Seq(S)
           /\ Len(Tail(s)) = Len(s) - 1
           /\ \A i \in 1..Len(Tail(s)) : Tail(s)[i] = s[i + 1]
           /\ Range(s) = {Head(s)} \union Range(Tail(s))
<1>1. /\ Len(s) \in Nat \ {0}
      /\ Head(s) = s[1]
      /\ Head(s) \in S
      /\ Tail(s) \in Seq(S)
      /\ Len(Tail(s)) = Len(s) - 1
      /\ \A i \in 1..Len(Tail(s)) : Tail(s)[i] = s[i + 1]
  OBVIOUS
<1>2. Range(s) = {s[i] : i \in 1..Len(s)}
  BY RangeFacts
<1>3. Range(Tail(s)) = {Tail(s)[i] : i \in 1..Len(Tail(s))}
  BY <1>1, RangeFacts
<1>4. \A i \in 1..Len(s) : i = 1 \/ (i - 1 \in 1..Len(Tail(s)) /\ s[i] = Tail(s)[i - 1])
  BY <1>1
<1>5. \A i \in 1..Len(Tail(s)) : i + 1 \in 1..Len(s) /\ Tail(s)[i] = s[i + 1]
  BY <1>1
<1>6. Range(s) \subseteq {Head(s)} \union Range(Tail(s))
  BY <1>1, <1>2, <1>3, <1>4
<1>7. {Head(s)} \union Range(Tail(s)) \subseteq Range(s)
  BY <1>1, <1>2, <1>3, <1>5
<1>8. QED BY <1>1, <1>6, <1>7

\* Append adds one element at the end.
LEMMA AppendFacts ==
    ASSUME NEW S, NEW s \in Seq(S), NEW e \in S
    PROVE  /\ Append(s, e) \in Seq(S)
           /\ Len(Append(s, e)) = Len(s) + 1
           /\ \A i \in 1..Len(s) : Append(s, e)[i] = s[i]
           /\ Append(s, e)[Len(s) + 1] = e
           /\ Range(Append(s, e)) = Range(s) \union {e}
<1>1. /\ Append(s, e) \in Seq(S)
      /\ Len(Append(s, e)) = Len(s) + 1
      /\ \A i \in 1..Len(s) : Append(s, e)[i] = s[i]
      /\ Append(s, e)[Len(s) + 1] = e
  OBVIOUS
<1>2. Range(Append(s, e)) = Range(s) \union {e}
  <2>1. Range(Append(s, e)) = {Append(s, e)[i] : i \in 1..(Len(s) + 1)}
    BY <1>1, RangeFacts
  <2>2. \A i \in 1..(Len(s) + 1) : i \in 1..Len(s) \/ i = Len(s) + 1
    OBVIOUS
  <2>3. QED BY <1>1, <2>1, <2>2, RangeFacts
<1>3. QED BY <1>1, <1>2

\* A sequence cut after its n-th element: nothing is lost or added.
LEMMA CutFacts ==
    ASSUME NEW S, NEW s \in Seq(S), NEW n \in 0..Len(s)
    PROVE  LET a == SubSeq(s, 1, n)
               b == SubSeq(s, n + 1, Len(s))
           IN  /\ a \in Seq(S) /\ Len(a) = n /\ \A i \in 1..n : a[i] = s[i]
               /\ b \in Seq(S) /\ Len(b) = Len(s) - n
               /\ \A i \in 1..Len(b) : b[i] = s[n + i]
               /\ Range(s) = Range(a) \union Range(b)
<1> DEFINE a == SubSeq(s, 1, n)
           b == SubSeq(s, n + 1, Len(s))
<1>1. a \in Seq(S) /\ Len(a) = n /\ \A i \in 1..n : a[i] = s[i]
  OBVIOUS
<1>2. b \in Seq(S) /\ Len(b) = Len(s) - n /\ \A i \in 1..Len(b) : b[i] = s[n + i]
  OBVIOUS
<1>3. Range(s) \subseteq Range(a) \union Range(b)
  <2>1. SUFFICES ASSUME NEW i \in 1..Len(s)
                 PROVE  s[i] \in Range(a) \union Range(b)
    BY RangeFacts
  <2>2. CASE i <= n
    <3>1. i \in 1..Len(a) /\ a[i] = s[i]
      BY <1>1, <2>2
    <3>2. QED BY <1>1, <3>1, RangeFacts
  <2>3. CASE i > n
    <3>1. i - n \in 1..Len(b) /\ b[i - n] = s[i]
      BY <1>2, <2>3
    <3>2. QED BY <1>2, <3>1, RangeFacts
  <2>4. QED BY <2>2, <2>3
<1>4. Range(a) \subseteq Range(s)
  <2>1. \A i \in 1..Len(a) : \E j \in 1..Len(s) : a[i] = s[j]
    BY <1>1
  <2>2. QED BY <1>1, <2>1, RangeWithin
<1>5. Range(b) \subseteq Range(s)
  <2>1. \A i \in 1..Len(b) : n + i \in 1..Len(s) /\ b[i] = s[n + i]
    BY <1>2
  <2>2. \A i \in 1..Len(b) : \E j \in 1..Len(s) : b[i] = s[j]
    BY <2>1
  <2>3. QED BY <1>2, <2>2, RangeWithin
<1> HIDE DEF a, b
<1>6. QED BY <1>1, <1>2, <1>3, <1>4, <1>5 DEF a, b

\* The number of requests one turn takes is within the queue and the batch.
LEMMA TakeSizeFacts ==
    ASSUME queue \in Seq(Requests), queue # <<>>
    PROVE  TakeSize \in 1..MaxBatch /\ TakeSize \in 0..Len(queue)
BY BatchAssumption DEF TakeSize

\* The writer fulfils the promise of the first request it holds.
LEMMA FulfilFacts ==
    ASSUME TypeOK, held # <<>>, NEW a \in Answers, Fulfil(a)
    PROVE  /\ Head(held) \in Requests
           /\ call' \in [Requests -> Statuses]
           /\ call'[Head(held)] = a
           /\ \A r \in Requests : r # Head(held) => call'[r] = call[r]
           /\ held' \in Seq(Requests)
           /\ Len(held') = Len(held) - 1
           /\ \A i \in 1..Len(held') : held'[i] = held[i + 1]
           /\ Range(held) = {Head(held)} \union Range(held')
<1>1. held \in Seq(Requests) /\ call \in [Requests -> Statuses] /\ a \in Statuses
  BY DEF TypeOK, Statuses
<1>2. held' = Tail(held) /\ call' = [call EXCEPT ![Head(held)] = a]
  BY DEF Fulfil
<1>3. Head(held) \in Requests
  BY <1>1, TailFacts
<1>4. /\ call' \in [Requests -> Statuses]
      /\ call'[Head(held)] = a
      /\ \A r \in Requests : r # Head(held) => call'[r] = call[r]
  BY <1>1, <1>2, <1>3
<1>5. /\ held' \in Seq(Requests)
      /\ Len(held') = Len(held) - 1
      /\ \A i \in 1..Len(held') : held'[i] = held[i + 1]
      /\ Range(held) = {Head(held)} \union Range(held')
  BY <1>1, <1>2, TailFacts
<1>6. QED BY <1>3, <1>4, <1>5

-----------------------------------------------------------------------------
(* Type correctness.                                                       *)

LEMMA TypeInit == Init => TypeOK
<1> SUFFICES ASSUME Init PROVE TypeOK
  OBVIOUS
<1>1. call \in [Requests -> Statuses]
  BY DEF Init, Statuses
<1>2. queue \in Seq(Requests) /\ held \in Seq(Requests) /\ results \in Seq(Verdicts)
  BY DEF Init
<1>3. QED BY <1>1, <1>2 DEF Init, TypeOK, WriterPCs

LEMMA TypeStep == TypeOK /\ [Next]_vars => TypeOK'
<1> SUFFICES ASSUME TypeOK, [Next]_vars PROVE TypeOK'
  OBVIOUS
<1> USE DEF Statuses, Answers, Verdicts, WriterPCs
<1>1. ASSUME NEW r \in Requests, Submit(r) PROVE TypeOK'
  <2>1. queue' \in Seq(Requests)
    BY <1>1, AppendFacts DEF Submit, Enqueue, TypeOK
  <2>2. QED BY <1>1, <2>1 DEF Submit, Enqueue, TypeOK
<1>2. ASSUME NEW r \in Requests, SubmitRefused(r) PROVE TypeOK'
  BY <1>2 DEF SubmitRefused, TypeOK
<1>3. ASSUME NEW r \in Requests, Remove(r) PROVE TypeOK'
  BY <1>3 DEF Remove, TypeOK
<1>4. CASE Take
  <2>1. queue \in Seq(Requests) /\ queue # <<>>
    BY <1>4 DEF Take, TypeOK
  <2>2. TakeSize \in 1..MaxBatch /\ TakeSize \in 0..Len(queue)
    BY <2>1, TakeSizeFacts
  <2>3. held' \in Seq(Requests) /\ Len(held') = TakeSize /\ queue' \in Seq(Requests)
    BY <1>4, <2>1, <2>2, CutFacts DEF Take
  <2>4. QED BY <1>4, <2>2, <2>3 DEF Take, TypeOK
<1>5. CASE Exit
  BY <1>5 DEF Exit, TypeOK
<1>6. CASE AddBatch
  <2>1. PICK v \in [1..Len(held) -> Verdicts] :
             results' = v /\ rows' = rows \union Imported(v)
    BY <1>6 DEF AddBatch, BatchVerdicts
  <2>2. results' \in Seq(Verdicts) /\ Len(results') = Len(held)
    BY <2>1 DEF TypeOK
  <2>3. rows' \subseteq Requests
    BY <2>1 DEF TypeOK, Imported
  <2>4. QED BY <1>6, <2>2, <2>3 DEF AddBatch, TypeOK
<1>7. CASE AddBatchThrows
  BY <1>7 DEF AddBatchThrows, TypeOK
<1>8. CASE AnswerOne
  <2>1. held # <<>> /\ results # <<>> /\ Len(results) = Len(held)
    BY <1>8, BatchAssumption DEF AnswerOne, TypeOK
  <2>2. /\ Head(results) \in Answers
        /\ results' \in Seq(Verdicts)
        /\ Len(results') = Len(results) - 1
    BY <1>8, <2>1, TailFacts DEF AnswerOne, TypeOK
  <2>3. call' \in [Requests -> Statuses] /\ held' \in Seq(Requests) /\ Len(held') = Len(held) - 1
    BY <1>8, <2>1, <2>2, FulfilFacts DEF AnswerOne
  <2>4. QED BY <1>8, <2>1, <2>2, <2>3, BatchAssumption DEF AnswerOne, TypeOK
<1>9. CASE FailBatchOne
  <2>1. held # <<>>
    BY <1>9, BatchAssumption DEF FailBatchOne, TypeOK
  <2>2. call' \in [Requests -> Statuses] /\ held' \in Seq(Requests) /\ Len(held') = Len(held) - 1
    BY <1>9, <2>1, FulfilFacts DEF FailBatchOne
  <2>3. QED BY <1>9, <2>1, <2>2, BatchAssumption DEF FailBatchOne, TypeOK
<1>10. CASE SetFatal
  BY <1>10 DEF SetFatal, TypeOK
<1>11. CASE FailPendingOne
  <2>1. held # <<>>
    BY <1>11 DEF FailPendingOne, TypeOK
  <2>2. call' \in [Requests -> Statuses] /\ held' \in Seq(Requests) /\ Len(held') = Len(held) - 1
    BY <1>11, <2>1, FulfilFacts DEF FailPendingOne
  <2>3. Len(held) = 1 <=> held' = <<>>
    <3>1. Len(held) \in Nat /\ Len(held') = Len(held) - 1
      BY <2>2 DEF TypeOK
    <3>2. held' = <<>> <=> Len(held') = 0
      BY <2>2, EmptySeq
    <3>3. QED BY <3>1, <3>2
  <2>4. writer' \in {"exited", "failPending"} /\ (writer' = "exited" <=> Len(held) = 1)
    BY <1>11 DEF FailPendingOne
  <2>5. QED BY <1>11, <2>2, <2>3, <2>4 DEF FailPendingOne, TypeOK
<1>12. CASE DrainStop
  BY <1>12 DEF DrainStop, TypeOK
<1>13. CASE DrainJoin
  BY <1>13 DEF DrainJoin, TypeOK
<1>14. CASE UNCHANGED vars
  BY <1>14 DEF vars, TypeOK
<1>15. QED
  BY <1>1, <1>2, <1>3, <1>4, <1>5, <1>6, <1>7, <1>8, <1>9, <1>10, <1>11,
     <1>12, <1>13, <1>14 DEF Next, Writer

\* The types, and what the writer holds at each place of its loop.
THEOREM TypeCorrect == Spec => []TypeOK
<1>1. Init => TypeOK
  BY TypeInit
<1>2. TypeOK /\ [Next]_vars => TypeOK'
  BY TypeStep
<1>3. QED BY <1>1, <1>2, PTL DEF Spec

-----------------------------------------------------------------------------
(* Every waiting request is in one place.                                  *)

\* The first request the writer holds occurs nowhere else.
LEMMA HeadHeldOnce ==
    ASSUME TypeOK, WaitingInOnePlace, held # <<>>
    PROVE  /\ Head(held) \notin Range(Tail(held))
           /\ Head(held) \notin Range(queue)
           /\ call[Head(held)] = "waiting"
<1>1. /\ Head(held) = held[1]
      /\ Tail(held) \in Seq(Requests)
      /\ Len(held) \in Nat \ {0}
      /\ Len(Tail(held)) = Len(held) - 1
      /\ \A i \in 1..Len(Tail(held)) : Tail(held)[i] = held[i + 1]
      /\ Head(held) \in Range(held)
      /\ Head(held) \in Requests
  BY TailFacts DEF TypeOK
<1>2. \A i \in 1..Len(Tail(held)) : i + 1 \in 1..Len(held) /\ i + 1 # 1
  BY <1>1
<1>3. \A i \in 1..Len(Tail(held)) : Tail(held)[i] # Head(held)
  BY <1>1, <1>2 DEF WaitingInOnePlace
<1>4. Range(Tail(held)) = {Tail(held)[i] : i \in 1..Len(Tail(held))}
  BY <1>1, RangeFacts
<1>5. QED BY <1>1, <1>3, <1>4 DEF WaitingInOnePlace

\* Fulfilling the first promise takes its request out of its place.
LEMMA FulfilPlace ==
    ASSUME TypeOK, WaitingInOnePlace, held # <<>>,
           NEW a \in Answers, Fulfil(a), queue' = queue
    PROVE  WaitingInOnePlace'
<1>1. /\ Head(held) \in Requests
      /\ call'[Head(held)] = a
      /\ \A r \in Requests : r # Head(held) => call'[r] = call[r]
      /\ Len(held') = Len(held) - 1
      /\ \A i \in 1..Len(held') : held'[i] = held[i + 1]
      /\ Range(held) = {Head(held)} \union Range(held')
  BY FulfilFacts
<1>2. Head(held) \notin Range(held') /\ Head(held) \notin Range(queue)
  BY HeadHeldOnce DEF Fulfil
<1>3. a # "waiting"
  BY DEF Answers, Verdicts
<1>4. \A r \in Requests : call'[r] = "waiting" <=> r \in Range(queue') \union Range(held')
  BY <1>1, <1>2, <1>3 DEF WaitingInOnePlace
<1>5. Len(held) \in Nat
  BY DEF TypeOK
<1>6. \A i, j \in 1..Len(held') : held'[i] = held'[j] => i = j
  <2>1. \A i \in 1..Len(held') : i + 1 \in 1..Len(held)
    BY <1>1, <1>5
  <2>2. QED BY <1>1, <2>1 DEF WaitingInOnePlace
<1>7. Range(queue') \intersect Range(held') = {}
  BY <1>1 DEF WaitingInOnePlace
<1>8. QED BY <1>4, <1>6, <1>7 DEF WaitingInOnePlace

LEMMA PlaceStep == TypeOK /\ WaitingInOnePlace /\ [Next]_vars => WaitingInOnePlace'
<1> SUFFICES ASSUME TypeOK, WaitingInOnePlace, [Next]_vars PROVE WaitingInOnePlace'
  OBVIOUS
<1>1. ASSUME NEW r \in Requests, Submit(r) PROVE WaitingInOnePlace'
  <2>1. queue \in Seq(Requests) /\ queue' = Append(queue, r) /\ held' = held
    BY <1>1 DEF Submit, Enqueue, TypeOK
  <2>2. /\ Len(queue') = Len(queue) + 1
        /\ \A i \in 1..Len(queue) : queue'[i] = queue[i]
        /\ queue'[Len(queue) + 1] = r
        /\ Range(queue') = Range(queue) \union {r}
    BY <2>1, AppendFacts
  <2>3. r \notin Range(queue) \union Range(held)
    BY <1>1 DEF Submit, Enqueue, WaitingInOnePlace
  <2>4. \A i \in 1..Len(queue) : queue[i] # r
    <3>1. Range(queue) = {queue[i] : i \in 1..Len(queue)}
      BY <2>1, RangeFacts
    <3>2. QED BY <2>3, <3>1
  <2>5. \A s \in Requests : call'[s] = "waiting" <=> (s = r \/ call[s] = "waiting")
    BY <1>1 DEF Submit, Enqueue, TypeOK
  <2>6. \A i, j \in 1..Len(queue') : queue'[i] = queue'[j] => i = j
    <3>1. \A i \in 1..Len(queue') : i \in 1..Len(queue) \/ i = Len(queue) + 1
      BY <2>1, <2>2
    <3>2. QED BY <2>2, <2>4, <3>1 DEF WaitingInOnePlace
  <2>7. QED BY <2>1, <2>2, <2>3, <2>5, <2>6 DEF WaitingInOnePlace
<1>2. ASSUME NEW r \in Requests, SubmitRefused(r) PROVE WaitingInOnePlace'
  <2>1. \A s \in Requests : call'[s] = "waiting" <=> call[s] = "waiting"
    BY <1>2 DEF SubmitRefused, TypeOK
  <2>2. QED BY <1>2, <2>1 DEF SubmitRefused, WaitingInOnePlace
<1>3. CASE Take
  <2>1. queue \in Seq(Requests) /\ queue # <<>> /\ held = <<>>
    BY <1>3 DEF Take, TypeOK
  <2>2. TakeSize \in 0..Len(queue)
    BY <2>1, TakeSizeFacts
  <2>3. /\ held' = SubSeq(queue, 1, TakeSize)
        /\ queue' = SubSeq(queue, TakeSize + 1, Len(queue))
        /\ call' = call
    BY <1>3 DEF Take
  <2>4. /\ held' \in Seq(Requests) /\ Len(held') = TakeSize
        /\ \A i \in 1..TakeSize : held'[i] = queue[i]
        /\ queue' \in Seq(Requests) /\ Len(queue') = Len(queue) - TakeSize
        /\ \A i \in 1..Len(queue') : queue'[i] = queue[TakeSize + i]
        /\ Range(queue) = Range(held') \union Range(queue')
    BY <2>1, <2>2, <2>3, CutFacts
  <2>5. Range(held) = {}
    BY <2>1 DEF Range
  <2>6. \A i \in 1..Len(held') : i \in 1..Len(queue)
    BY <2>1, <2>2, <2>4
  <2>7. \A i \in 1..Len(queue') : TakeSize + i \in 1..Len(queue)
    BY <2>1, <2>2, <2>4
  <2>8. \A i, j \in 1..Len(held') : held'[i] = held'[j] => i = j
    BY <2>4, <2>6 DEF WaitingInOnePlace
  <2>9. \A i, j \in 1..Len(queue') : queue'[i] = queue'[j] => i = j
    BY <2>2, <2>4, <2>7 DEF WaitingInOnePlace
  <2>10. Range(queue') \intersect Range(held') = {}
    <3>1. Range(held') = {held'[i] : i \in 1..Len(held')}
      BY <2>4, RangeFacts
    <3>2. Range(queue') = {queue'[i] : i \in 1..Len(queue')}
      BY <2>4, RangeFacts
    <3>3. \A i \in 1..Len(held'), j \in 1..Len(queue') : i # TakeSize + j
      BY <2>1, <2>2, <2>4
    <3>4. \A i \in 1..Len(held'), j \in 1..Len(queue') : held'[i] # queue'[j]
      BY <2>4, <2>6, <2>7, <3>3 DEF WaitingInOnePlace
    <3>5. QED BY <3>1, <3>2, <3>4
  <2>11. QED BY <2>3, <2>4, <2>5, <2>8, <2>9, <2>10 DEF WaitingInOnePlace
<1>4. CASE AnswerOne
  <2>1. held # <<>> /\ Head(results) \in Answers
    BY <1>4, BatchAssumption, TailFacts DEF AnswerOne, TypeOK, Answers
  <2>2. QED BY <1>4, <2>1, FulfilPlace DEF AnswerOne
<1>5. CASE FailBatchOne
  <2>1. held # <<>> /\ "aborted" \in Answers
    BY <1>5, BatchAssumption DEF FailBatchOne, TypeOK, Answers
  <2>2. QED BY <1>5, <2>1, FulfilPlace DEF FailBatchOne
<1>6. CASE SetFatal
  <2>1. /\ held = <<>> /\ held' = queue /\ queue' = <<>> /\ call' = call
    BY <1>6 DEF SetFatal, TypeOK
  <2>2. Range(held) = {} /\ Range(queue') = {}
    BY <2>1 DEF Range
  <2>3. QED BY <2>1, <2>2 DEF WaitingInOnePlace
<1>7. CASE FailPendingOne
  <2>1. held # <<>> /\ "aborted" \in Answers
    BY <1>7 DEF FailPendingOne, TypeOK, Answers
  <2>2. QED BY <1>7, <2>1, FulfilPlace DEF FailPendingOne
<1>8. CASE UNCHANGED <<call, queue, held>>
  BY <1>8 DEF WaitingInOnePlace
<1>9. QED
  BY <1>1, <1>2, <1>3, <1>4, <1>5, <1>6, <1>7, <1>8
     DEF Next, Writer, Remove, Exit, AddBatch, AddBatchThrows, DrainStop, DrainJoin, vars

-----------------------------------------------------------------------------
(* What AddBatch decided, what is in the catalog and what callers are told *)
(* agree.                                                                  *)

\* While the writer answers, the verdict of a request it still holds says
\* whether its row is there, and no ForceAdd is called a duplicate.
HeldVerdicts ==
    writer = "answer" =>
        \A i \in 1..Len(held) :
            /\ results[i] = "imported" <=> held[i] \in rows
            /\ results[i] = "duplicate" => held[i] \notin Forced

RowInv == HeldVerdicts /\ RowsAreTold

LEMMA RowInit == Init => RowInv
BY DEF Init, RowInv, HeldVerdicts, RowsAreTold

\* A request the writer holds but has no verdict for has no row yet.
LEMMA HeldHasNoRow ==
    ASSUME TypeOK, WaitingInOnePlace, RowInv, writer # "answer"
    PROVE  \A r \in Requests : call[r] = "waiting" => r \notin rows
BY DEF RowInv, RowsAreTold

LEMMA VerdictOfBatch ==
    ASSUME TypeOK, NEW v \in BatchVerdicts
    PROVE  /\ v \in [1..Len(held) -> Verdicts]
           /\ \A i \in 1..Len(held) :
                 /\ v[i] = "imported" => held[i] \in Imported(v)
                 /\ v[i] = "duplicate" => held[i] \notin Forced
                 /\ v[i] = "imported" /\ held[i] \notin Forced
                       => ~HashTaken(held[i], RowsBefore(v, i))
           /\ Imported(v) = {held[i] : i \in {j \in 1..Len(held) : v[j] = "imported"}}
BY DEF BatchVerdicts, Imported

LEMMA RowStep == TypeOK /\ TypeOK' /\ WaitingInOnePlace /\ RowInv /\ [Next]_vars => RowInv'
<1> SUFFICES ASSUME TypeOK, TypeOK', WaitingInOnePlace, RowInv, [Next]_vars PROVE RowInv'
  OBVIOUS
<1>1. ASSUME NEW r \in Requests, Submit(r) PROVE RowInv'
  <2>1. \A s \in rows : s # r
    <3>1. \A i \in 1..Len(held) : held[i] \in Range(held)
      BY RangeFacts DEF TypeOK
    <3>2. \A s \in rows : call[s] = "imported" \/ s \in Range(held)
      BY <3>1 DEF RowInv, RowsAreTold
    <3>3. \A s \in rows : call[s] = "imported" \/ call[s] = "waiting"
      BY <3>2 DEF WaitingInOnePlace, TypeOK
    <3>4. QED BY <1>1, <3>3 DEF Submit, Enqueue
  <2>2. QED BY <1>1, <2>1 DEF Submit, Enqueue, RowInv, HeldVerdicts, RowsAreTold, TypeOK
<1>2. ASSUME NEW r \in Requests, SubmitRefused(r) PROVE RowInv'
  <2>1. \A s \in rows : call[s] # "idle" \/ s # r \/ writer = "answer"
    BY DEF RowInv, RowsAreTold
  <2>2. QED BY <1>2, <2>1 DEF SubmitRefused, RowInv, HeldVerdicts, RowsAreTold, TypeOK
<1>3. ASSUME NEW r \in Requests, Remove(r) PROVE RowInv'
  <2>1. \A i \in 1..Len(held) : held[i] # r
    <3>1. \A i \in 1..Len(held) : held[i] \in Range(held)
      BY RangeFacts DEF TypeOK
    <3>2. QED BY <1>3, <3>1 DEF Remove, WaitingInOnePlace
  <2>2. QED BY <1>3, <2>1 DEF Remove, RowInv, HeldVerdicts, RowsAreTold
<1>4. CASE AddBatch
  <2>1. PICK v \in BatchVerdicts : results' = v /\ rows' = rows \union Imported(v)
    BY <1>4 DEF AddBatch
  <2>2. held' = held /\ call' = call /\ writer = "add" /\ writer' = "answer"
    BY <1>4 DEF AddBatch
  <2>3. \A i \in 1..Len(held) : held[i] \in Requests /\ call[held[i]] = "waiting"
    <3>1. \A i \in 1..Len(held) : held[i] \in Range(held) /\ held[i] \in Requests
      BY RangeFacts DEF TypeOK
    <3>2. QED BY <3>1 DEF WaitingInOnePlace
  <2>4. \A i \in 1..Len(held) : held[i] \notin rows
    BY <2>2, <2>3, HeldHasNoRow
  <2>5. \A i \in 1..Len(held) : held[i] \in Imported(v) <=> v[i] = "imported"
    BY VerdictOfBatch DEF WaitingInOnePlace
  <2>6. HeldVerdicts'
    BY <2>1, <2>2, <2>4, <2>5, VerdictOfBatch DEF HeldVerdicts
  <2>7. RowsAreTold'
    <3>1. \A r \in rows : call[r] = "imported"
      BY <2>2 DEF RowInv, RowsAreTold
    <3>2. \A r \in Imported(v) : \E i \in 1..Len(held) : held[i] = r /\ v[i] = "imported"
      BY VerdictOfBatch
    <3>3. QED BY <2>1, <2>2, <3>1, <3>2 DEF RowsAreTold
  <2>8. QED BY <2>6, <2>7 DEF RowInv
<1>5. CASE AnswerOne
  <2>1. held # <<>> /\ results # <<>> /\ Len(results) = Len(held) /\ writer = "answer"
    BY <1>5, BatchAssumption DEF AnswerOne, TypeOK
  <2>2. /\ Head(results) \in Answers
        /\ Head(results) = results[1]
        /\ Head(held) = held[1]
        /\ Len(results) \in Nat \ {0}
        /\ Len(results') = Len(results) - 1
        /\ \A i \in 1..Len(results') : results'[i] = results[i + 1]
    BY <1>5, <2>1, TailFacts DEF AnswerOne, TypeOK, Answers
  <2>3. /\ call'[Head(held)] = Head(results)
        /\ \A r \in Requests : r # Head(held) => call'[r] = call[r]
        /\ Len(held') = Len(held) - 1
        /\ \A i \in 1..Len(held') : held'[i] = held[i + 1]
    BY <1>5, <2>1, <2>2, FulfilFacts DEF AnswerOne
  <2>4. rows' = rows /\ rows \subseteq Requests /\ 1 \in 1..Len(held)
    BY <1>5, <2>1, <2>2 DEF AnswerOne, TypeOK
  <2>5. \A i \in 1..Len(held') : i + 1 \in 1..Len(held)
    BY <2>1, <2>2, <2>3
  <2>6. HeldVerdicts'
    <3>1. \A i \in 1..Len(held') : results'[i] = results[i + 1] /\ held'[i] = held[i + 1]
      BY <2>1, <2>2, <2>3
    <3>2. QED BY <2>1, <2>4, <2>5, <3>1 DEF RowInv, HeldVerdicts
  <2>7. RowsAreTold'
    <3>1. SUFFICES ASSUME NEW r \in rows, call'[r] # "imported"
                   PROVE  writer' = "answer" /\ \E i \in 1..Len(held') :
                              held'[i] = r /\ results'[i] = "imported"
      BY <2>4 DEF RowsAreTold
    <3>2. r # Head(held)
      BY <2>1, <2>2, <2>3, <2>4, <3>1 DEF RowInv, HeldVerdicts
    <3>3. call[r] # "imported"
      BY <2>3, <2>4, <3>1, <3>2
    <3>4. PICK i \in 1..Len(held) : held[i] = r /\ results[i] = "imported"
      BY <3>3 DEF RowInv, RowsAreTold
    <3>5. i # 1 /\ i \in Nat /\ i >= 1
      BY <2>2, <3>2, <3>4
    <3>6. i - 1 \in 1..Len(held') /\ i - 1 \in 1..Len(results') /\ (i - 1) + 1 = i
      BY <2>1, <2>2, <2>3, <3>5
    <3>7. held'[i - 1] = r /\ results'[i - 1] = "imported"
      BY <2>2, <2>3, <3>4, <3>6
    <3>8. writer' = "answer"
      BY <1>5, <2>1, <2>2, <3>5 DEF AnswerOne
    <3>9. QED BY <3>6, <3>7, <3>8
  <2>8. QED BY <2>6, <2>7 DEF RowInv
<1>6. ASSUME held # <<>>, writer # "answer", Fulfil("aborted"), rows' = rows,
             writer' # "answer"
      PROVE  RowInv'
  <2>1. /\ Head(held) \in Requests
        /\ \A r \in Requests : r # Head(held) => call'[r] = call[r]
    BY <1>6, FulfilFacts DEF Answers
  <2>2. call[Head(held)] = "waiting"
    BY <1>6, HeadHeldOnce
  <2>3. Head(held) \notin rows
    BY <1>6, <2>1, <2>2, HeldHasNoRow
  <2>4. \A r \in rows : r \in Requests /\ call[r] = "imported"
    BY <1>6 DEF RowInv, RowsAreTold, TypeOK
  <2>5. QED BY <1>6, <2>1, <2>3, <2>4 DEF RowInv, RowsAreTold, HeldVerdicts
<1>7. CASE FailBatchOne
  <2>1. held # <<>>
    BY <1>7, BatchAssumption DEF FailBatchOne, TypeOK
  <2>2. QED BY <1>6, <1>7, <2>1 DEF FailBatchOne
<1>8. CASE FailPendingOne
  <2>1. held # <<>>
    BY <1>8 DEF FailPendingOne, TypeOK
  <2>2. QED BY <1>6, <1>8, <2>1 DEF FailPendingOne
<1>9. CASE Take \/ Exit \/ SetFatal \/ AddBatchThrows
  BY <1>9 DEF Take, Exit, SetFatal, AddBatchThrows, RowInv, HeldVerdicts, RowsAreTold
<1>10. CASE UNCHANGED <<call, held, results, writer, rows>>
  BY <1>10 DEF RowInv, HeldVerdicts, RowsAreTold
<1>11. QED
  BY <1>1, <1>2, <1>3, <1>4, <1>5, <1>7, <1>8, <1>9, <1>10
     DEF Next, Writer, DrainStop, DrainJoin, vars

-----------------------------------------------------------------------------
(* Hashes.                                                                 *)

LEMMA HashStep == TypeOK /\ NoStrictDuplicates /\ [Next]_vars => NoStrictDuplicates'
<1> SUFFICES ASSUME TypeOK, NoStrictDuplicates, [Next]_vars PROVE NoStrictDuplicates'
  OBVIOUS
<1>1. CASE AddBatch
  <2>1. PICK v \in BatchVerdicts : rows' = rows \union Imported(v)
    BY <1>1 DEF AddBatch
  <2>2. \A i, j \in 1..Len(held) :
            v[j] = "imported" /\ j < i => held[j] \in RowsBefore(v, i)
    <3>1. SUFFICES ASSUME NEW i \in 1..Len(held), NEW j \in 1..Len(held), v[j] = "imported", j < i
                   PROVE  held[j] \in RowsBefore(v, i)
      OBVIOUS
    <3>2. Len(held) \in Nat
      BY DEF TypeOK
    <3>3. j \in 1..(i - 1)
      BY <3>1, <3>2
    <3>4. QED BY <3>1, <3>3 DEF RowsBefore
  <2>3. \A i \in 1..Len(held) : rows \subseteq RowsBefore(v, i)
    BY DEF RowsBefore
  <2>4. \A i \in 1..Len(held) : v[i] = "imported" /\ held[i] \notin Forced
                                   => ~HashTaken(held[i], RowsBefore(v, i))
    BY VerdictOfBatch
  <2>5. \A r \in rows' \ Forced : HashOf[r] # NoHash => HashOf[r] \notin CatalogHashes
    BY <2>1, <2>4, VerdictOfBatch DEF HashTaken, NoStrictDuplicates
  <2>6. ASSUME NEW i \in 1..Len(held), v[i] = "imported", held[i] \notin Forced,
               HashOf[held[i]] # NoHash,
               NEW s \in rows' \ Forced, HashOf[held[i]] = HashOf[s]
        PROVE  held[i] = s
    <3>1. CASE s \in rows
      BY <2>3, <2>4, <2>6, <3>1 DEF HashTaken
    <3>2. CASE s \notin rows
      <4>1. PICK j \in 1..Len(held) : s = held[j] /\ v[j] = "imported"
        BY <2>1, <3>2, VerdictOfBatch
      <4>2. ~(j < i)
        BY <2>2, <2>4, <2>6, <4>1 DEF HashTaken
      <4>3. ~(i < j)
        BY <2>2, <2>4, <2>6, <4>1 DEF HashTaken
      <4>4. Len(held) \in Nat
        BY DEF TypeOK
      <4>5. i = j
        BY <4>2, <4>3, <4>4
      <4>6. QED BY <4>1, <4>5
    <3>3. QED BY <3>1, <3>2
  <2>7. \A r, s \in rows' \ Forced : HashOf[r] # NoHash /\ HashOf[r] = HashOf[s] => r = s
    <3>1. \A r \in rows' : r \in rows \/ \E i \in 1..Len(held) : r = held[i] /\ v[i] = "imported"
      BY <2>1, VerdictOfBatch
    <3>2. QED BY <2>6, <3>1 DEF NoStrictDuplicates
  <2>8. QED BY <2>5, <2>7 DEF NoStrictDuplicates
<1>2. ASSUME rows' \subseteq rows PROVE NoStrictDuplicates'
  BY <1>2 DEF NoStrictDuplicates
<1>3. QED
  BY <1>1, <1>2 DEF Next, Writer, Submit, Enqueue, SubmitRefused, Remove, Take, Exit,
     AddBatchThrows, AnswerOne, FailBatchOne, SetFatal, FailPendingOne, DrainStop,
     DrainJoin, vars

-----------------------------------------------------------------------------
(* The fatal state and the end of the writer.                              *)

SomeAborted == \E r \in Requests : call[r] = "aborted"

\* The writer leaves only a stopped repository with an empty queue, and the
\* only batches that fail as a whole are the one being failed and the one that
\* made the repository fatal.
EndInv ==
    /\ writer = "exited" => queue = <<>> /\ stopped
    /\ writer = "failPending" => queue = <<>> /\ fatal
    /\ fatal => stopped
    /\ drain = "done" => writer = "exited"
    /\ fatal => SomeAborted
    /\ writer = "setFatal" => SomeAborted
    /\ SomeAborted => fatal \/ writer \in {"failBatch", "setFatal"}

LEMMA EndInit == Init => EndInv
BY DEF Init, EndInv, SomeAborted

LEMMA EndStep == TypeOK /\ TypeOK' /\ WaitingInOnePlace /\ EndInv /\ [Next]_vars => EndInv'
<1> SUFFICES ASSUME TypeOK, TypeOK', WaitingInOnePlace, EndInv, [Next]_vars PROVE EndInv'
  OBVIOUS
<1>1. ASSUME NEW r \in Requests, Submit(r) PROVE EndInv'
  <2>1. SomeAborted' <=> SomeAborted
    BY <1>1 DEF Submit, Enqueue, SomeAborted, TypeOK
  <2>2. writer \notin {"exited", "failPending"}
    BY <1>1 DEF Submit, EndInv
  <2>3. QED BY <1>1, <2>1, <2>2 DEF Submit, Enqueue, EndInv
<1>2. ASSUME NEW r \in Requests, SubmitRefused(r) PROVE EndInv'
  <2>1. SomeAborted' <=> SomeAborted
    BY <1>2 DEF SubmitRefused, SomeAborted, TypeOK
  <2>2. QED BY <1>2, <2>1 DEF SubmitRefused, EndInv
<1>3. CASE Take \/ Exit \/ AddBatch \/ AddBatchThrows
  <2>1. (SomeAborted' <=> SomeAborted) /\ writer \notin {"exited", "failPending", "failBatch"}
    BY <1>3 DEF Take, Exit, AddBatch, AddBatchThrows, SomeAborted
  <2>2. QED BY <1>3, <2>1 DEF Take, Exit, MayExit, AddBatch, AddBatchThrows, EndInv
<1>4. CASE AnswerOne
  <2>1. held # <<>> /\ Head(results) \in Verdicts
    BY <1>4, BatchAssumption, TailFacts DEF AnswerOne, TypeOK
  <2>2. /\ Head(held) \in Requests
        /\ call'[Head(held)] = Head(results)
        /\ \A r \in Requests : r # Head(held) => call'[r] = call[r]
    BY <1>4, <2>1, FulfilFacts DEF AnswerOne, Answers
  <2>3. Head(results) # "aborted" /\ call[Head(held)] # "aborted"
    BY <2>1, HeadHeldOnce DEF Verdicts
  <2>4. SomeAborted' <=> SomeAborted
    BY <2>2, <2>3 DEF SomeAborted
  <2>5. writer' \in {"take", "answer"}
    BY <1>4 DEF AnswerOne
  <2>6. QED BY <1>4, <2>4, <2>5 DEF AnswerOne, EndInv
<1>5. ASSUME held # <<>>, Fulfil("aborted") PROVE SomeAborted'
  BY <1>5, FulfilFacts DEF Answers, SomeAborted
<1>6. CASE FailBatchOne
  <2>1. held # <<>>
    BY <1>6, BatchAssumption DEF FailBatchOne, TypeOK
  <2>2. SomeAborted' /\ writer' \in {"setFatal", "failBatch"}
    BY <1>5, <1>6, <2>1 DEF FailBatchOne
  <2>3. QED BY <1>6, <2>2 DEF FailBatchOne, EndInv
<1>7. CASE SetFatal
  <2>1. SomeAborted'
    BY <1>7 DEF SetFatal, EndInv, SomeAborted
  <2>2. QED BY <1>7, <2>1 DEF SetFatal, EndInv
<1>8. CASE FailPendingOne
  <2>1. held # <<>>
    BY <1>8 DEF FailPendingOne, TypeOK
  <2>2. SomeAborted' /\ fatal' /\ fatal /\ stopped' /\ queue' = <<>>
    BY <1>5, <1>8, <2>1 DEF FailPendingOne, EndInv
  <2>3. QED BY <1>8, <2>2 DEF FailPendingOne, EndInv
<1>9. ASSUME UNCHANGED <<call, queue, writer, fatal>>, stopped => stopped',
             drain' = "done" => drain = "done" \/ writer = "exited"
      PROVE  EndInv'
  BY <1>9 DEF EndInv, SomeAborted
<1>10. ASSUME NEW r \in Requests, Remove(r) PROVE EndInv'
  BY <1>9, <1>10 DEF Remove
<1>11. CASE DrainStop \/ DrainJoin \/ UNCHANGED vars
  BY <1>9, <1>11 DEF DrainStop, DrainJoin, vars
<1>12. QED
  BY <1>1, <1>2, <1>3, <1>4, <1>6, <1>7, <1>8, <1>10, <1>11 DEF Next, Writer

-----------------------------------------------------------------------------
(* The inductive invariant and the theorems.                               *)

IInv ==
    /\ TypeOK
    /\ WaitingInOnePlace
    /\ RowInv
    /\ NoStrictDuplicates
    /\ EndInv

LEMMA InvInit == Init => IInv
<1>1. Init => WaitingInOnePlace
  BY DEF Init, WaitingInOnePlace, Range
<1>2. Init => NoStrictDuplicates
  BY DEF Init, NoStrictDuplicates
<1>3. QED BY <1>1, <1>2, TypeInit, RowInit, EndInit DEF IInv

LEMMA InvStep == IInv /\ [Next]_vars => IInv'
BY TypeStep, PlaceStep, RowStep, HashStep, EndStep DEF IInv

\* The inductive invariant holds in every reachable state.
THEOREM Invariance == Spec => []IInv
<1>1. QED BY InvInit, InvStep, PTL DEF Spec

\* A request that waits is held by the queue or by the writer, exactly once.
THEOREM PlaceCorrect == Spec => []WaitingInOnePlace
<1>1. IInv => WaitingInOnePlace
  BY DEF IInv
<1>2. QED BY <1>1, Invariance, PTL

\* A worker told anything but "imported" has no row in the catalog.
THEOREM RowsCorrect == Spec => []RowsAreTold
<1>1. IInv => RowsAreTold
  BY DEF IInv, RowInv
<1>2. QED BY <1>1, Invariance, PTL

\* No two unforced rows share a hash, whatever the batching.
THEOREM HashCorrect == Spec => []NoStrictDuplicates
<1>1. IInv => NoStrictDuplicates
  BY DEF IInv
<1>2. QED BY <1>1, Invariance, PTL

\* When Drain has returned nobody waits and the fatal flag tells the truth.
THEOREM DrainCorrect == Spec => []DrainedIsFinal
<1>1. IInv => DrainedIsFinal
  <2>1. SUFFICES ASSUME IInv, drain = "done" PROVE DrainedIsFinal
    BY DEF DrainedIsFinal
  <2>2. writer = "exited" /\ queue = <<>> /\ held = <<>>
    BY <2>1 DEF IInv, EndInv, TypeOK
  <2>3. \A r \in Requests : call[r] # "waiting"
    BY <2>1, <2>2 DEF IInv, WaitingInOnePlace, Range
  <2>4. fatal <=> SomeAborted
    BY <2>1, <2>2 DEF IInv, EndInv
  <2>5. QED BY <2>3, <2>4 DEF DrainedIsFinal, SomeAborted
<1>2. QED BY <1>1, Invariance, PTL

-----------------------------------------------------------------------------
(* Refinement: every step of the dispatcher is a step of the contract, or  *)
(* one that its callers cannot see.                                        *)

\* Fulfilling the promise of the first request held answers that call.
LEMMA FulfilAnswers ==
    ASSUME TypeOK, WaitingInOnePlace, held # <<>>, NEW a \in Answers, Fulfil(a),
           (a = "imported") <=> (Head(held) \in rows),
           a = "duplicate" => Head(held) \notin Forced,
           UNCHANGED <<rows, stopped>>
    PROVE  Contract!Next
<1>1. Head(held) \in Requests /\ call[Head(held)] = "waiting"
  BY FulfilFacts, HeadHeldOnce
<1>2. a \in Contract!Answers
  BY DEF Answers, Verdicts, Contract!Answers
<1>3. Contract!Answer(Head(held), a)
  BY <1>1 DEF Fulfil, Contract!Answer
<1>4. QED BY <1>1, <1>2, <1>3 DEF Contract!Next, Contract!AnswerSome

LEMMA BatchCommits == IInv /\ AddBatch => Contract!Next
<1> SUFFICES ASSUME IInv, AddBatch PROVE Contract!Next
  OBVIOUS
<1>1. PICK v \in BatchVerdicts : rows' = rows \union Imported(v)
  BY DEF AddBatch
<1> DEFINE S == Imported(v)
<1>2. TypeOK /\ WaitingInOnePlace /\ RowInv /\ writer = "add"
  BY DEF IInv, AddBatch
<1>3. \A i \in 1..Len(held) : held[i] \in Requests /\ call[held[i]] = "waiting"
  <2>1. \A i \in 1..Len(held) : held[i] \in Range(held) /\ held[i] \in Requests
    BY <1>2, RangeFacts DEF TypeOK
  <2>2. QED BY <1>2, <2>1 DEF WaitingInOnePlace
<1>4. \A i \in 1..Len(held) : held[i] \notin rows
  BY <1>2, <1>3, HeldHasNoRow
<1>5. S \subseteq {r \in Requests \ rows : call[r] = "waiting"}
  BY <1>2, <1>3, <1>4, VerdictOfBatch
<1>6. \A r \in S \ Forced : ~HashTaken(r, rows \union (S \ (Forced \union {r})))
  <2>1. NoStrictDuplicates'
    BY HashStep DEF IInv, Next, Writer
  <2>2. \A r \in S \ Forced : ~HashTaken(r, rows)
    <3>1. \A i \in 1..Len(held) : rows \subseteq RowsBefore(v, i)
      BY DEF RowsBefore
    <3>2. \A r \in S \ Forced : \E i \in 1..Len(held) :
              held[i] = r /\ ~HashTaken(r, RowsBefore(v, i))
      BY <1>2, VerdictOfBatch
    <3>3. QED BY <3>1, <3>2 DEF HashTaken
  <2>3. \A r \in S \ Forced : \A t \in S \ (Forced \union {r}) :
            HashOf[r] # NoHash => HashOf[t] # HashOf[r]
    BY <1>1, <2>1 DEF NoStrictDuplicates
  <2>4. QED BY <2>2, <2>3 DEF HashTaken
<1>7. UNCHANGED <<call, stopped>>
  BY DEF AddBatch
<1>8. S \in SUBSET Requests
  BY <1>5
<1>9. \A r \in S \ Forced : ~Contract!HashTaken(r, rows \union (S \ (Forced \union {r})))
  BY <1>6 DEF HashTaken, Contract!HashTaken
<1> HIDE DEF S
<1>10. Contract!Commit(S)
  BY <1>1, <1>5, <1>7, <1>9 DEF Contract!Commit, S
<1>11. QED BY <1>8, <1>10 DEF Contract!Next

LEMMA RefinementStep == IInv /\ [Next]_vars => [Contract!Next]_(Contract!vars)
<1> SUFFICES ASSUME IInv, [Next]_vars, ~UNCHANGED <<call, rows, stopped>> PROVE Contract!Next
  BY DEF Contract!vars
<1>1. ASSUME NEW r \in Requests, Submit(r) PROVE Contract!Next
  <2>1. Contract!Accept(r)
    BY <1>1 DEF Submit, Enqueue, Contract!Accept
  <2>2. QED BY <2>1 DEF Contract!Next
<1>2. ASSUME NEW r \in Requests, SubmitRefused(r) PROVE Contract!Next
  <2>1. stopped
    BY <1>2 DEF SubmitRefused, IInv, EndInv
  <2>2. Contract!Refuse(r)
    BY <1>2, <2>1 DEF SubmitRefused, Contract!Refuse
  <2>3. QED BY <2>2 DEF Contract!Next
<1>3. ASSUME NEW r \in Requests, Remove(r) PROVE Contract!Next
  <2>1. Contract!TakeBack(r)
    BY <1>3 DEF Remove, Contract!TakeBack
  <2>2. QED BY <2>1 DEF Contract!Next
<1>4. CASE AddBatch
  BY <1>4, BatchCommits
<1>5. CASE AnswerOne
  <2>1. held # <<>> /\ results # <<>> /\ 1 \in 1..Len(held) /\ writer = "answer"
    BY <1>5, BatchAssumption DEF AnswerOne, IInv, TypeOK
  <2>2. Head(results) = results[1] /\ Head(held) = held[1] /\ Head(results) \in Answers
    BY <2>1, TailFacts DEF IInv, TypeOK, Answers
  <2>3. /\ (Head(results) = "imported") <=> (Head(held) \in rows)
        /\ Head(results) = "duplicate" => Head(held) \notin Forced
    BY <2>1, <2>2 DEF IInv, RowInv, HeldVerdicts
  <2>4. QED BY <1>5, <2>1, <2>2, <2>3, FulfilAnswers DEF AnswerOne, IInv
<1>6. ASSUME held # <<>>, writer # "answer", Fulfil("aborted"), UNCHANGED <<rows, stopped>>
      PROVE  Contract!Next
  <2>1. Head(held) \in Requests /\ Head(held) \notin rows
    BY <1>6, TailFacts, HeadHeldOnce, HeldHasNoRow DEF IInv, TypeOK
  <2>2. QED BY <1>6, <2>1, FulfilAnswers DEF IInv, Answers
<1>7. CASE FailBatchOne
  <2>1. held # <<>>
    BY <1>7, BatchAssumption DEF FailBatchOne, IInv, TypeOK
  <2>2. QED BY <1>6, <1>7, <2>1 DEF FailBatchOne
<1>8. CASE FailPendingOne
  <2>1. held # <<>>
    BY <1>8 DEF FailPendingOne, IInv, TypeOK
  <2>2. QED BY <1>6, <1>8, <2>1 DEF FailPendingOne
<1>9. CASE SetFatal \/ DrainStop
  <2>1. UNCHANGED <<call, rows>> /\ stopped'
    BY <1>9 DEF SetFatal, DrainStop
  <2>2. ~stopped
    BY <2>1 DEF IInv, TypeOK
  <2>3. Contract!Close
    BY <2>1, <2>2 DEF Contract!Close
  <2>4. QED BY <2>3 DEF Contract!Next
<1>10. QED
  BY <1>1, <1>2, <1>3, <1>4, <1>5, <1>7, <1>8, <1>9
     DEF Next, Writer, Take, Exit, AddBatchThrows, DrainJoin, vars

\* The dispatcher implements the safety part of the contract.
THEOREM Refinement == Spec => Contract!Safety
<1>1. Init => Contract!Init
  BY DEF Init, Contract!Init
<1>2. IInv /\ [Next]_vars => [Contract!Next]_(Contract!vars)
  BY RefinementStep
<1>3. QED BY <1>1, <1>2, Invariance, PTL DEF Spec, Contract!Safety
=============================================================================
