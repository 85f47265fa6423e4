-------------------------- MODULE BatchImportProofs --------------------------
(***************************************************************************)
(* Theorems about BatchImport, for every set of books, jobs, archives and  *)
(* permits.                                                                *)
(***************************************************************************)
EXTENDS BatchImport, FiniteSetTheorems, TLAPS

-----------------------------------------------------------------------------
(* Sequences and sets.                                                     *)

\* A set that is made a sequence keeps its elements, each of them once.
LEMMA SetAsSequence ==
    ASSUME NEW S, IsFiniteSet(S)
    PROVE  /\ SetToSeq(S) \in Seq(S) /\ Len(SetToSeq(S)) = Cardinality(S)
           /\ IsInjective(SetToSeq(S)) /\ Range(SetToSeq(S)) = S
<1> DEFINE n == Cardinality(S)
           f == SetToSeq(S)
<1>1. n \in Nat /\ ExistsBijection(1 .. n, S)
  BY FS_CardinalityType
<1>2. \E g \in [1 .. n -> S] : IsInjective(g)
  BY <1>1 DEF ExistsBijection, Bijection, Injection
<1>3. f \in [1 .. n -> S] /\ IsInjective(f)
  BY <1>2 DEF SetToSeq
<1>4. f \in Injection(1 .. n, S)
  BY <1>3 DEF Injection
<1>5. Cardinality(1 .. n) = n
  BY <1>1, FS_Interval
<1>6. f \in Surjection(1 .. n, S)
  BY <1>4, <1>5, FS_Injection
<1>7. \A x \in S : \E k \in 1 .. n : f[k] = x
  BY <1>6 DEF Surjection
<1> HIDE DEF f, n
<1>8. DOMAIN f = 1 .. n /\ f \in Seq(S) /\ Len(f) = n
  BY <1>1, <1>3
<1>9. Range(f) = S
  BY <1>3, <1>7, <1>8 DEF Range
<1>10. QED
  BY <1>3, <1>8, <1>9 DEF f, n

\* What two sequences have together.
LEMMA Joined ==
    ASSUME NEW T, NEW s \in Seq(T), NEW t \in Seq(T)
    PROVE  /\ s \o t \in Seq(T) /\ Len(s \o t) = Len(s) + Len(t)
           /\ Range(s \o t) = Range(s) \union Range(t)
           /\ IsInjective(s) /\ IsInjective(t) /\ Range(s) \intersect Range(t) = {}
                 => IsInjective(s \o t)
<1> DEFINE u == s \o t
<1>1. /\ u \in Seq(T) /\ Len(u) = Len(s) + Len(t) /\ DOMAIN u = 1 .. Len(s) + Len(t)
      /\ DOMAIN s = 1 .. Len(s) /\ DOMAIN t = 1 .. Len(t) /\ Len(s) \in Nat /\ Len(t) \in Nat
  OBVIOUS
<1>2. \A i \in 1 .. Len(s) + Len(t) : u[i] = IF i <= Len(s) THEN s[i] ELSE t[i - Len(s)]
  OBVIOUS
<1> HIDE DEF u
<1>3. \A i \in 1 .. Len(s) : u[i] = s[i] /\ i \in DOMAIN u
  BY <1>1, <1>2
<1>4. ASSUME NEW i \in 1 .. Len(t) PROVE u[Len(s) + i] = t[i] /\ Len(s) + i \in DOMAIN u
  <2>1. Len(s) + i \in 1 .. Len(s) + Len(t) /\ ~(Len(s) + i <= Len(s))
        /\ Len(s) + i - Len(s) = i
    BY <1>1
  <2>2. QED
    BY <1>1, <1>2, <2>1
<1>5. ASSUME NEW i \in DOMAIN u
      PROVE  \/ i \in 1 .. Len(s) /\ u[i] = s[i]
             \/ i - Len(s) \in 1 .. Len(t) /\ u[i] = t[i - Len(s)] /\ ~(i \in 1 .. Len(s))
  BY <1>1, <1>2
<1>6. Range(u) = Range(s) \union Range(t)
  BY <1>1, <1>3, <1>4, <1>5 DEF Range
<1>7. ASSUME IsInjective(s), IsInjective(t), Range(s) \intersect Range(t) = {},
             NEW i \in DOMAIN u, NEW j \in DOMAIN u, u[i] = u[j]
      PROVE  i = j
  <2>1. CASE i \in 1 .. Len(s) /\ j \in 1 .. Len(s)
    BY <1>1, <1>3, <1>7, <2>1 DEF IsInjective
  <2>2. CASE ~(i \in 1 .. Len(s)) /\ ~(j \in 1 .. Len(s))
    <3>1. i - Len(s) = j - Len(s)
      BY <1>1, <1>5, <1>7, <2>2 DEF IsInjective
    <3>2. QED
      BY <1>1, <3>1
  <2>3. CASE ~(i \in 1 .. Len(s) <=> j \in 1 .. Len(s))
    <3>1. u[i] \in Range(s) \intersect Range(t)
      BY <1>1, <1>5, <1>7, <2>3 DEF Range
    <3>2. QED
      BY <1>7, <3>1
  <2>4. QED
    BY <2>1, <2>2, <2>3
<1>8. QED
  BY <1>1, <1>6, <1>7 DEF u, IsInjective

\* One book more at the end of a list.
LEMMA Appended ==
    ASSUME NEW T, NEW s \in Seq(T), NEW x \in T
    PROVE  /\ Append(s, x) \in Seq(T) /\ Len(Append(s, x)) = Len(s) + 1
           /\ Range(Append(s, x)) = Range(s) \union {x}
           /\ IsInjective(s) /\ x \notin Range(s) => IsInjective(Append(s, x))
<1>1. <<x>> \in Seq(T) /\ Append(s, x) = s \o <<x>> /\ Len(<<x>>) = 1 /\ DOMAIN <<x>> = {1}
      /\ <<x>>[1] = x
  OBVIOUS
<1>2. Range(<<x>>) = {x} /\ IsInjective(<<x>>)
  BY <1>1 DEF Range, IsInjective
<1> DEFINE t == <<x>>
<1>3. t \in Seq(T) /\ Append(s, x) = s \o t /\ Len(t) = 1 /\ Range(t) = {x} /\ IsInjective(t)
  BY <1>1, <1>2
<1> HIDE DEF t
<1>4. /\ s \o t \in Seq(T) /\ Len(s \o t) = Len(s) + Len(t)
      /\ Range(s \o t) = Range(s) \union Range(t)
      /\ IsInjective(s) /\ IsInjective(t) /\ Range(s) \intersect Range(t) = {}
         => IsInjective(s \o t)
  BY <1>3, Joined
<1>5. QED
  BY <1>3, <1>4

-----------------------------------------------------------------------------
\* The first of a queue is taken out.
LEMMA Dequeued ==
    ASSUME NEW T, NEW s \in Seq(T), s # <<>>
    PROVE  /\ Head(s) \in Range(s) /\ Head(s) \in T /\ Tail(s) \in Seq(T)
           /\ IsInjective(s) => /\ IsInjective(Tail(s))
                                /\ Range(Tail(s)) = Range(s) \ {Head(s)}
<1> DEFINE t == Tail(s)
<1>1. /\ t \in Seq(T) /\ Len(s) \in Nat /\ Len(t) = Len(s) - 1 /\ Len(s) >= 1
      /\ DOMAIN s = 1 .. Len(s) /\ DOMAIN t = 1 .. Len(s) - 1 /\ Head(s) = s[1]
  OBVIOUS
<1>2. \A i \in 1 .. Len(s) - 1 : t[i] = s[i + 1]
  OBVIOUS
<1> HIDE DEF t
<1>3. 1 \in DOMAIN s
  BY <1>1
<1>4. \A i \in DOMAIN t : i + 1 \in DOMAIN s /\ i + 1 # 1 /\ t[i] = s[i + 1]
  BY <1>1, <1>2
<1>5. \A j \in DOMAIN s : j = 1 \/ (j - 1 \in DOMAIN t /\ j - 1 + 1 = j)
  BY <1>1
<1>6. ASSUME IsInjective(s) PROVE IsInjective(t)
  <2>1. SUFFICES ASSUME NEW i \in DOMAIN t, NEW j \in DOMAIN t, t[i] = t[j] PROVE i = j
    BY DEF IsInjective
  <2>2. i + 1 = j + 1
    BY <1>4, <1>6, <2>1 DEF IsInjective
  <2>3. QED
    BY <1>1, <2>2
<1>7. ASSUME IsInjective(s) PROVE Range(t) = Range(s) \ {s[1]}
  <2>1. \A i \in DOMAIN t : t[i] \in Range(s) \ {s[1]}
    BY <1>3, <1>4, <1>7 DEF IsInjective, Range
  <2>2. \A j \in DOMAIN s : s[j] = s[1] \/ s[j] \in Range(t)
    BY <1>4, <1>5 DEF Range
  <2>3. QED
    BY <2>1, <2>2 DEF Range
<1>8. s[1] \in Range(s) /\ s[1] \in T
  BY <1>3 DEF Range
<1>9. QED
  BY <1>1, <1>6, <1>7, <1>8 DEF t

\* A set of the job's books has a number.
LEMMA Finite ==
    ASSUME NEW S \in SUBSET Books
    PROVE  IsFiniteSet(S) /\ Cardinality(S) \in Nat
  BY BatchAssumption, FS_Subset, FS_CardinalityType

\* One book more.
LEMMA OneMore ==
    ASSUME NEW S \in SUBSET Books, NEW b \in Books \ S
    PROVE  Cardinality(S \union {b}) = Cardinality(S) + 1
  BY Finite, FS_AddElement

\* Some books more.
LEMMA SomeMore ==
    ASSUME NEW S \in SUBSET Books, NEW T \in SUBSET Books, S \intersect T = {}
    PROVE  Cardinality(S \union T) = Cardinality(S) + Cardinality(T)
<1>1. /\ IsFiniteSet(S) /\ IsFiniteSet(T) /\ Cardinality(S) \in Nat /\ Cardinality(T) \in Nat
  BY Finite
<1>2. Cardinality(S \union T) = Cardinality(S) + Cardinality(T) - Cardinality(S \intersect T)
  BY <1>1, FS_Union
<1>3. Cardinality(S \intersect T) = 0
  BY FS_EmptySet
<1>4. QED
  BY <1>1, <1>2, <1>3

\* The number of a list without repetitions.
LEMMA Lengths ==
    ASSUME NEW s \in Seq(Books), IsInjective(s)
    PROVE  Len(s) = Cardinality(Range(s)) /\ Range(s) \subseteq Books /\ Len(s) \in Nat
<1>1. /\ Len(s) \in Nat /\ DOMAIN s = 1 .. Len(s) /\ \A i \in DOMAIN s : s[i] \in Books
      /\ s \in [1 .. Len(s) -> Books]
  OBVIOUS
<1>2. Range(s) = {s[i] : i \in 1 .. Len(s)} /\ Range(s) \subseteq Books
  BY <1>1 DEF Range
<1>3. s \in Bijection(1 .. Len(s), Range(s))
  BY <1>1, <1>2 DEF Bijection, Injection, Surjection, IsInjective
<1>4. 1 \in Int /\ Len(s) \in Int /\ Len(s) - 1 + 1 = Len(s) /\ (1 > Len(s) => Len(s) = 0)
  BY <1>1
<1>5. IsFiniteSet(1 .. Len(s)) /\ Cardinality(1 .. Len(s)) = Len(s)
  BY <1>4, FS_Interval
<1>6. ExistsBijection(1 .. Len(s), Range(s))
  BY <1>3 DEF ExistsBijection
<1>7. Cardinality(Range(s)) = Cardinality(1 .. Len(s))
  BY <1>5, <1>6, FS_Bijection
<1>8. QED
  BY <1>1, <1>2, <1>5, <1>7

-----------------------------------------------------------------------------
(* The invariants.                                                         *)

\* A segment is worked through by the pool.
Pooled == {"submit", "acquire", "await", "unwind"}

\* The rollback, from the first statement that may have gone half the way.
InRollback == {"fallback", "cleanup", "compact", "rebuild", "uncompacted"}

\* The books of the segment that were begun, and those nobody has asked how they ended.
Sent == {seg[m] : m \in 1 .. sent}

Open == IF phase \in Pooled THEN Sent ELSE IF phase = "inline" THEN {seg[sent]} ELSE {}

\* The entries of the sources that were begun.
Past == UNION {EntriesIn(work.candidates[n]) : n \in 1 .. (next - 1)}

TypeInv ==
    /\ work \in Workloads
    /\ next \in 1 .. (Len(work.candidates) + 1)
    /\ phase \in Phases
    /\ seg \in Seq(Books) /\ IsInjective(seg) /\ sent \in 0 .. Len(seg)
    /\ at \in [Books -> {"idle", "running", "writing", "publishing", "leaving", "ended"}]
    /\ result \in [Books -> Outcomes \union {"none"}]
    /\ call \in [Books -> W!Statuses]
    /\ cancelled \in BOOLEAN /\ hadFatal \in BOOLEAN /\ fatal \in BOOLEAN /\ stop \in BOOLEAN

\* The entries are begun in order, each of them once, and an importer that was begun is
\* waited for.
SegInv ==
    /\ Range(seg) \subseteq Past
    /\ \A m \in (sent + 1) .. Len(seg) : at[seg[m]] = "idle"
    /\ \A n \in next .. Len(work.candidates) :
          \A b \in EntriesIn(work.candidates[n]) : at[b] = "idle"
    /\ phase = "acquire" => sent < Len(seg)
    /\ phase = "inline" => sent > 0 /\ at[seg[sent]] \in {"running", "writing", "publishing"}
    /\ \A b \in Open : at[b] # "idle"
    /\ \A b \in Books : at[b] \notin {"idle", "ended"} => b \in Open

\* The candidates of a job are books and archives.
LEMMA Candidates ==
    ASSUME TypeInv
    PROVE  /\ work.candidates \in Seq(Books \union Archives) /\ Len(work.candidates) \in Nat
           /\ DOMAIN work.candidates = 1 .. Len(work.candidates)
           /\ \A n \in 1 .. Len(work.candidates) : EntriesIn(work.candidates[n]) \subseteq Books
           /\ \A m, n \in 1 .. Len(work.candidates) : m # n =>
                 EntriesIn(work.candidates[m]) \intersect EntriesIn(work.candidates[n]) = {}
<1>1. /\ work.candidates \in Seq(Books \union Archives) /\ Len(work.candidates) \in Nat
      /\ DOMAIN work.candidates = 1 .. Len(work.candidates)
  BY BatchAssumption DEF TypeInv
<1>2. ASSUME NEW n \in 1 .. Len(work.candidates)
      PROVE  EntriesIn(work.candidates[n]) \subseteq Books
  <2>1. work.candidates[n] \in Books \union Archives
    BY <1>1
  <2>2. ASSUME NEW a \in Archives PROVE Range(EntriesOf[a]) \subseteq Books
    BY BatchAssumption DEF Range
  <2>3. QED
    BY <2>1, <2>2 DEF EntriesIn
<1>3. QED
  BY <1>1, <1>2, BatchAssumption DEF TypeInv

\* What was begun.
LEMMA Beginning ==
    ASSUME TypeInv
    PROVE  /\ Range(Begun) = Sent /\ Sent \subseteq Range(seg) /\ Range(seg) \subseteq Books
           /\ IsFiniteSet(Sent) /\ IsFiniteSet(Range(seg))
           /\ Cardinality(Range(seg)) = Len(seg)
           /\ sent = Len(seg) => Sent = Range(seg)
           /\ \A m \in 1 .. Len(seg) : seg[m] \in Books /\ (seg[m] \in Sent => m \in 1 .. sent)
           /\ sent \in Nat /\ Len(seg) \in Nat
<1>1. /\ seg \in Seq(Books) /\ IsInjective(seg) /\ sent \in 0 .. Len(seg)
      /\ sent \in Nat /\ Len(seg) \in Nat /\ DOMAIN seg = 1 .. Len(seg)
  BY DEF TypeInv
<1>2. Len(Begun) = sent /\ DOMAIN Begun = 1 .. sent /\ \A m \in 1 .. sent : Begun[m] = seg[m]
  BY <1>1 DEF Begun
<1>3. Range(Begun) = Sent
  BY <1>2 DEF Range, Sent
<1>4. Range(seg) = {seg[m] : m \in 1 .. Len(seg)} /\ Range(seg) \subseteq Books
  BY <1>1 DEF Range
<1>5. Sent \subseteq Range(seg) /\ (sent = Len(seg) => Sent = Range(seg))
  <2>1. \A m \in 1 .. sent : m \in 1 .. Len(seg)
    BY <1>1
  <2>2. \A b \in Sent : \E m \in 1 .. sent : b = seg[m]
    BY DEF Sent
  <2>3. \A m \in 1 .. Len(seg) : seg[m] \in Range(seg)
    BY <1>4
  <2>4. Sent \subseteq Range(seg)
    BY <2>1, <2>2, <2>3
  <2>5. QED
    BY <2>4, <1>4 DEF Sent
<1>6. IsFiniteSet(Sent) /\ IsFiniteSet(Range(seg))
  BY <1>4, <1>5, FS_Subset, BatchAssumption
<1>7. Cardinality(Range(seg)) = Len(seg)
  BY <1>1, Lengths
<1>8. \A m \in 1 .. Len(seg) : seg[m] \in Books /\ (seg[m] \in Sent => m \in 1 .. sent)
  BY <1>1 DEF Sent, IsInjective
<1>9. QED
  BY <1>1, <1>3, <1>4, <1>5, <1>6, <1>7, <1>8

\* What a step of an importer does to the workers.
LEMMA ImportMoves ==
    ASSUME TypeInv, NEW b \in Books, Imports(b)
    PROVE  /\ UNCHANGED <<phase, work, next, seg, sent, pending, summary, rollback, fatal,
                          stop, open>>
           /\ at[b] \notin {"idle", "ended"}
           /\ \E s \in {"writing", "publishing", "leaving", "ended"} :
                 /\ at' = [at EXCEPT ![b] = s]
                 /\ s = "ended" <=> at[b] = "leaving"
                 /\ s = "leaving" <=> at[b] = "publishing"
                 /\ s = "leaving" => phase # "inline"
                 /\ s = "publishing" => \E o \in Outcomes : result' = [result EXCEPT ![b] = o]
                 /\ s # "publishing" => result' = result
                 /\ s = "leaving" => queue' = Append(queue, b)
                 /\ s # "leaving" => queue' = queue
           /\ \A r \in Books \ {b} : call'[r] = call[r]
           /\ call' \in [Books -> W!Statuses]
<1> USE DEF job, summary, rollback, store, catalog, Unwritten
<1>1. CASE EndsUnwritten(b)
  BY <1>1 DEF EndsUnwritten, Ends, Outcomes, Skips, TypeInv
<1>2. CASE Writes(b)
  BY <1>2 DEF Writes, Ends, Outcomes, TypeInv, W!Accept, W!Refuse, W!Statuses
<1>3. CASE WritesDirectly(b)
  BY <1>3 DEF WritesDirectly, Outcomes, TypeInv, W!Statuses, W!Answers
<1>4. CASE Stores(b)
  BY <1>4 DEF Stores, Ends, Outcomes, TypeInv
<1>5. CASE StoreFails(b)
  BY <1>5 DEF StoreFails, Ends, Outcomes, TypeInv, W!TakeBack
<1>6. CASE NotWritten(b)
  BY <1>6 DEF NotWritten, Ends, Outcomes, Skips, TypeInv
<1>7. CASE Publishes(b)
  BY <1>7 DEF Publishes, TypeInv
<1>8. CASE Leaves(b)
  BY <1>8 DEF Leaves, TypeInv
<1>9. QED
  BY <1>1, <1>2, <1>3, <1>4, <1>5, <1>6, <1>7, <1>8 DEF Imports

\* The entries of the sources of a job are begun in turn.
LEMMA SourceBegins ==
    ASSUME TypeInv, NextSource
    PROVE  \/ /\ More /\ seg' \in Seq(Books) /\ IsInjective(seg') /\ Len(seg') \in Nat
              /\ next' \in (next + 1) .. (Len(work.candidates) + 1)
              /\ sent' = 0 /\ work' = work
              /\ phase' \in {"submit", "sequential"}
              /\ phase' = "sequential" => work.candidates[next' - 1] \notin Archives
              /\ Range(seg') = UNION {EntriesIn(work.candidates[n]) : n \in next .. (next' - 1)}
           \/ ~More /\ phase' = "drain" /\ UNCHANGED job
<1>0. /\ work.candidates \in Seq(Books \union Archives) /\ Len(work.candidates) \in Nat
      /\ DOMAIN work.candidates = 1 .. Len(work.candidates)
      /\ next \in 1 .. (Len(work.candidates) + 1)
  BY Candidates DEF TypeInv
<1>1. /\ work.candidates \in Seq(Books \union Archives) /\ Len(work.candidates) \in Nat
      /\ DOMAIN work.candidates = 1 .. Len(work.candidates) /\ next \in Nat \ {0}
  BY <1>0
<1>2. CASE ~More /\ phase' = "drain" /\ UNCHANGED job
  BY <1>2
<1>3. CASE NextArchive /\ sent' = 0 /\ UNCHANGED work
  <2>1. /\ More /\ work.candidates[next] \in Archives
        /\ seg' = EntriesOf[work.candidates[next]] /\ next' = next + 1 /\ phase' = "submit"
    BY <1>3 DEF NextArchive
  <2>2. seg' \in Seq(Books) /\ IsInjective(seg') /\ Len(seg') \in Nat
    BY <2>1, BatchAssumption
  <2>3. next' \in (next + 1) .. (Len(work.candidates) + 1) /\ next .. (next' - 1) = {next}
    BY <1>1, <2>1 DEF More
  <2>4. Range(seg') = EntriesIn(work.candidates[next])
    BY <2>1 DEF EntriesIn
  <2>5. Range(seg') = UNION {EntriesIn(work.candidates[n]) : n \in next .. (next' - 1)}
    BY <2>3, <2>4
  <2>6. QED
    BY <1>3, <2>1, <2>2, <2>3, <2>5
<1>4. CASE NextFiles /\ sent' = 0 /\ UNCHANGED work
  <2>1. PICK last \in next .. Len(work.candidates) :
            /\ More /\ FilesOnly(next, last)
            /\ seg' = SubSeq(work.candidates, next, last)
            /\ next' = last + 1
            /\ phase' \in {"submit", "sequential"}
    BY <1>4 DEF NextFiles
  <2>2. next' \in (next + 1) .. (Len(work.candidates) + 1) /\ next' - 1 = last
    BY <1>1, <2>1
  <2>3. \A n \in next .. last : /\ n \in 1 .. Len(work.candidates)
                                /\ work.candidates[n] \in Books \ Archives
                                /\ EntriesIn(work.candidates[n]) = {work.candidates[n]}
    BY <1>1, <2>1 DEF FilesOnly, EntriesIn
  <2>4. /\ seg' = [k \in 1 .. (last - next + 1) |-> work.candidates[next + k - 1]]
        /\ Len(seg') = last - next + 1 /\ last - next + 1 \in Nat
        /\ DOMAIN seg' = 1 .. (last - next + 1)
    BY <1>1, <2>1
  <2>5. \A k \in 1 .. (last - next + 1) : next + k - 1 \in next .. last
    BY <1>1, <2>1
  <2>6. seg' \in Seq(Books)
    <3>1. seg' \in [1 .. (last - next + 1) -> Books]
      BY <2>3, <2>4, <2>5
    <3>2. QED
      BY <2>4, <3>1
  <2>7. IsInjective(seg')
    <3>1. SUFFICES ASSUME NEW j \in DOMAIN seg', NEW k \in DOMAIN seg', seg'[j] = seg'[k]
                   PROVE  j = k
      BY DEF IsInjective
    <3>2. work.candidates[next + j - 1] = work.candidates[next + k - 1]
      BY <2>4, <3>1
    <3>3. \A m, n \in next .. last :
              m # n => EntriesIn(work.candidates[m]) \intersect EntriesIn(work.candidates[n]) = {}
      BY <2>3, Candidates
    <3>4. next + j - 1 \in next .. last /\ next + k - 1 \in next .. last
      BY <2>4, <2>5, <3>1
    <3>5. next + j - 1 = next + k - 1
      BY <2>3, <3>2, <3>3, <3>4
    <3>6. QED
      BY <1>1, <2>4, <3>1, <3>5
  <2>8. Range(seg') = UNION {EntriesIn(work.candidates[n]) : n \in next .. (next' - 1)}
    <3>1. ASSUME NEW n \in next .. last PROVE work.candidates[n] \in Range(seg')
      <4>1. n - next + 1 \in 1 .. (last - next + 1) /\ next + (n - next + 1) - 1 = n
        BY <1>1, <2>1
      <4>2. seg'[n - next + 1] = work.candidates[n]
        BY <2>4, <4>1
      <4>3. QED
        BY <2>4, <4>1, <4>2 DEF Range
    <3>2. ASSUME NEW b \in Range(seg')
          PROVE  \E n \in next .. last : b \in EntriesIn(work.candidates[n])
      <4>1. PICK k \in 1 .. (last - next + 1) : b = work.candidates[next + k - 1]
        BY <2>4 DEF Range
      <4>2. QED
        BY <2>3, <2>5, <4>1
    <3>3. ASSUME NEW n \in next .. last, NEW b \in EntriesIn(work.candidates[n])
          PROVE  b \in Range(seg')
      BY <2>3, <3>1, <3>3
    <3>4. QED
      BY <2>2, <3>2, <3>3
  <2>9. phase' = "sequential" => work.candidates[next' - 1] \notin Archives
    BY <2>1, <2>2, <2>3
  <2>10. QED
    BY <1>4, <2>1, <2>2, <2>4, <2>6, <2>7, <2>8, <2>9
<1>5. QED
  BY <1>2, <1>3, <1>4 DEF NextSource

\* The types to begin with.
LEMMA TypeInit == Init => TypeInv
<1>1. SUFFICES ASSUME Init PROVE TypeInv
  OBVIOUS
<1>2. Len(work.candidates) \in Nat
  BY <1>1, BatchAssumption DEF Init
<1>3. 1 \in 1 .. (Len(work.candidates) + 1)
  BY <1>2
<1>4. seg = <<>> /\ sent = 0
  BY <1>1 DEF Init
<1>5. seg \in Seq(Books) /\ Len(seg) = 0 /\ DOMAIN seg = {}
  BY <1>4
<1>6. IsInjective(seg) /\ sent \in 0 .. Len(seg)
  BY <1>4, <1>5 DEF IsInjective
<1>7. QED
  BY <1>1, <1>3, <1>5, <1>6 DEF Init, W!Init, TypeInv, Phases, Over, Returned, W!Statuses, Outcomes

\* The types.
LEMMA TypeNext == TypeInv /\ SegInv /\ [Next]_vars => TypeInv'
<1>1. SUFFICES ASSUME TypeInv, SegInv, [Next]_vars PROVE TypeInv'
  OBVIOUS
<1> USE DEF job, workers, summary, rollback, store, catalog, Phases, Over, Returned
<1>2. CASE NextSource
  <2>1. /\ next' \in 1 .. (Len(work'.candidates) + 1) /\ phase' \in Phases /\ work' \in Workloads
        /\ seg' \in Seq(Books) /\ IsInjective(seg') /\ sent' \in 0 .. Len(seg')
    BY <1>1, <1>2, SourceBegins DEF TypeInv
  <2>2. QED
    BY <1>1, <1>2, <2>1 DEF NextSource, TypeInv
<1>3. CASE Submit \/ SequentialBegins
  BY <1>1, <1>3, Beginning DEF Submit, SequentialBegins, TypeInv, SegInv
<1>4. CASE SequentialEnds
  BY <1>1, <1>4 DEF SequentialEnds, TypeInv
<1>5. CASE ReserveIdsThrows \/ Admit \/ StopSubmitting \/ ApplyEvent \/ ArchiveThrows
  BY <1>1, <1>5 DEF ReserveIdsThrows, Admit, StopSubmitting, ApplyEvent, ArchiveThrows, TypeInv
<1>6. CASE Collect
  BY <1>1, <1>6 DEF Collect, TypeInv
<1>7. CASE ArchiveUnwound
  BY <1>1, <1>7 DEF ArchiveUnwound, TypeInv
<1>8. CASE Drain \/ Judge \/ Optimize
  BY <1>1, <1>8 DEF Drain, Judge, Optimize, TypeInv
<1>9. CASE Revert
  BY <1>1, <1>9 DEF Revert, Lookup, RemoveBatch, RemoveBatchThrows, FallbackRemove, Cleanup,
                    RolledBack, TypeInv
<1>10. CASE Shrink
  BY <1>1, <1>10 DEF Shrink, WipeIndex, Reindex, Vacuum, CompactThrows, TypeInv
<1>11. CASE Stop
  BY <1>1, <1>11 DEF Stop, TypeInv
<1>12. CASE WriterCommits
  BY <1>1, <1>12 DEF WriterCommits, W!Commit, TypeInv
<1>13. CASE WriterAnswers
  BY <1>1, <1>13 DEF WriterAnswers, W!Answer, W!Statuses, TypeInv
<1>14. CASE WriterBreaks
  BY <1>1, <1>14 DEF WriterBreaks, W!Close, TypeInv
<1>15. ASSUME NEW b \in Books, Imports(b) PROVE TypeInv'
  <2>1. /\ UNCHANGED <<phase, work, next, seg, sent, summary, fatal, stop>>
        /\ call' \in [Books -> W!Statuses]
        /\ at' \in [Books -> {"idle", "running", "writing", "publishing", "leaving", "ended"}]
        /\ result' \in [Books -> Outcomes \union {"none"}]
    BY <1>1, <1>15, ImportMoves DEF TypeInv
  <2>2. QED
    BY <1>1, <2>1 DEF TypeInv
<1>16. CASE UNCHANGED vars
  BY <1>1, <1>16 DEF vars, TypeInv
<1>17. QED
  BY <1>1, <1>2, <1>3, <1>4, <1>5, <1>6, <1>7, <1>8, <1>9, <1>10, <1>11, <1>12, <1>13, <1>14,
     <1>15, <1>16 DEF Next, JobThread, Begin, Supply, Unwind, Finish

-----------------------------------------------------------------------------
(* The segments.                                                           *)

\* The numbers of the sources of a segment.
LEMMA Between ==
    ASSUME NEW N \in Nat, NEW i \in 1 .. (N + 1), NEW j \in (i + 1) .. (N + 1)
    PROVE  \A n \in i .. (j - 1) : n \in i .. N /\ n \in 1 .. (j - 1)
  OBVIOUS

\* The entries of the sources to come are none of those that were begun.
LEMMA Ahead ==
    ASSUME TypeInv, SegInv
    PROVE  \A n \in next .. Len(work.candidates) :
              EntriesIn(work.candidates[n]) \intersect Past = {}
<1>1. SUFFICES ASSUME NEW n \in next .. Len(work.candidates), NEW m \in 1 .. (next - 1),
                      NEW b \in EntriesIn(work.candidates[n]),
                      b \in EntriesIn(work.candidates[m])
               PROVE  FALSE
  BY DEF Past
<1>2. Len(work.candidates) \in Nat /\ next \in 1 .. (Len(work.candidates) + 1)
  BY Candidates DEF TypeInv
<1>3. n \in 1 .. Len(work.candidates) /\ m \in 1 .. Len(work.candidates) /\ m # n
  BY <1>2
<1>4. QED
  BY <1>1, <1>3, Candidates

\* Where nothing of a segment moves.
LEMMA SegKept ==
    ASSUME SegInv, UNCHANGED <<job, at>>, Open' = Open,
           phase' = "acquire" => sent < Len(seg), phase' = "inline" => phase = "inline"
    PROVE  SegInv'
  BY DEF SegInv, Past, job

\* The next entry of a segment is begun.
LEMMA EntryBegins ==
    ASSUME TypeInv, SegInv, sent < Len(seg), sent' = sent + 1, UNCHANGED <<work, next, seg>>,
           at' = [at EXCEPT ![seg[sent + 1]] = "running"],
           \/ phase = "acquire" /\ phase' = "submit"
           \/ phase = "sequential" /\ phase' = "inline"
    PROVE  /\ SegInv' /\ at[seg[sent + 1]] = "idle" /\ seg[sent + 1] \in Books
           /\ Sent' = Sent \union {seg[sent + 1]} /\ seg[sent + 1] \notin Sent
<1> DEFINE b == seg[sent + 1]
<1>1. /\ seg \in Seq(Books) /\ DOMAIN seg = 1 .. Len(seg) /\ sent \in Nat /\ Len(seg) \in Nat
      /\ sent + 1 \in 1 .. Len(seg) /\ sent + 1 \in (sent + 1) .. Len(seg) /\ sent <= Len(seg)
  BY DEF TypeInv
<1>2. b \in Books /\ at[b] = "idle" /\ b \in Past
  BY <1>1 DEF SegInv, Range
<1>3. at' \in [Books -> {"idle", "running", "writing", "publishing", "leaving", "ended"}]
      /\ at'[b] = "running" /\ \A c \in Books : c # b => at'[c] = at[c]
  BY <1>2 DEF TypeInv
<1>4. \A m \in 1 .. Len(seg) : seg[m] \in Books /\ (seg[m] = b => m = sent + 1)
  BY <1>1 DEF TypeInv, IsInjective
<1>5. Sent' = Sent \union {b} /\ b \notin Sent
  <2>1. \A m \in 1 .. sent : m \in 1 .. (sent + 1) /\ m \in 1 .. Len(seg) /\ m # sent + 1
    BY <1>1
  <2>2. \A m \in 1 .. (sent + 1) : m = sent + 1 \/ m \in 1 .. sent
    BY <1>1
  <2>3. sent + 1 \in 1 .. (sent + 1)
    BY <1>1
  <2>4. Sent' = {seg[m] : m \in 1 .. (sent + 1)}
    BY DEF Sent
  <2>5. QED
    BY <1>4, <2>1, <2>2, <2>3, <2>4 DEF Sent
<1>6. Range(seg') \subseteq Past'
  BY DEF SegInv, Past
<1>7. \A m \in (sent' + 1) .. Len(seg') : at'[seg'[m]] = "idle"
  <2>1. \A m \in (sent + 1 + 1) .. Len(seg) :
            m \in (sent + 1) .. Len(seg) /\ m \in 1 .. Len(seg) /\ m # sent + 1
    BY <1>1
  <2>2. QED
    BY <1>3, <1>4, <2>1 DEF SegInv
<1>8. \A n \in next' .. Len(work'.candidates) :
          \A c \in EntriesIn(work'.candidates[n]) : at'[c] = "idle"
  <2>1. SUFFICES ASSUME NEW n \in next .. Len(work.candidates),
                        NEW c \in EntriesIn(work.candidates[n])
                 PROVE  at'[c] = "idle"
    OBVIOUS
  <2>2. Len(work.candidates) \in Nat /\ next \in 1 .. (Len(work.candidates) + 1)
    BY Candidates DEF TypeInv
  <2>3. n \in 1 .. Len(work.candidates)
    BY <2>2
  <2>4. c \in Books /\ c # b
    BY <1>2, <2>3, Ahead, Candidates
  <2>5. QED
    BY <1>3, <2>4 DEF SegInv
<1>9. Open' \subseteq Books /\ b \in Open'
      /\ Open' = IF phase' = "submit" THEN Sent \union {b} ELSE {b}
  <2>1. Sent \subseteq Books
    BY Beginning
  <2>2. seg'[sent'] = b
    OBVIOUS
  <2>3. QED
    BY <1>2, <1>5, <2>1, <2>2 DEF Open, Pooled
<1>10. Open = IF phase' = "submit" THEN Sent ELSE {}
  BY DEF Open, Pooled
<1>11. \A c \in Open' : at'[c] # "idle"
  BY <1>3, <1>9, <1>10, Beginning DEF SegInv
<1>12. \A c \in Books : at'[c] \notin {"idle", "ended"} => c \in Open'
  BY <1>3, <1>9, <1>10 DEF SegInv
<1>13. phase' = "inline" => sent' > 0 /\ at'[seg'[sent']] \in {"running", "writing", "publishing"}
  BY <1>1, <1>3
<1> HIDE DEF b
<1>14. SegInv'
  BY <1>6, <1>7, <1>8, <1>11, <1>12, <1>13 DEF SegInv
<1>15. QED
  BY <1>2, <1>5, <1>14 DEF b

\* The segments to begin with.
LEMMA SegInit == Init => SegInv
<1>1. SUFFICES ASSUME Init PROVE SegInv
  OBVIOUS
<1>2. seg = <<>> /\ sent = 0 /\ phase = "loop" /\ at = [b \in Books |-> "idle"] /\ next = 1
      /\ work \in Workloads
  BY <1>1 DEF Init
<1>3. Len(seg) = 0 /\ Range(seg) = {} /\ (sent + 1) .. Len(seg) = {}
  BY <1>2 DEF Range
<1>4. Open = {} /\ \A b \in Books : at[b] = "idle"
  BY <1>2 DEF Open, Pooled
<1>5. \A n \in 1 .. Len(work.candidates) : EntriesIn(work.candidates[n]) \subseteq Books
  BY <1>1, TypeInit, Candidates
<1>6. QED
  BY <1>2, <1>3, <1>4, <1>5 DEF SegInv

\* The segments.
LEMMA SegNext == TypeInv /\ SegInv /\ [Next]_vars => SegInv'
<1>1. SUFFICES ASSUME TypeInv, SegInv, [Next]_vars PROVE SegInv'
  OBVIOUS
<1> USE DEF job, workers, summary, rollback, store, catalog
<1>2. CASE NextSource
  <2>1. phase = "loop" /\ at' = at /\ Open = {}
    BY <1>2 DEF NextSource, Open, Pooled
  <2>2. CASE ~More /\ phase' = "drain" /\ UNCHANGED job
    <3>1. Open' = {}
      BY <2>2 DEF Open, Pooled
    <3>2. QED
      BY <1>1, <2>1, <2>2, <3>1, SegKept
  <2>3. CASE /\ More /\ seg' \in Seq(Books) /\ IsInjective(seg') /\ Len(seg') \in Nat
             /\ next' \in (next + 1) .. (Len(work.candidates) + 1)
             /\ sent' = 0 /\ work' = work
             /\ phase' \in {"submit", "sequential"}
             /\ Range(seg') = UNION {EntriesIn(work.candidates[n]) : n \in next .. (next' - 1)}
    <3>1. /\ Len(work.candidates) \in Nat /\ next \in 1 .. (Len(work.candidates) + 1)
          /\ next \in Nat /\ 1 <= next
          /\ next' \in Nat /\ next' > next /\ next' <= Len(work.candidates) + 1
      BY <1>1, <2>3, Candidates DEF TypeInv
    <3>2. \A n \in next .. (next' - 1) :
             n \in next .. Len(work.candidates) /\ n \in 1 .. (next' - 1)
      BY <2>3, <3>1, Between
    <3>3. Range(seg') \subseteq Past'
      BY <2>3, <3>2 DEF Past
    <3>4. \A b \in Range(seg') : at'[b] = "idle"
      BY <1>1, <2>1, <2>3, <3>2 DEF SegInv
    <3>5. \A m \in 1 .. Len(seg') : seg'[m] \in Range(seg')
      BY <2>3 DEF Range
    <3>6. \A n \in next' .. Len(work.candidates) : n \in next .. Len(work.candidates)
      BY <3>1
    <3>7. Sent' = {} /\ Open' = {}
      <4>1. 1 .. sent' = {}
        BY <2>3
      <4>2. QED
        BY <2>3, <4>1 DEF Sent, Open, Pooled
    <3>8. \A m \in (sent' + 1) .. Len(seg') : at'[seg'[m]] = "idle"
      BY <2>3, <3>4, <3>5
    <3>9. QED
      BY <1>1, <2>1, <2>3, <3>3, <3>6, <3>7, <3>8 DEF SegInv
  <2>4. QED
    BY <1>1, <1>2, <2>2, <2>3, SourceBegins
<1>3. CASE ReserveIdsThrows
  <2>1. Open = {} /\ Open' = {}
    <3>1. sent = 0 /\ 1 .. sent = {}
      BY <1>3 DEF ReserveIdsThrows
    <3>2. Sent = {}
      BY <3>1 DEF Sent
    <3>3. QED
      BY <1>3, <3>2 DEF ReserveIdsThrows, Open, Pooled
  <2>2. QED
    BY <1>1, <1>3, <2>1, SegKept DEF ReserveIdsThrows
<1>4. CASE Submit
  <2>1. phase = "acquire" /\ phase' = "submit" /\ sent < Len(seg)
    BY <1>1, <1>4 DEF Submit, SegInv
  <2>2. QED
    BY <1>1, <1>4, <2>1, EntryBegins DEF Submit
<1>5. CASE SequentialBegins
  <2>1. CASE sent = Len(seg) \/ hadFatal \/ stop
    <3>1. UNCHANGED <<job, at>> /\ phase = "sequential" /\ phase' = "loop"
      BY <1>5, <2>1 DEF SequentialBegins
    <3>2. Open = {} /\ Open' = {}
      BY <3>1 DEF Open, Pooled
    <3>3. QED
      BY <1>1, <3>1, <3>2, SegKept
  <2>2. CASE ~(sent = Len(seg) \/ hadFatal \/ stop)
    <3>1. sent < Len(seg)
      BY <1>1, <2>2 DEF TypeInv
    <3>2. QED
      BY <1>1, <1>5, <2>2, <3>1, EntryBegins DEF SequentialBegins
  <2>3. QED
    BY <2>1, <2>2
<1>6. CASE SequentialEnds
  <2>1. /\ phase = "inline" /\ phase' = "sequential" /\ UNCHANGED <<work, next, seg, sent>>
        /\ at' = [at EXCEPT ![seg[sent]] = "ended"] /\ Open = {seg[sent]} /\ Open' = {}
        /\ at[seg[sent]] # "idle"
    BY <1>1, <1>6 DEF SequentialEnds, Open, Pooled, SegInv
  <2>2. at \in [Books -> {"idle", "running", "writing", "publishing", "leaving", "ended"}]
    BY <1>1 DEF TypeInv
  <2>3. /\ \A b \in Books : at[b] = "idle" => at'[b] = "idle"
        /\ \A b \in Books : at'[b] \in {"idle", "ended"}
    BY <1>1, <2>1, <2>2 DEF SegInv
  <2>4. \A m \in (sent + 1) .. Len(seg) : seg[m] \in Books
    <3>1. \A m \in (sent + 1) .. Len(seg) : m \in 1 .. Len(seg)
      BY <1>1, Beginning
    <3>2. QED
      BY <1>1, <3>1, Beginning
  <2>5. \A n \in next .. Len(work.candidates) : EntriesIn(work.candidates[n]) \subseteq Books
    <3>1. \A n \in next .. Len(work.candidates) : n \in 1 .. Len(work.candidates)
      BY <1>1, Candidates DEF TypeInv
    <3>2. QED
      BY <1>1, <3>1, Candidates
  <2>6. Past' = Past
    BY <2>1 DEF Past
  <2>7. QED
    BY <1>1, <2>1, <2>3, <2>4, <2>5, <2>6 DEF SegInv
<1>7. CASE Admit
  <2>1. Open' = Open /\ sent < Len(seg) /\ UNCHANGED <<job, at>> /\ phase' = "acquire"
    BY <1>7 DEF Admit, Open, Pooled, Sent
  <2>2. QED
    BY <1>1, <2>1, SegKept
<1>8. CASE StopSubmitting \/ ApplyEvent \/ ArchiveThrows
  <2>1. Open' = Open /\ UNCHANGED <<job, at>> /\ phase' \notin {"acquire", "inline"}
    BY <1>8 DEF StopSubmitting, ApplyEvent, ArchiveThrows, Open, Pooled, Sent
  <2>2. QED
    BY <1>1, <2>1, SegKept
<1>9. CASE Collect \/ ArchiveUnwound
  <2>1. /\ UNCHANGED <<job, at>> /\ phase' \in {"loop", "threw"} /\ phase \in Pooled
        /\ \A b \in Range(Begun) : at[b] = "ended"
    BY <1>9 DEF Collect, ArchiveUnwound, WorkersDone, Pooled
  <2>2. Open = Range(Begun) /\ Open' = {}
    BY <1>1, <2>1, Beginning DEF Open, Pooled
  <2>3. Past' = Past
    BY <2>1 DEF Past
  <2>4. QED
    BY <1>1, <2>1, <2>2, <2>3 DEF SegInv
<1>10. CASE Finish \/ Revert \/ Shrink
  <2>1. /\ UNCHANGED <<job, at>> /\ phase \notin {"acquire", "inline"} \union Pooled
        /\ phase' \notin {"acquire", "inline"} \union Pooled
    BY <1>10 DEF Finish, Drain, Judge, Optimize, Revert, Lookup, RemoveBatch, RemoveBatchThrows,
                 FallbackRemove, Cleanup, RolledBack, Shrink, WipeIndex, Reindex, Vacuum,
                 CompactThrows, Pooled
  <2>2. Open = {} /\ Open' = {}
    BY <2>1 DEF Open
  <2>3. QED
    BY <1>1, <2>1, <2>2, SegKept
<1>11. CASE Stop \/ WriterCommits \/ WriterAnswers \/ WriterBreaks \/ UNCHANGED vars
  <2>1. UNCHANGED <<job, at, phase>>
    BY <1>11 DEF Stop, WriterCommits, WriterAnswers, WriterBreaks, vars
  <2>2. Open' = Open
    BY <2>1 DEF Open, Sent
  <2>3. QED
    BY <1>1, <2>1, <2>2, SegKept DEF SegInv
<1>12. ASSUME NEW b \in Books, Imports(b) PROVE SegInv'
  <2>1. /\ UNCHANGED <<phase, work, next, seg, sent>> /\ at[b] \notin {"idle", "ended"}
        /\ \E s \in {"writing", "publishing", "leaving", "ended"} :
              /\ at' = [at EXCEPT ![b] = s]
              /\ s = "ended" <=> at[b] = "leaving"
              /\ s = "leaving" => phase # "inline"
    BY <1>1, <1>12, ImportMoves
  <2>2. Open' = Open /\ Past' = Past
    BY <2>1 DEF Open, Sent, Past
  <2>3. at \in [Books -> {"idle", "running", "writing", "publishing", "leaving", "ended"}]
    BY <1>1 DEF TypeInv
  <2>4. b \in Open /\ (phase = "inline" => b = seg[sent])
    BY <1>1, <2>1 DEF SegInv, Open, Pooled
  <2>5. /\ \A c \in Books : c # b => at'[c] = at[c]
        /\ at'[b] # "idle" /\ (phase = "inline" => at'[b] \in {"running", "writing", "publishing"})
    BY <1>1, <2>1, <2>3, <2>4 DEF SegInv
  <2>6. \A m \in (sent + 1) .. Len(seg) : seg[m] \in Books
    <3>1. \A m \in (sent + 1) .. Len(seg) : m \in 1 .. Len(seg)
      BY <1>1, Beginning
    <3>2. QED
      BY <1>1, <3>1, Beginning
  <2>7. \A n \in next .. Len(work.candidates) : EntriesIn(work.candidates[n]) \subseteq Books
    <3>1. \A n \in next .. Len(work.candidates) : n \in 1 .. Len(work.candidates)
      BY <1>1, Candidates DEF TypeInv
    <3>2. QED
      BY <1>1, <3>1, Candidates
  <2>8. Open \subseteq Books
    <3>1. phase = "inline" => seg[sent] \in Books
      <4>1. phase = "inline" => sent \in 1 .. Len(seg)
        BY <1>1 DEF SegInv, TypeInv
      <4>2. QED
        BY <1>1, <4>1, Beginning
    <3>2. QED
      BY <1>1, <3>1, Beginning DEF Open
  <2>9. /\ \A c \in Open : at'[c] # "idle"
        /\ \A c \in Books : at'[c] \notin {"idle", "ended"} => c \in Open
    BY <1>1, <2>4, <2>5, <2>8 DEF SegInv
  <2>10. /\ \A m \in (sent + 1) .. Len(seg) : at'[seg[m]] = "idle"
         /\ \A n \in next .. Len(work.candidates) :
               \A c \in EntriesIn(work.candidates[n]) : at'[c] = "idle"
    BY <1>1, <2>1, <2>5, <2>6, <2>7 DEF SegInv
  <2>11. phase = "inline" => sent > 0 /\ at'[seg[sent]] \in {"running", "writing", "publishing"}
    BY <1>1, <2>4, <2>5 DEF SegInv
  <2>12. QED
    BY <1>1, <2>1, <2>2, <2>9, <2>10, <2>11 DEF SegInv
<1>13. QED
  BY <1>1, <1>2, <1>3, <1>4, <1>5, <1>6, <1>7, <1>8, <1>9, <1>10, <1>11, <1>12
     DEF Next, JobThread, Begin, Supply, Unwind

-----------------------------------------------------------------------------
(* The books: their rows and files, the list and the index.                *)

\* The books that are spoken of.
SetsInv ==
    /\ rows \subseteq Books /\ files \subseteq Books /\ kept \subseteq Books
    /\ hidden \subseteq Books /\ todo \subseteq Books /\ lost \subseteq Books
    /\ ids \in Seq(Books) /\ index \subseteq Books \union Shelf

\* What the catalog and the disk have of a book, at each place of its importer.
RowOf(b) ==
    /\ at[b] \in {"idle", "running"} =>
          call[b] = "idle" /\ result[b] = "none" /\ b \notin rows \union files \union kept
    /\ at[b] = "writing" =>
          /\ call[b] \in {"waiting"} \union W!Answers
          /\ result[b] = "none" /\ b \notin files \union kept
          /\ b \in rows => call[b] \in {"waiting", "imported"}
          /\ call[b] = "imported" => b \in rows
    /\ at[b] \in {"publishing", "leaving", "ended"} =>
          /\ call[b] # "waiting" /\ result[b] # "none"
          /\ result[b] # "Imported" => b \notin files /\ (b \in rows <=> b \in kept)
          /\ result[b] = "Imported" => b \notin kept /\ call[b] = "imported"
          /\ result[b] = "Imported" /\ phase \notin InRollback \union Returned =>
                b \in rows /\ b \in files

RowInv == \A b \in Books : RowOf(b)

\* The imported books somebody has asked for.
Taken == {b \in Books : result[b] = "Imported"} \ Open

\* They are in the summary, unless the archive they are of was given up.
IdsInv ==
    /\ IsInjective(ids)
    /\ hidden \subseteq Taken /\ Range(ids) \subseteq Taken \ hidden
    /\ phase \notin InRollback \union Returned => Range(ids) = Taken \ hidden

\* What of the books in the summary is in the catalog, from the judgement on.
StillThere ==
    IF phase = "fallback" THEN todo \union lost ELSE IF phase = "cleanup" THEN lost ELSE Range(ids)

Behind == {"lookup", "delete", "optimize", "returned"} \union InRollback

RollInv ==
    /\ phase \in Behind => rows \ (kept \union hidden) = StillThere
    /\ phase = "delete" => lost \subseteq Range(ids) /\ todo = Range(ids) \ lost
    /\ phase = "fallback" => todo \union lost \subseteq Range(ids) /\ todo \intersect lost = {}
    /\ phase = "cleanup" => lost \subseteq Range(ids) /\ todo \subseteq Range(ids) \ lost

\* Which books have files: the rollback takes those of its books that have no row any more.
FilesInv ==
    /\ phase \in InRollback \union Returned =>
          \/ residue
          \/ files \subseteq hidden \union
             (IF phase = "cleanup" THEN lost \union todo ELSE Range(ids))
    /\ KeptBookWhole

\* The search index.
IndexInv ==
    /\ phase \notin {"rebuild", "uncompacted"} => rows \union Shelf \subseteq index
    /\ phase \notin {"cleanup", "compact", "uncompacted"} => index \subseteq rows \union Shelf

-----------------------------------------------------------------------------
\* The books of the segment with some outcome.
LEMMA Outcome ==
    ASSUME TypeInv, NEW S
    PROVE  /\ OfBegun(S) = {b \in Sent : result[b] \in S} /\ OfBegun(S) \subseteq Books
           /\ IsFiniteSet(OfBegun(S)) /\ Cardinality(OfBegun(S)) \in Nat
<1>1. OfBegun(S) = {b \in Sent : result[b] \in S} /\ OfBegun(S) \subseteq Sent
  BY Beginning DEF OfBegun
<1>2. IsFiniteSet(OfBegun(S))
  BY <1>1, Beginning, FS_Subset
<1>3. QED
  BY <1>1, <1>2, Beginning, FS_CardinalityType

\* What Collect lists.
LEMMA Listing ==
    ASSUME TypeInv, SetsInv, ids' = ids \o SetToSeq(OfBegun({"Imported"}))
    PROVE  /\ ids' \in Seq(Books) /\ Range(ids') = Range(ids) \union OfBegun({"Imported"})
           /\ Len(ids') = Len(ids) + Cardinality(OfBegun({"Imported"}))
           /\ IsInjective(ids) /\ Range(ids) \intersect OfBegun({"Imported"}) = {}
              => IsInjective(ids')
<1> DEFINE S == OfBegun({"Imported"})
<1>1. S \subseteq Books /\ IsFiniteSet(S)
  BY Outcome
<1> HIDE DEF S
<1>2. /\ SetToSeq(S) \in Seq(S) /\ Len(SetToSeq(S)) = Cardinality(S)
      /\ IsInjective(SetToSeq(S)) /\ Range(SetToSeq(S)) = S
  BY <1>1, SetAsSequence
<1>3. SetToSeq(S) \in Seq(Books) /\ ids \in Seq(Books)
  BY <1>1, <1>2 DEF SetsInv
<1>4. ids' = ids \o SetToSeq(S)
  BY DEF S
<1> DEFINE t == SetToSeq(S)
<1>5. t \in Seq(Books) /\ ids \in Seq(Books)
  BY <1>3
<1> HIDE DEF t
<1>6. /\ ids \o t \in Seq(Books) /\ Len(ids \o t) = Len(ids) + Len(t)
      /\ Range(ids \o t) = Range(ids) \union Range(t)
      /\ IsInjective(ids) /\ IsInjective(t) /\ Range(ids) \intersect Range(t) = {}
            => IsInjective(ids \o t)
  BY <1>5, Joined
<1>7. ids' = ids \o t /\ Range(t) = S /\ IsInjective(t) /\ Len(t) = Cardinality(S)
  BY <1>2, <1>4 DEF t
<1>8. QED
  BY <1>6, <1>7 DEF S

\* What the rollback leaves in the list.
LEMMA Remaining ==
    ASSUME SetsInv, ids' = SetToSeq(Range(ids) \intersect lost)
    PROVE  /\ ids' \in Seq(Books) /\ Range(ids') = Range(ids) \intersect lost
           /\ IsInjective(ids') /\ Len(ids') \in Nat
<1> DEFINE S == Range(ids) \intersect lost
<1>1. S \subseteq Books /\ IsFiniteSet(S)
  BY BatchAssumption, FS_Subset DEF SetsInv
<1> HIDE DEF S
<1>2. SetToSeq(S) \in Seq(S) /\ IsInjective(SetToSeq(S)) /\ Range(SetToSeq(S)) = S
  BY <1>1, SetAsSequence
<1>3. SetToSeq(S) \in Seq(Books) /\ ids' = SetToSeq(S)
  BY <1>1, <1>2 DEF S
<1>4. Len(ids') \in Nat /\ ids' \in Seq(Books)
  BY <1>3
<1>5. QED
  BY <1>2, <1>3, <1>4 DEF S

\* The books that are spoken of, to begin with.
LEMMA SetsInit == Init => SetsInv
  BY DEF Init, W!Init, SetsInv

\* They are books from step to step.
LEMMA SetsNext == TypeInv /\ SegInv /\ SetsInv /\ [Next]_vars => SetsInv'
<1>1. SUFFICES ASSUME TypeInv, SegInv, SetsInv, [Next]_vars PROVE SetsInv'
  OBVIOUS
<1> USE DEF job, workers, summary, rollback, store, catalog
<1>2. CASE NextSource \/ ReserveIdsThrows \/ SequentialBegins
  BY <1>1, <1>2 DEF NextSource, ReserveIdsThrows, SequentialBegins, SetsInv
<1>3. CASE SequentialEnds
  <2>1. seg[sent] \in Books
    <3>1. sent \in 1 .. Len(seg)
      BY <1>1, <1>3 DEF SequentialEnds, SegInv, TypeInv
    <3>2. QED
      BY <1>1, <3>1, Beginning
  <2>2. ids' = (IF result[seg[sent]] = "Imported" THEN Append(ids, seg[sent]) ELSE ids)
        /\ UNCHANGED <<rows, files, kept, hidden, todo, lost, index>>
    BY <1>3 DEF SequentialEnds
  <2>3. ids' \in Seq(Books)
    BY <1>1, <2>1, <2>2 DEF SetsInv
  <2>4. QED
    BY <1>1, <2>2, <2>3 DEF SetsInv
<1>4. CASE Admit \/ Submit \/ StopSubmitting \/ ApplyEvent
  BY <1>1, <1>4 DEF Admit, Submit, StopSubmitting, ApplyEvent, SetsInv
<1>5. CASE Collect
  <2>1. ids' \in Seq(Books)
    BY <1>1, <1>5, Listing DEF Collect
  <2>2. QED
    BY <1>1, <1>5, <2>1 DEF Collect, SetsInv
<1>6. CASE ArchiveThrows
  BY <1>1, <1>6 DEF ArchiveThrows, SetsInv
<1>7. CASE ArchiveUnwound
  BY <1>1, <1>7, Outcome DEF ArchiveUnwound, SetsInv
<1>8. CASE Finish
  BY <1>1, <1>8 DEF Finish, Drain, Judge, Optimize, SetsInv
<1>9. CASE Lookup
  <2>1. Range(ids) \subseteq Books
    BY <1>1 DEF SetsInv, Range
  <2>2. QED
    BY <1>1, <1>9, <2>1 DEF Lookup, SetsInv
<1>10. CASE RemoveBatch \/ RemoveBatchThrows \/ Cleanup
  BY <1>1, <1>10 DEF RemoveBatch, RowsGone, RemoveBatchThrows, Cleanup, SetsInv
<1>11. CASE FallbackRemove
  <2>1. Range(ids) \subseteq Books
    BY <1>1 DEF SetsInv, Range
  <2>2. QED
    BY <1>1, <1>11, <2>1 DEF FallbackRemove, MarkLost, SetsInv
<1>12. CASE RolledBack
  <2>1. ids' \in Seq(Books)
    BY <1>1, <1>12, Remaining DEF RolledBack
  <2>2. QED
    BY <1>1, <1>12, <2>1 DEF RolledBack, SetsInv
<1>13. CASE Shrink
  BY <1>1, <1>13 DEF Shrink, WipeIndex, Reindex, Indexable, Vacuum, CompactThrows, SetsInv
<1>14. CASE Stop
  BY <1>1, <1>14 DEF Stop, SetsInv
<1>15. CASE WriterCommits
  BY <1>1, <1>15 DEF WriterCommits, W!Commit, SetsInv
<1>16. CASE WriterAnswers
  BY <1>1, <1>16 DEF WriterAnswers, W!Answer, SetsInv
<1>17. CASE WriterBreaks
  BY <1>1, <1>17 DEF WriterBreaks, W!Close, SetsInv
<1>18. ASSUME NEW b \in Books, Imports(b) PROVE SetsInv'
  <2>1. UNCHANGED <<ids, hidden, todo, lost>>
    BY <1>1, <1>18, ImportMoves
  <2>2. rows' \subseteq Books /\ files' \subseteq Books /\ kept' \subseteq Books
        /\ index' \subseteq Books \union Shelf
    BY <1>1, <1>18 DEF Imports, EndsUnwritten, Writes, W!Accept, W!Refuse, WritesDirectly, Stores,
                       StoreFails, W!TakeBack, NotWritten, Publishes, Leaves, SetsInv
  <2>3. QED
    BY <1>1, <2>1, <2>2 DEF SetsInv
<1>19. CASE UNCHANGED vars
  BY <1>1, <1>19 DEF vars, SetsInv
<1>20. QED
  BY <1>1, <1>2, <1>3, <1>4, <1>5, <1>6, <1>7, <1>8, <1>9, <1>10, <1>11, <1>12, <1>13, <1>14,
     <1>15, <1>16, <1>17, <1>18, <1>19 DEF Next, JobThread, Begin, Supply, Unwind, Revert

\* When no importer is at work the catalog and the disk have the imported books.
LEMMA Settled ==
    ASSUME TypeInv, SegInv, SetsInv, RowInv, Open = {}
    PROVE  /\ \A b \in Books : call[b] # "waiting" /\ at[b] \in {"idle", "ended"}
           /\ files \subseteq Taken /\ rows \ kept \subseteq Taken /\ Taken \intersect kept = {}
           /\ phase \notin InRollback \union Returned =>
                 Taken \subseteq rows /\ Taken \subseteq files
<1>1. \A b \in Books : at[b] \in {"idle", "ended"} /\ RowOf(b)
  BY DEF SegInv, RowInv
<1>2. \A b \in Books : call[b] # "waiting"
  BY <1>1 DEF RowOf
<1>3. \A b \in Books : b \in Taken <=> result[b] = "Imported"
  BY DEF Taken
<1>4. \A b \in Books : b \in files => result[b] = "Imported"
  BY <1>1 DEF RowOf
<1>5. \A b \in Books : b \in rows \ kept => result[b] = "Imported"
  BY <1>1 DEF RowOf
<1>6. \A b \in Books : result[b] = "Imported" =>
          /\ b \notin kept
          /\ phase \notin InRollback \union Returned => b \in rows /\ b \in files
  BY <1>1 DEF RowOf
<1>7. QED
  BY <1>1, <1>2, <1>3, <1>4, <1>5, <1>6 DEF SetsInv, Taken

\* Where nothing is done to a book.
LEMMA RowOfKept ==
    ASSUME NEW b, RowOf(b), at'[b] = at[b], call'[b] = call[b], result'[b] = result[b],
           b \in rows' <=> b \in rows, b \in files' <=> b \in files, b \in kept' <=> b \in kept,
           phase' \notin InRollback \union Returned => phase \notin InRollback \union Returned
    PROVE  RowOf(b)'
  BY DEF RowOf

\* The rows to begin with.
LEMMA RowInit == Init => RowInv
<1>1. SUFFICES ASSUME Init, NEW b \in Books PROVE RowOf(b)
  BY DEF RowInv
<1>2. at[b] = "idle" /\ call[b] = "idle" /\ result[b] = "none"
      /\ b \notin rows \union files \union kept
  BY <1>1 DEF Init, W!Init
<1>3. QED
  BY <1>2 DEF RowOf

\* Only the importer of a book, the writer and the rollback touch it.
LEMMA RowNext ==
    ASSUME TypeInv, SegInv, SetsInv, IdsInv, RollInv, RowInv, [Next]_vars
    PROVE  RowInv'
<1> USE DEF job, workers, summary, rollback, store, catalog
<1> USE DEF InRollback, Returned
<1>1. \A b \in Books : RowOf(b)
  BY DEF RowInv
<1>2. CASE UNCHANGED <<at, call, result, rows, files, kept>>
           /\ (phase' \notin InRollback \union Returned => phase \notin InRollback \union Returned)
  <2>1. SUFFICES ASSUME NEW b \in Books PROVE RowOf(b)'
    BY DEF RowInv
  <2>2. QED
    BY <1>1, <1>2, RowOfKept
<1>3. CASE NextSource \/ ReserveIdsThrows
  BY <1>2, <1>3 DEF NextSource, ReserveIdsThrows
<1>4. CASE Admit \/ StopSubmitting \/ ApplyEvent \/ Collect \/ Unwind
  BY <1>2, <1>4 DEF Admit, StopSubmitting, ApplyEvent, Collect, Unwind, ArchiveThrows,
                    ArchiveUnwound
<1>5. CASE Finish \/ Shrink \/ Stop \/ WriterBreaks \/ UNCHANGED vars
  BY <1>2, <1>5 DEF Finish, Drain, Judge, Optimize, Shrink, WipeIndex, Reindex, Vacuum,
                    CompactThrows, Stop, WriterBreaks, W!Close, vars
<1>6. CASE Lookup \/ RemoveBatchThrows \/ RolledBack
  BY <1>2, <1>6 DEF Lookup, RemoveBatchThrows, RolledBack
<1>7. CASE Submit \/ SequentialBegins
  <2>1. CASE SequentialBegins /\ (sent = Len(seg) \/ hadFatal \/ stop)
    <3>1. UNCHANGED <<at, call, result, rows, files, kept>> /\ phase = "sequential"
      BY <2>1 DEF SequentialBegins
    <3>2. QED
      BY <1>2, <3>1
  <2>2. CASE Submit \/ (SequentialBegins /\ ~(sent = Len(seg) \/ hadFatal \/ stop))
    <3>1. /\ sent < Len(seg) /\ sent' = sent + 1 /\ UNCHANGED <<work, next, seg>>
          /\ at' = [at EXCEPT ![seg[sent + 1]] = "running"]
          /\ \/ phase = "acquire" /\ phase' = "submit"
             \/ phase = "sequential" /\ phase' = "inline"
          /\ UNCHANGED <<call, result, rows, files, kept>>
      <4>1. ~(sent = Len(seg)) => sent < Len(seg)
        BY DEF TypeInv
      <4>2. QED
        BY <2>2, <4>1 DEF Submit, SequentialBegins, SegInv
    <3>2. at[seg[sent + 1]] = "idle" /\ seg[sent + 1] \in Books
      BY <3>1, EntryBegins
    <3>3. SUFFICES ASSUME NEW b \in Books PROVE RowOf(b)'
      BY DEF RowInv
    <3>4. CASE b = seg[sent + 1]
      <4>1. at'[b] = "running"
        BY <3>1, <3>4 DEF TypeInv
      <4>2. QED
        BY <1>1, <3>1, <3>2, <3>4, <4>1 DEF RowOf
    <3>5. CASE b # seg[sent + 1]
      <4>1. at'[b] = at[b]
        BY <3>1, <3>5 DEF TypeInv
      <4>2. QED
        BY <1>1, <3>1, <4>1, RowOfKept
    <3>6. QED
      BY <3>4, <3>5
  <2>3. QED
    BY <1>7, <2>1, <2>2
<1>8. CASE SequentialEnds
  <2>1. SUFFICES ASSUME NEW b \in Books PROVE RowOf(b)'
    BY DEF RowInv
  <2>2. /\ at[seg[sent]] = "publishing" /\ at' = [at EXCEPT ![seg[sent]] = "ended"]
        /\ UNCHANGED <<call, result, rows, files, kept>> /\ phase = "inline"
    BY <1>8 DEF SequentialEnds
  <2>3. CASE b = seg[sent]
    <3>1. at'[b] = "ended"
      BY <2>2, <2>3 DEF TypeInv
    <3>2. QED
      BY <1>1, <2>2, <2>3, <3>1 DEF RowOf
  <2>4. CASE b # seg[sent]
    <3>1. at'[b] = at[b]
      BY <2>2, <2>4 DEF TypeInv
    <3>2. QED
      BY <1>1, <2>2, <3>1, RowOfKept
  <2>5. QED
    BY <2>3, <2>4
<1>9. CASE WriterCommits
  <2>1. SUFFICES ASSUME NEW b \in Books PROVE RowOf(b)'
    BY DEF RowInv
  <2>2. PICK S \in SUBSET Books : W!Commit(S)
    BY <1>9 DEF WriterCommits
  <2>3. /\ UNCHANGED <<at, call, result, files, kept, phase>> /\ rows' = rows \union S
        /\ \A r \in S : call[r] = "waiting"
    BY <1>9, <2>2 DEF WriterCommits, W!Commit
  <2>4. CASE b \in S
    <3>1. call[b] = "waiting" /\ b \in rows'
      BY <2>3, <2>4
    <3>2. at[b] = "writing"
      BY <1>1, <3>1 DEF RowOf, TypeInv
    <3>3. QED
      BY <1>1, <2>3, <3>1, <3>2 DEF RowOf
  <2>5. CASE b \notin S
    BY <1>1, <2>3, <2>5, RowOfKept
  <2>6. QED
    BY <2>4, <2>5
<1>10. CASE WriterAnswers
  <2>1. SUFFICES ASSUME NEW b \in Books PROVE RowOf(b)'
    BY DEF RowInv
  <2>2. PICK r \in Books, a \in W!Answers : W!Answer(r, a)
    BY <1>10 DEF WriterAnswers
  <2>3. /\ UNCHANGED <<at, rows, result, files, kept, phase>> /\ call' = [call EXCEPT ![r] = a]
        /\ call[r] = "waiting" /\ (a = "imported" <=> r \in rows)
    BY <1>10, <2>2 DEF WriterAnswers, W!Answer
  <2>4. CASE b = r
    <3>1. at[b] = "writing" /\ call'[b] = a
      BY <1>1, <2>3, <2>4 DEF RowOf, TypeInv
    <3>2. QED
      BY <1>1, <2>3, <2>4, <3>1 DEF RowOf
  <2>5. CASE b # r
    <3>1. call'[b] = call[b]
      BY <2>3, <2>5 DEF TypeInv
    <3>2. QED
      BY <1>1, <2>3, <3>1, RowOfKept
  <2>6. QED
    BY <2>4, <2>5
<1>11. CASE RemoveBatch \/ FallbackRemove \/ Cleanup
  <2>1. SUFFICES ASSUME NEW b \in Books PROVE RowOf(b)'
    BY DEF RowInv
  <2>2. /\ UNCHANGED <<at, call, result, kept>> /\ phase' \in InRollback
        /\ rows \ todo \subseteq rows' /\ rows' \subseteq rows
        /\ files \ todo \subseteq files' /\ files' \subseteq files
        /\ phase \in {"delete", "fallback", "cleanup"}
    BY <1>11 DEF RemoveBatch, RowsGone, FallbackRemove, MarkLost, Cleanup
  <2>3. todo \subseteq Taken
    BY <2>2 DEF IdsInv, RollInv
  <2>4. CASE b \in todo
    <3>1. result[b] = "Imported"
      BY <2>3, <2>4 DEF Taken
    <3>2. b \notin kept /\ call[b] = "imported" /\ at[b] \in {"publishing", "leaving", "ended"}
      BY <1>1, <3>1 DEF RowOf, TypeInv
    <3>3. QED
      BY <2>2, <3>1, <3>2 DEF RowOf
  <2>5. CASE b \notin todo
    BY <1>1, <2>2, <2>5, RowOfKept
  <2>6. QED
    BY <2>4, <2>5
<1>12. ASSUME NEW r \in Books, Imports(r) PROVE RowInv'
  <2>1. SUFFICES ASSUME NEW b \in Books PROVE RowOf(b)'
    BY DEF RowInv
  <2>2. phase' = phase
    BY <1>12, ImportMoves
  <2>3. CASE b # r
    <3>1. /\ at'[b] = at[b] /\ call'[b] = call[b] /\ result'[b] = result[b]
          /\ b \in rows' <=> b \in rows
          /\ b \in files' <=> b \in files
          /\ b \in kept' <=> b \in kept
      BY <1>12, <2>3 DEF Imports, EndsUnwritten, Ends, Writes, W!Accept, W!Refuse, WritesDirectly,
                         Stores, StoreFails, W!TakeBack, NotWritten, Publishes, Leaves, TypeInv
    <3>2. QED
      BY <1>1, <2>2, <3>1, RowOfKept
  <2>4. CASE b = r
    <3>1. CASE EndsUnwritten(b)
      BY <1>1, <2>4, <3>1 DEF RowOf, EndsUnwritten, Ends, TypeInv
    <3>2. CASE Writes(b)
      BY <1>1, <2>4, <3>2 DEF RowOf, Writes, Ends, W!Accept, W!Refuse, TypeInv
    <3>3. CASE WritesDirectly(b)
      BY <1>1, <2>4, <3>3 DEF RowOf, WritesDirectly, TypeInv, W!Answers
    <3>4. CASE Stores(b)
      BY <1>1, <2>4, <3>4 DEF RowOf, Stores, Ends, TypeInv
    <3>5. CASE StoreFails(b)
      BY <1>1, <2>4, <3>5 DEF RowOf, StoreFails, Ends, W!TakeBack, TypeInv
    <3>6. CASE NotWritten(b)
      BY <1>1, <2>4, <3>6 DEF RowOf, NotWritten, Ends, TypeInv
    <3>7. CASE Publishes(b)
      BY <1>1, <2>4, <3>7 DEF RowOf, Publishes, TypeInv
    <3>8. CASE Leaves(b)
      BY <1>1, <2>4, <3>8 DEF RowOf, Leaves, TypeInv
    <3>9. QED
      BY <1>12, <2>4, <3>1, <3>2, <3>3, <3>4, <3>5, <3>6, <3>7, <3>8 DEF Imports
  <2>5. QED
    BY <2>3, <2>4
<1>13. QED
  BY <1>3, <1>4, <1>5, <1>6, <1>7, <1>8, <1>9, <1>10, <1>11, <1>12
     DEF Next, JobThread, Begin, Supply, Revert

\* The index to begin with.
LEMMA IndexInit == Init => IndexInv
  BY DEF Init, W!Init, IndexInv

\* The index.
LEMMA IndexNext ==
    ASSUME TypeInv, SetsInv, IndexInv, [Next]_vars
    PROVE  IndexInv'
<1> USE DEF job, workers, summary, rollback, store, catalog
<1>1. Books \intersect Shelf = {}
  BY BatchAssumption
<1>2. CASE /\ UNCHANGED <<rows, index>>
           /\ phase' \notin {"cleanup", "compact", "uncompacted", "rebuild"}
           /\ phase \notin {"cleanup", "compact", "uncompacted", "rebuild"}
  BY <1>2 DEF IndexInv
<1>3. CASE Begin
  BY <1>2, <1>3 DEF Begin, NextSource, NextArchive, NextFiles, ReserveIdsThrows, SequentialBegins,
                    SequentialEnds
<1>4. CASE Supply \/ Unwind
  BY <1>2, <1>4 DEF Supply, Admit, Submit, StopSubmitting, ApplyEvent, Collect, Unwind,
                    ArchiveThrows, ArchiveUnwound
<1>5. CASE Finish \/ Lookup \/ RemoveBatchThrows
  BY <1>2, <1>5 DEF Finish, Drain, Judge, Optimize, Lookup, RemoveBatchThrows
<1>6. CASE RemoveBatch \/ Cleanup \/ RolledBack
  BY <1>6 DEF RemoveBatch, RowsGone, Cleanup, RolledBack, IndexInv
<1>7. CASE FallbackRemove
  BY <1>1, <1>7 DEF FallbackRemove, MarkLost, SetsInv, IndexInv
<1>8. CASE WipeIndex \/ Reindex \/ Vacuum \/ CompactThrows
  BY <1>8 DEF WipeIndex, Reindex, Indexable, Vacuum, CompactThrows, IndexInv
<1>9. CASE Stop \/ WriterAnswers \/ WriterBreaks \/ UNCHANGED vars
  BY <1>9 DEF Stop, WriterAnswers, W!Answer, WriterBreaks, W!Close, vars, IndexInv
<1>10. CASE WriterCommits
  BY <1>10 DEF WriterCommits, W!Commit, IndexInv
<1>11. ASSUME NEW b \in Books, Imports(b) PROVE IndexInv'
  <2>1. phase' = phase
    BY <1>11, ImportMoves
  <2>2. \/ UNCHANGED <<rows, index>>
        \/ rows' = rows \union {b} /\ index' = index \union {b}
        \/ rows' = rows \ {b} /\ index' = index \ {b}
    BY <1>11 DEF Imports, EndsUnwritten, Writes, W!Accept, W!Refuse, WritesDirectly, Stores,
                 StoreFails, W!TakeBack, NotWritten, Publishes, Leaves
  <2>3. QED
    BY <1>1, <2>1, <2>2 DEF IndexInv
<1>12. QED
  BY <1>3, <1>4, <1>5, <1>6, <1>7, <1>8, <1>9, <1>10, <1>11
     DEF Next, JobThread, Revert, Shrink

\* The list to begin with.
LEMMA IdsInit == Init => IdsInv
<1>1. SUFFICES ASSUME Init PROVE IdsInv
  OBVIOUS
<1>2. ids = <<>> /\ hidden = {} /\ Range(ids) = {} /\ IsInjective(ids)
  BY <1>1 DEF Init, Range, IsInjective
<1>3. \A b \in Books : result[b] = "none"
  BY <1>1 DEF Init
<1>4. QED
  BY <1>2, <1>3 DEF IdsInv, Taken

\* A book is listed, or hidden by its archive, when its importer has been waited for.
LEMMA IdsNext ==
    ASSUME TypeInv, SegInv, SetsInv, RowInv, IdsInv, RollInv, [Next]_vars
    PROVE  IdsInv'
<1> USE DEF job, workers, summary, rollback, store, catalog
<1> USE DEF InRollback, Returned
<1>1. CASE /\ UNCHANGED <<ids, hidden>> /\ Taken' = Taken
           /\ phase' \notin InRollback \union Returned => phase \notin InRollback \union Returned
  BY <1>1 DEF IdsInv
<1>2. CASE /\ UNCHANGED <<ids, hidden, result, seg, sent, phase>>
  <2>1. Taken' = Taken
    BY <1>2 DEF Taken, Open, Sent
  <2>2. QED
    BY <1>1, <1>2, <2>1
<1>3. CASE NextSource
  <2>1. phase = "loop" /\ UNCHANGED <<ids, hidden, result>>
        /\ phase' \in {"submit", "sequential", "drain"}
        /\ (phase' = "submit" => sent' = 0)
    BY <1>3, SourceBegins DEF NextSource
  <2>2. Open = {} /\ Open' = {}
    <3>1. 1 .. 0 = {}
      OBVIOUS
    <3>2. QED
      BY <2>1, <3>1 DEF Open, Pooled, Sent
  <2>3. QED
    BY <1>1, <2>1, <2>2 DEF Taken
<1>4. CASE ReserveIdsThrows
  <2>1. phase = "submit" /\ phase' = "threw" /\ sent = 0 /\ UNCHANGED <<ids, hidden, result>>
    BY <1>4 DEF ReserveIdsThrows
  <2>2. Open = {} /\ Open' = {}
    <3>1. 1 .. 0 = {}
      OBVIOUS
    <3>2. QED
      BY <2>1, <3>1 DEF Open, Pooled, Sent
  <2>3. QED
    BY <1>1, <2>1, <2>2 DEF Taken
<1>5. CASE Submit \/ (SequentialBegins /\ ~(sent = Len(seg) \/ hadFatal \/ stop))
  <2>1. /\ sent < Len(seg) /\ sent' = sent + 1 /\ UNCHANGED <<work, next, seg>>
        /\ at' = [at EXCEPT ![seg[sent + 1]] = "running"]
        /\ \/ phase = "acquire" /\ phase' = "submit"
           \/ phase = "sequential" /\ phase' = "inline"
        /\ UNCHANGED <<result, ids, hidden>>
    <3>1. ~(sent = Len(seg)) => sent < Len(seg)
      BY DEF TypeInv
    <3>2. QED
      BY <1>5, <3>1 DEF Submit, SequentialBegins, SegInv
  <2>2. /\ at[seg[sent + 1]] = "idle" /\ seg[sent + 1] \in Books
        /\ Sent' = Sent \union {seg[sent + 1]}
    BY <2>1, EntryBegins
  <2>3. result[seg[sent + 1]] = "none"
    BY <2>2 DEF RowInv, RowOf
  <2>4. Open' = Open \union {seg[sent + 1]}
    BY <2>1, <2>2 DEF Open, Pooled
  <2>5. Taken' = Taken
    BY <2>1, <2>3, <2>4 DEF Taken
  <2>6. QED
    BY <1>1, <2>1, <2>5
<1>6. CASE SequentialBegins /\ (sent = Len(seg) \/ hadFatal \/ stop)
  <2>1. phase = "sequential" /\ phase' = "loop" /\ UNCHANGED <<ids, hidden, result>>
    BY <1>6 DEF SequentialBegins
  <2>2. Open = {} /\ Open' = {}
    BY <2>1 DEF Open, Pooled
  <2>3. QED
    BY <1>1, <2>1, <2>2 DEF Taken
<1>7. CASE SequentialEnds
  <2>1. /\ phase = "inline" /\ phase' = "sequential" /\ UNCHANGED <<result, hidden>>
        /\ ids' = IF result[seg[sent]] = "Imported" THEN Append(ids, seg[sent]) ELSE ids
    BY <1>7 DEF SequentialEnds
  <2>2. Open = {seg[sent]} /\ Open' = {} /\ seg[sent] \in Books
    <3>1. sent \in 1 .. Len(seg)
      BY <2>1 DEF SegInv, TypeInv
    <3>2. seg[sent] \in Books
      BY <3>1, Beginning
    <3>3. QED
      BY <2>1, <3>2 DEF Open, Pooled
  <2>3. Taken' = Taken \union (IF result[seg[sent]] = "Imported" THEN {seg[sent]} ELSE {})
    BY <2>1, <2>2 DEF Taken
  <2>4. seg[sent] \notin Taken
    BY <2>2 DEF Taken
  <2>5. CASE result[seg[sent]] = "Imported"
    <3>1. Range(ids') = Range(ids) \union {seg[sent]} /\ IsInjective(ids')
      BY <2>1, <2>2, <2>4, <2>5, Appended DEF SetsInv, IdsInv
    <3>2. QED
      BY <2>1, <2>3, <2>4, <2>5, <3>1 DEF IdsInv
  <2>6. CASE result[seg[sent]] # "Imported"
    <3>1. Taken' = Taken /\ ids' = ids
      BY <2>1, <2>3, <2>6
    <3>2. QED
      BY <1>1, <2>1, <3>1
  <2>7. QED
    BY <2>5, <2>6
<1>8. CASE Admit \/ StopSubmitting \/ ApplyEvent \/ ArchiveThrows
  <2>1. Open' = Open /\ UNCHANGED <<ids, hidden, result>> /\ phase \notin InRollback \union Returned
    BY <1>8 DEF Admit, StopSubmitting, ApplyEvent, ArchiveThrows, Open, Pooled, Sent
  <2>2. QED
    BY <1>1, <2>1 DEF Taken
<1>9. CASE Collect
  <2>1. /\ phase = "await" /\ phase' = "loop" /\ UNCHANGED <<hidden, result>>
        /\ ids' = ids \o SetToSeq(OfBegun({"Imported"}))
    BY <1>9 DEF Collect
  <2>2. Open = Sent /\ Open' = {} /\ Sent \subseteq Books
    BY <2>1, Beginning DEF Open, Pooled
  <2>3. OfBegun({"Imported"}) = {b \in Sent : result[b] = "Imported"}
    BY Outcome
  <2>4. Taken' = Taken \union OfBegun({"Imported"}) /\ Taken \intersect OfBegun({"Imported"}) = {}
    BY <2>1, <2>2, <2>3 DEF Taken
  <2>5. Range(ids') = Range(ids) \union OfBegun({"Imported"}) /\ IsInjective(ids')
    BY <2>1, <2>4, Listing DEF IdsInv
  <2>6. QED
    BY <2>1, <2>4, <2>5 DEF IdsInv
<1>10. CASE ArchiveUnwound
  <2>1. /\ phase = "unwind" /\ phase' \in {"loop", "threw"} /\ UNCHANGED <<ids, result>>
        /\ hidden' = hidden \union OfBegun({"Imported"})
    BY <1>10 DEF ArchiveUnwound
  <2>2. Open = Sent /\ Open' = {} /\ Sent \subseteq Books
    BY <2>1, Beginning DEF Open, Pooled
  <2>3. OfBegun({"Imported"}) = {b \in Sent : result[b] = "Imported"}
    BY Outcome
  <2>4. Taken' = Taken \union OfBegun({"Imported"}) /\ Taken \intersect OfBegun({"Imported"}) = {}
    BY <2>1, <2>2, <2>3 DEF Taken
  <2>5. QED
    BY <2>1, <2>4 DEF IdsInv
<1>11. CASE Finish
  <2>1. phase \in {"drain", "judge", "optimize"} /\ UNCHANGED <<ids, hidden, result>>
        /\ phase' \in {"judge", "returned", "lookup", "optimize"}
    BY <1>11 DEF Finish, Drain, Judge, Optimize
  <2>2. Taken' = Taken
    BY <2>1 DEF Taken, Open, Pooled
  <2>3. QED
    BY <1>1, <2>1, <2>2
<1>12. CASE Lookup \/ RemoveBatch \/ RemoveBatchThrows \/ FallbackRemove \/ Cleanup \/ Shrink
  <2>1. /\ phase \in {"lookup", "delete"} \union InRollback /\ UNCHANGED <<ids, hidden, result>>
        /\ phase' \in {"delete", "returned"} \union InRollback
        /\ phase' \notin InRollback \union Returned => phase \notin InRollback \union Returned
    BY <1>12 DEF Lookup, RemoveBatch, RemoveBatchThrows, FallbackRemove, Cleanup, Shrink, WipeIndex,
                 Reindex, Vacuum, CompactThrows
  <2>2. Taken' = Taken
    BY <2>1 DEF Taken, Open, Pooled
  <2>3. QED
    BY <1>1, <2>1, <2>2
<1>13. CASE RolledBack
  <2>1. /\ phase = "cleanup" /\ phase' = "compact" /\ UNCHANGED <<hidden, result>>
        /\ ids' = SetToSeq(Range(ids) \intersect lost)
    BY <1>13 DEF RolledBack
  <2>2. Taken' = Taken
    BY <2>1 DEF Taken, Open, Pooled
  <2>3. Range(ids') \subseteq Range(ids) /\ IsInjective(ids')
    BY <2>1, Remaining
  <2>4. QED
    BY <2>1, <2>2, <2>3 DEF IdsInv
<1>14. CASE Stop \/ WriterCommits \/ WriterAnswers \/ WriterBreaks \/ UNCHANGED vars
  BY <1>2, <1>14 DEF Stop, WriterCommits, WriterAnswers, WriterBreaks, vars
<1>15. ASSUME NEW b \in Books, Imports(b) PROVE IdsInv'
  <2>1. /\ UNCHANGED <<phase, seg, sent, ids, hidden>> /\ at[b] \notin {"idle", "ended"}
        /\ \/ result' = result
           \/ \E o \in Outcomes : result' = [result EXCEPT ![b] = o]
    BY <1>15, ImportMoves
  <2>2. Open' = Open /\ b \in Open
    BY <2>1 DEF Open, Sent, SegInv
  <2>3. \A c \in Books \ {b} : result'[c] = result[c]
    BY <2>1 DEF TypeInv
  <2>4. Taken' = Taken
    BY <2>2, <2>3 DEF Taken
  <2>5. QED
    BY <1>1, <2>1, <2>4
<1>16. QED
  BY <1>3, <1>4, <1>5, <1>6, <1>7, <1>8, <1>9, <1>10, <1>11, <1>12, <1>13, <1>14, <1>15
     DEF Next, JobThread, Begin, Supply, Unwind, Revert

\* The rollback to begin with.
LEMMA RollInit == Init => RollInv
  BY DEF Init, RollInv, Behind, InRollback

\* The rows of the listed books go one after the other, and each that cannot go stays listed.
LEMMA RollNext ==
    ASSUME TypeInv, SegInv, SetsInv, RowInv, IdsInv, RollInv, [Next]_vars
    PROVE  RollInv'
<1> USE DEF job, workers, summary, rollback, store, catalog
<1> USE DEF InRollback, Returned, Behind
<1>1. CASE phase' \notin Behind
  BY <1>1 DEF RollInv
<1>2. CASE UNCHANGED <<rows, kept, hidden, ids, phase, todo, lost>>
  BY <1>2 DEF RollInv, StillThere
<1>3. CASE Begin \/ Supply \/ Unwind \/ Drain
  <2>1. phase' \notin Behind
    BY <1>3 DEF Begin, NextSource, NextArchive, NextFiles, ReserveIdsThrows, SequentialBegins,
                SequentialEnds, Supply, Admit, Submit, StopSubmitting, ApplyEvent, Collect, Unwind,
                ArchiveThrows, ArchiveUnwound, Drain
  <2>2. QED
    BY <1>1, <2>1
<1>4. CASE Judge
  <2>1. /\ phase = "judge" /\ UNCHANGED <<ids, hidden, rows, kept>>
        /\ phase' \in {"returned", "lookup", "optimize"}
    BY <1>4 DEF Judge
  <2>2. Open = {}
    BY <2>1 DEF Open, Pooled
  <2>3. rows \ kept = Taken /\ hidden \subseteq Taken /\ Range(ids) = Taken \ hidden
    BY <2>1, <2>2, Settled DEF IdsInv
  <2>4. rows' \ (kept' \union hidden') = Range(ids')
    BY <2>1, <2>3
  <2>5. QED
    BY <2>1, <2>4 DEF RollInv, StillThere
<1>5. CASE Optimize
  BY <1>5 DEF Optimize, RollInv, StillThere
<1>6. CASE Lookup
  BY <1>6 DEF Lookup, RollInv, StillThere
<1>7. CASE RemoveBatch
  BY <1>7 DEF RemoveBatch, RowsGone, RollInv, StillThere
<1>8. CASE RemoveBatchThrows
  BY <1>8 DEF RemoveBatchThrows, RollInv, StillThere
<1>9. CASE FallbackRemove
  <2>1. PICK b \in todo :
            /\ \/ rows' = rows \ {b} /\ UNCHANGED lost
               \/ lost' = lost \union {b} /\ UNCHANGED rows
            /\ IF todo # {b}
               THEN todo' = todo \ {b} /\ UNCHANGED phase
               ELSE todo' = Range(ids) \ lost' /\ phase' = "cleanup"
    BY <1>9 DEF FallbackRemove, MarkLost
  <2>2. phase = "fallback" /\ UNCHANGED <<ids, kept, hidden>>
    BY <1>9 DEF FallbackRemove
  <2>3. /\ rows \ (kept \union hidden) = todo \union lost
        /\ todo \union lost \subseteq Range(ids) /\ todo \intersect lost = {}
    BY <2>2 DEF RollInv, StillThere
  <2>4. CASE todo # {b}
    BY <2>1, <2>2, <2>3, <2>4 DEF RollInv, StillThere
  <2>5. CASE todo = {b}
    BY <2>1, <2>2, <2>3, <2>5 DEF RollInv, StillThere
  <2>6. QED
    BY <2>4, <2>5
<1>10. CASE Cleanup
  BY <1>10 DEF Cleanup, RollInv, StillThere
<1>11. CASE RolledBack
  <2>1. /\ phase = "cleanup" /\ phase' = "compact" /\ UNCHANGED <<hidden, kept, rows>>
        /\ ids' = SetToSeq(Range(ids) \intersect lost)
    BY <1>11 DEF RolledBack
  <2>2. Range(ids') = Range(ids) \intersect lost
    BY <2>1, Remaining
  <2>3. QED
    BY <2>1, <2>2 DEF RollInv, StillThere
<1>12. CASE Shrink
  BY <1>12 DEF Shrink, WipeIndex, Reindex, Vacuum, CompactThrows, RollInv, StillThere
<1>13. CASE Stop \/ WriterAnswers \/ WriterBreaks \/ UNCHANGED vars
  BY <1>2, <1>13 DEF Stop, WriterAnswers, W!Answer, WriterBreaks, W!Close, vars
<1>14. CASE WriterCommits
  <2>1. SUFFICES ASSUME phase \in Behind PROVE FALSE
    BY <1>1, <1>14 DEF WriterCommits
  <2>2. Open = {}
    BY <2>1 DEF Open, Pooled
  <2>3. PICK S \in (SUBSET Books) \ {{}} : \A b \in S : call[b] = "waiting"
    BY <1>14 DEF WriterCommits, W!Commit
  <2>4. PICK b \in S : TRUE
    BY <2>3
  <2>5. QED
    BY <2>2, <2>3, <2>4, Settled
<1>15. ASSUME NEW b \in Books, Imports(b) PROVE RollInv'
  <2>1. phase' = phase /\ at[b] \notin {"idle", "ended"}
    BY <1>15, ImportMoves
  <2>2. b \in Open
    BY <2>1 DEF SegInv
  <2>3. phase' \notin Behind
    BY <2>1, <2>2 DEF Open, Pooled
  <2>4. QED
    BY <1>1, <2>3
<1>16. QED
  BY <1>3, <1>4, <1>5, <1>6, <1>7, <1>8, <1>9, <1>10, <1>11, <1>12, <1>13, <1>14, <1>15
     DEF Next, JobThread, Finish, Revert

\* The files to begin with.
LEMMA FilesInit == Init => FilesInv
  BY DEF Init, W!Init, FilesInv, KeptBookWhole, InRollback, Returned

\* A file goes only when its row has gone.
LEMMA FilesNext ==
    ASSUME TypeInv, SegInv, SetsInv, RowInv, IdsInv, RollInv, FilesInv, [Next]_vars,
           TypeInv', SetsInv', RowInv'
    PROVE  FilesInv'
<1> USE DEF job, workers, summary, rollback, store, catalog
<1> USE DEF InRollback, Returned
<1>1. CASE phase' \notin InRollback \union Returned
  <2>1. KeptBookWhole'
    <3>1. SUFFICES ASSUME NEW b \in rows', result'[b] = "Imported" PROVE b \in files'
      BY DEF KeptBookWhole
    <3>2. b \in Books /\ RowOf(b)'
      BY DEF SetsInv, RowInv
    <3>3. QED
      BY <1>1, <3>1, <3>2 DEF RowOf, TypeInv
  <2>2. QED
    BY <1>1, <2>1 DEF FilesInv
<1>2. CASE UNCHANGED <<rows, files, hidden, ids, phase, todo, lost, residue, result>>
  BY <1>2 DEF FilesInv, KeptBookWhole
<1>3. CASE Begin \/ Supply \/ Unwind \/ Drain \/ Lookup
  <2>1. phase' \notin InRollback \union Returned
    BY <1>3 DEF Begin, NextSource, NextArchive, NextFiles, ReserveIdsThrows, SequentialBegins,
                SequentialEnds, Supply, Admit, Submit, StopSubmitting, ApplyEvent, Collect, Unwind,
                ArchiveThrows, ArchiveUnwound, Drain, Lookup
  <2>2. QED
    BY <1>1, <2>1
<1>4. CASE Judge \/ Optimize \/ RemoveBatch \/ RemoveBatchThrows
  <2>1. /\ phase \in {"judge", "optimize", "delete"}
        /\ phase' \in {"returned", "lookup", "optimize", "cleanup", "fallback"}
        /\ phase' = "cleanup" => phase = "delete"
        /\ UNCHANGED <<files, ids, hidden, result, lost, todo>> /\ rows' \subseteq rows
    BY <1>4 DEF Judge, Optimize, RemoveBatch, RowsGone, RemoveBatchThrows
  <2>2. Open = {}
    BY <2>1 DEF Open, Pooled
  <2>3. files \subseteq Range(ids) \union hidden
    BY <2>1, <2>2, Settled DEF IdsInv
  <2>4. KeptBookWhole'
    BY <2>1 DEF FilesInv, KeptBookWhole
  <2>5. phase' = "cleanup" => Range(ids) \subseteq lost \union todo
    BY <2>1 DEF RollInv
  <2>6. QED
    BY <2>1, <2>3, <2>4, <2>5 DEF FilesInv
<1>5. CASE FallbackRemove
  <2>1. /\ phase = "fallback" /\ phase' \in {"fallback", "cleanup"}
        /\ UNCHANGED <<files, ids, hidden, result, residue>> /\ rows' \subseteq rows
        /\ phase' = "cleanup" => todo' = Range(ids) \ lost'
    BY <1>5 DEF FallbackRemove, MarkLost
  <2>2. QED
    BY <2>1 DEF FilesInv, KeptBookWhole
<1>6. CASE Cleanup
  <2>1. PICK b \in todo : /\ \/ files' = files \ {b} /\ UNCHANGED residue
                             \/ residue' = TRUE /\ UNCHANGED files
                          /\ todo' = todo \ {b}
    BY <1>6 DEF Cleanup
  <2>2. /\ phase = "cleanup" /\ phase' = "cleanup"
        /\ UNCHANGED <<ids, hidden, result, lost, rows, kept>>
    BY <1>6 DEF Cleanup
  <2>3. Open = {}
    BY <2>2 DEF Open, Pooled
  <2>4. b \in Range(ids) /\ b \notin lost /\ rows \ (kept \union hidden) = lost
    BY <2>1, <2>2 DEF RollInv, StillThere, Behind
  <2>5. b \in Taken /\ b \notin hidden /\ b \notin kept
    BY <2>3, <2>4, Settled DEF IdsInv
  <2>6. b \notin rows
    BY <2>4, <2>5
  <2>7. KeptBookWhole'
    BY <2>1, <2>2, <2>6 DEF FilesInv, KeptBookWhole
  <2>8. residue' \/ files' \subseteq hidden' \union (lost' \union todo')
    BY <2>1, <2>2 DEF FilesInv
  <2>9. QED
    BY <2>2, <2>7, <2>8 DEF FilesInv
<1>7. CASE RolledBack
  <2>1. /\ phase = "cleanup" /\ phase' = "compact" /\ todo = {}
        /\ UNCHANGED <<hidden, rows, files, result, residue>>
        /\ ids' = SetToSeq(Range(ids) \intersect lost)
    BY <1>7 DEF RolledBack
  <2>2. Range(ids') = lost
    BY <2>1, Remaining DEF RollInv
  <2>3. QED
    BY <2>1, <2>2 DEF FilesInv, KeptBookWhole
<1>8. CASE Shrink
  <2>1. /\ phase \in {"compact", "rebuild"} /\ phase' \in {"rebuild", "returned", "uncompacted"}
        /\ UNCHANGED <<hidden, rows, files, result, residue, ids>>
    BY <1>8 DEF Shrink, WipeIndex, Reindex, Vacuum, CompactThrows
  <2>2. QED
    BY <2>1 DEF FilesInv, KeptBookWhole
<1>9. CASE Stop \/ WriterAnswers \/ WriterBreaks \/ UNCHANGED vars
  BY <1>2, <1>9 DEF Stop, WriterAnswers, W!Answer, WriterBreaks, W!Close, vars
<1>10. CASE WriterCommits
  <2>1. SUFFICES ASSUME phase \in InRollback \union Returned PROVE FALSE
    BY <1>1, <1>10 DEF WriterCommits
  <2>2. Open = {}
    BY <2>1 DEF Open, Pooled
  <2>3. PICK S \in (SUBSET Books) \ {{}} : \A b \in S : call[b] = "waiting"
    BY <1>10 DEF WriterCommits, W!Commit
  <2>4. PICK b \in S : TRUE
    BY <2>3
  <2>5. QED
    BY <2>2, <2>3, <2>4, Settled
<1>11. ASSUME NEW b \in Books, Imports(b) PROVE FilesInv'
  <2>1. phase' = phase /\ at[b] \notin {"idle", "ended"}
    BY <1>11, ImportMoves
  <2>2. b \in Open
    BY <2>1 DEF SegInv
  <2>3. phase' \notin InRollback \union Returned
    BY <2>1, <2>2 DEF Open, Pooled
  <2>4. QED
    BY <1>1, <2>3
<1>12. QED
  BY <1>3, <1>4, <1>5, <1>6, <1>7, <1>8, <1>9, <1>10, <1>11
     DEF Next, JobThread, Finish, Revert

-----------------------------------------------------------------------------
\* The books, in the catalog, on the disk and in the index.
BookInv ==
    /\ TypeInv /\ SegInv /\ SetsInv /\ RowInv /\ IdsInv /\ RollInv /\ FilesInv /\ IndexInv

\* The books keep to it to begin with.
LEMMA BookInit == Init => BookInv
  BY TypeInit, SegInit, SetsInit, RowInit, IdsInit, RollInit, FilesInit, IndexInit DEF BookInv

\* They keep to it from step to step.
LEMMA BookNext == BookInv /\ [Next]_vars => BookInv'
<1>1. SUFFICES ASSUME BookInv, [Next]_vars PROVE BookInv'
  OBVIOUS
<1>2. TypeInv /\ SegInv /\ SetsInv /\ RowInv /\ IdsInv /\ RollInv /\ FilesInv /\ IndexInv
  BY <1>1 DEF BookInv
<1>3. TypeInv' /\ SegInv' /\ SetsInv'
  BY <1>1, <1>2, TypeNext, SegNext, SetsNext
<1>4. RowInv' /\ IdsInv' /\ RollInv' /\ IndexInv'
  BY <1>1, <1>2, RowNext, IdsNext, RollNext, IndexNext
<1>5. FilesInv'
  BY <1>1, <1>2, <1>3, <1>4, FilesNext
<1>6. QED
  BY <1>3, <1>4, <1>5 DEF BookInv

\* BookInv is an invariant.
THEOREM BookInvariance == Spec => []BookInv
  BY BookInit, BookNext, PTL DEF Spec

\* A row that says of an imported book that it is in the library always has the file behind
\* it, in every state between two steps of CImportRollbackService too: RemoveBatch and its
\* fallback come before the files, and the books whose row stayed are not in the clean-up.
THEOREM BooksAreWhole == Spec => []KeptBookWhole
<1>1. BookInv => KeptBookWhole
  BY DEF BookInv, FilesInv
<1>2. QED
  BY <1>1, BookInvariance, PTL

\* The search index has every book of the catalog in every state but those of RebuildAll,
\* and no other when Run returns, although RemoveBatch does not touch it.
THEOREM IndexIsCurrent == Spec => []IndexFollowsCatalog
<1>1. BookInv => IndexFollowsCatalog
  BY DEF BookInv, IndexInv, IndexFollowsCatalog
<1>2. QED
  BY <1>1, BookInvariance, PTL

-----------------------------------------------------------------------------
(* The events of the workers.                                              *)

\* The books of a segment in the pool whose event has not been applied, and those of a
\* segment of files whose event has.
Untold ==
    {b \in Sent : at[b] \in {"running", "writing", "publishing"} \/ b \in Range(queue)}

Told == IF FromArchive \/ phase \notin Pooled THEN {} ELSE Sent \ Untold

\* Each importer of the pool sends one event, which is counted as pending until it is applied.
EventInv ==
    /\ queue \in Seq(Books) /\ IsInjective(queue)
    /\ \A b \in Range(queue) : b \in Sent /\ at[b] \in {"leaving", "ended"}
    /\ phase \notin Pooled => queue = <<>> /\ pending = 0
    /\ phase \in Pooled => pending = Cardinality(Untold)
    /\ phase = "unwind" => FromArchive
    /\ phase \in {"sequential", "inline"} => ~FromArchive

-----------------------------------------------------------------------------
\* A book that is submitted has told nothing.
LEMMA SubmitTells ==
    ASSUME BookInv, EventInv, Submit
    PROVE  /\ Untold' = Untold \union {seg[sent + 1]} /\ seg[sent + 1] \in Books \ Untold
           /\ Told' = Told
<1> USE DEF job, summary, rollback, store, catalog
<1>1. TypeInv /\ SegInv
  BY DEF BookInv
<1>2. /\ phase = "acquire" /\ phase' = "submit" /\ sent' = sent + 1 /\ sent < Len(seg)
      /\ UNCHANGED <<work, next, seg, queue>> /\ at' = [at EXCEPT ![seg[sent + 1]] = "running"]
  BY <1>1 DEF Submit, SegInv
<1> DEFINE b == seg[sent + 1]
<1>3. at[b] = "idle" /\ b \in Books /\ Sent' = Sent \union {b} /\ b \notin Sent
  BY <1>1, <1>2, EntryBegins
<1>4. at' = [at EXCEPT ![b] = "running"]
  BY <1>2
<1> HIDE DEF b
<1>5. at'[b] = "running" /\ \A c \in Sent : at'[c] = at[c]
  BY <1>1, <1>3, <1>4, Beginning DEF TypeInv
<1>6. Untold' = Untold \union {b} /\ Untold \subseteq Sent
  BY <1>2, <1>3, <1>5 DEF Untold
<1>7. FromArchive' = FromArchive
  BY <1>2 DEF FromArchive
<1>8. Told' = Told
  BY <1>2, <1>3, <1>6, <1>7 DEF Told, Pooled
<1>9. QED
  BY <1>3, <1>6, <1>8 DEF b

\* An event that is applied has told of its book.
LEMMA EventTells ==
    ASSUME BookInv, EventInv, ApplyEvent
    PROVE  LET b == Head(queue)
           IN  /\ b \in Sent /\ b \in Untold /\ b \notin Told /\ at[b] \in {"leaving", "ended"}
               /\ result[b] \in Outcomes /\ queue' \in Seq(Books) /\ IsInjective(queue')
               /\ Range(queue') = Range(queue) \ {b} /\ Untold' = Untold \ {b}
               /\ Told' = IF FromArchive THEN {} ELSE Told \union {b}
<1> USE DEF job, summary, rollback, store, catalog
<1> DEFINE b == Head(queue)
<1>1. /\ TypeInv /\ SegInv /\ RowInv /\ queue \in Seq(Books) /\ IsInjective(queue)
      /\ Sent \subseteq Books
  BY Beginning DEF BookInv, EventInv
<1>2. /\ phase \in {"submit", "await"} /\ phase' = phase /\ queue # <<>> /\ queue' = Tail(queue)
      /\ UNCHANGED <<work, next, seg, sent, at, result>>
  BY DEF ApplyEvent
<1>3. /\ b \in Range(queue) /\ queue' \in Seq(Books) /\ IsInjective(queue')
      /\ Range(queue') = Range(queue) \ {b}
  BY <1>1, <1>2, Dequeued
<1> HIDE DEF b
<1>4. b \in Sent /\ at[b] \in {"leaving", "ended"} /\ b \in Untold
  BY <1>3 DEF EventInv, Untold
<1>5. Sent' = Sent /\ FromArchive' = FromArchive
  BY <1>2 DEF Sent, FromArchive
<1>6. Untold' = Untold \ {b}
  BY <1>2, <1>3, <1>4, <1>5 DEF Untold
<1>7. b \notin Told /\ Told' = IF FromArchive THEN {} ELSE Told \union {b}
  BY <1>2, <1>4, <1>5, <1>6 DEF Told, Pooled
<1>8. result[b] \in Outcomes
  <2>1. b \in Books /\ RowOf(b)
    BY <1>1, <1>4 DEF RowInv
  <2>2. result[b] # "none"
    BY <1>4, <2>1 DEF RowOf
  <2>3. QED
    BY <1>1, <2>1, <2>2 DEF TypeInv
<1>9. QED
  BY <1>3, <1>4, <1>6, <1>7, <1>8 DEF b

\* What an importer does has not been told before its event is applied.
LEMMA ImportTells ==
    ASSUME BookInv, EventInv, NEW b \in Books, Imports(b)
    PROVE  /\ Untold' = Untold /\ Told' = Told
           /\ \A c \in Told : result'[c] = result[c]
           /\ queue' \in Seq(Books) /\ IsInjective(queue')
           /\ \A c \in Range(queue') : c \in Sent /\ at'[c] \in {"leaving", "ended"}
           /\ phase \notin Pooled => queue' = queue
<1>1. TypeInv /\ SegInv /\ Sent \subseteq Books
  BY Beginning DEF BookInv
<1>2. /\ UNCHANGED <<phase, work, next, seg, sent>> /\ at[b] \notin {"idle", "ended"}
      /\ b \in Open
  BY <1>1, ImportMoves DEF SegInv
<1>3. PICK s \in {"writing", "publishing", "leaving", "ended"} :
                 /\ at' = [at EXCEPT ![b] = s]
                 /\ s = "ended" <=> at[b] = "leaving"
                 /\ s = "leaving" <=> at[b] = "publishing"
                 /\ s = "leaving" => phase # "inline"
                 /\ s = "publishing" => \E o \in Outcomes : result' = [result EXCEPT ![b] = o]
                 /\ s # "publishing" => result' = result
                 /\ s = "leaving" => queue' = Append(queue, b)
                 /\ s # "leaving" => queue' = queue
  BY <1>1, ImportMoves
<1>4. at'[b] = s /\ \A c \in Books \ {b} : at'[c] = at[c] /\ result'[c] = result[c]
  BY <1>1, <1>3 DEF TypeInv
<1>5. Sent' = Sent /\ FromArchive' = FromArchive
  BY <1>2 DEF Sent, FromArchive
<1>6. at[b] \in {"running", "writing", "publishing", "leaving"}
      /\ (s \in {"writing", "publishing"} => at[b] \in {"running", "writing"})
  BY <1>1, <1>2, <1>3 DEF TypeInv
<1>7. CASE s = "leaving"
  <2>1. /\ phase \in Pooled /\ b \in Sent /\ b \notin Range(queue) /\ at[b] = "publishing"
        /\ result' = result
    BY <1>2, <1>3, <1>7 DEF EventInv, Open
  <2>2. /\ queue' \in Seq(Books) /\ IsInjective(queue') /\ Range(queue') = Range(queue) \union {b}
    <3>1. queue \in Seq(Books) /\ IsInjective(queue) /\ queue' = Append(queue, b)
      BY <1>3, <1>7 DEF EventInv
    <3>2. QED
      BY <2>1, <3>1, Appended
  <2>3. Untold' = Untold
    BY <1>1, <1>4, <1>5, <1>7, <2>1, <2>2 DEF Untold
  <2>4. Told' = Told
    BY <1>2, <1>5, <2>3 DEF Told
  <2>5. \A c \in Range(queue') : c \in Sent /\ at'[c] \in {"leaving", "ended"}
    BY <1>1, <1>4, <1>7, <2>1, <2>2 DEF EventInv
  <2>6. QED
    BY <2>1, <2>2, <2>3, <2>4, <2>5
<1>8. CASE s # "leaving"
  <2>1. queue' = queue
    BY <1>3, <1>8
  <2>2. Untold' = Untold
    BY <1>1, <1>3, <1>4, <1>5, <1>6, <1>8, <2>1 DEF Untold
  <2>3. Told' = Told
    BY <1>2, <1>5, <2>2 DEF Told
  <2>4. \A c \in Range(queue') : c \in Sent /\ at'[c] \in {"leaving", "ended"}
    BY <1>1, <1>3, <1>4, <1>6, <1>8, <2>1 DEF EventInv
  <2>5. \A c \in Told : result'[c] = result[c]
    <3>1. CASE s = "ended"
      BY <1>3, <3>1
    <3>2. CASE s # "ended"
      <4>1. b \notin Told
        BY <1>3, <1>6, <1>8, <3>2 DEF Told, Untold
      <4>2. Told \subseteq Books
        BY <1>1 DEF Told
      <4>3. QED
        BY <1>4, <4>1, <4>2
    <3>3. QED
      BY <3>1, <3>2
  <2>6. QED
    BY <2>1, <2>2, <2>3, <2>4, <2>5 DEF EventInv
<1>9. QED
  BY <1>7, <1>8

\* The events to begin with.
LEMMA EventInit == Init => EventInv
<1>1. SUFFICES ASSUME Init PROVE EventInv
  OBVIOUS
<1>2. queue = <<>> /\ pending = 0 /\ phase = "loop"
  BY <1>1 DEF Init
<1>3. queue \in Seq(Books) /\ IsInjective(queue) /\ Range(queue) = {}
  BY <1>2 DEF IsInjective, Range
<1>4. QED
  BY <1>2, <1>3 DEF EventInv, Pooled

\* The events.
LEMMA EventNext ==
    ASSUME BookInv, EventInv, [Next]_vars
    PROVE  EventInv'
<1> USE DEF job, workers, summary, rollback, store, catalog
<1>1. TypeInv /\ SegInv
  BY DEF BookInv
<1>2. CASE UNCHANGED <<work, next, seg, sent, at, queue, pending, phase>>
  BY <1>2 DEF EventInv, Untold, Sent, FromArchive
<1>3. CASE UNCHANGED <<queue, pending, work, next>> /\ phase \notin Pooled /\ phase' \notin Pooled
           /\ (phase' \in {"sequential", "inline"} => phase \in {"sequential", "inline"})
  <2>1. queue = <<>> /\ pending = 0
    BY <1>3 DEF EventInv
  <2>2. Range(queue') = {}
    BY <1>3, <2>1 DEF Range
  <2>3. QED
    BY <1>3, <2>1, <2>2 DEF EventInv, FromArchive, Pooled
<1>4. CASE UNCHANGED <<work, next, seg, sent, at, queue, pending>> /\ phase \in Pooled
           /\ phase' \in Pooled
           /\ (phase' = "unwind" => FromArchive)
  BY <1>4 DEF EventInv, Untold, Sent, FromArchive, Pooled
<1>5. CASE NextSource
  <2>1. phase = "loop" /\ UNCHANGED <<queue, pending, at>>
    BY <1>5 DEF NextSource
  <2>2. queue = <<>> /\ pending = 0 /\ Range(queue) = {}
    BY <2>1 DEF EventInv, Pooled, Range
  <2>3. CASE UNCHANGED job /\ phase' = "drain"
    BY <1>3, <2>1, <2>3 DEF Pooled
  <2>4. CASE /\ sent' = 0 /\ phase' \in {"submit", "sequential"} /\ work' = work
             /\ phase' = "sequential" => work.candidates[next' - 1] \notin Archives
    <3>1. Untold' = {}
      <4>1. 1 .. sent' = {}
        BY <2>4
      <4>2. QED
        BY <4>1 DEF Untold, Sent
    <3>2. Cardinality({}) = 0
      BY FS_EmptySet
    <3>3. phase' = "sequential" => ~FromArchive'
      BY <2>4 DEF FromArchive
    <3>4. QED
      BY <2>1, <2>2, <2>4, <3>1, <3>2, <3>3 DEF EventInv, Pooled
  <2>5. QED
    BY <1>1, <1>5, <2>3, <2>4, SourceBegins
<1>6. CASE ReserveIdsThrows
  <2>1. /\ phase = "submit" /\ sent = 0 /\ phase' = "threw"
        /\ UNCHANGED <<work, next, seg, sent, at, queue, pending>>
    BY <1>6 DEF ReserveIdsThrows
  <2>2. Sent = {}
    <3>1. 1 .. sent = {}
      BY <2>1
    <3>2. QED
      BY <3>1 DEF Sent
  <2>3. Untold = {} /\ Range(queue) = {}
    BY <2>2 DEF Untold, EventInv
  <2>4. queue = <<>>
    <3>1. queue # <<>> => Head(queue) \in Range(queue)
      BY Dequeued DEF EventInv
    <3>2. QED
      BY <2>3, <3>1
  <2>5. pending = 0
    BY <2>1, <2>3, FS_EmptySet DEF EventInv, Pooled
  <2>6. QED
    BY <2>1, <2>3, <2>4, <2>5 DEF EventInv, Pooled
<1>7. CASE SequentialBegins \/ SequentialEnds
  BY <1>3, <1>7 DEF SequentialBegins, SequentialEnds, Pooled
<1>8. CASE Admit \/ StopSubmitting \/ ArchiveThrows
  BY <1>4, <1>8 DEF Admit, StopSubmitting, ArchiveThrows, Pooled
<1>9. CASE Submit
  <2>1. /\ phase' = "submit" /\ phase = "acquire" /\ pending' = pending + 1
        /\ UNCHANGED <<queue, seg, work, next>> /\ at' = [at EXCEPT ![seg[sent + 1]] = "running"]
        /\ sent' = sent + 1 /\ sent < Len(seg)
    BY <1>1, <1>9 DEF Submit, SegInv
  <2>2. Untold' = Untold \union {seg[sent + 1]} /\ seg[sent + 1] \in Books \ Untold
    BY <1>9, SubmitTells
  <2>3. Untold \subseteq Books
    BY <1>1, Beginning DEF Untold
  <2>4. pending' = Cardinality(Untold')
    BY <2>1, <2>2, <2>3, OneMore DEF EventInv, Pooled
  <2>5. /\ at[seg[sent + 1]] = "idle" /\ seg[sent + 1] \in Books
        /\ Sent' = Sent \union {seg[sent + 1]}
    BY <1>1, <2>1, EntryBegins
  <2>6. \A b \in Range(queue') : b \in Sent' /\ at'[b] \in {"leaving", "ended"}
    BY <1>1, <2>1, <2>5, Beginning DEF EventInv, TypeInv
  <2>7. QED
    BY <2>1, <2>4, <2>6 DEF EventInv, Pooled, FromArchive
<1>10. CASE ApplyEvent
  <2>1. /\ phase \in Pooled /\ phase' = phase /\ phase # "unwind" /\ pending' = pending - 1
        /\ UNCHANGED <<seg, sent, at, work, next>>
    BY <1>10 DEF ApplyEvent, Pooled
  <2>2. /\ Head(queue) \in Untold /\ Untold' = Untold \ {Head(queue)}
        /\ queue' \in Seq(Books) /\ IsInjective(queue') /\ Range(queue') \subseteq Range(queue)
    BY <1>10, EventTells
  <2>3. IsFiniteSet(Untold)
    BY <1>1, Beginning, Finite DEF Untold
  <2>4. Cardinality(Untold') = Cardinality(Untold) - 1
    BY <2>2, <2>3, FS_RemoveElement
  <2>5. QED
    BY <2>1, <2>2, <2>4 DEF EventInv, Sent, FromArchive, Pooled
<1>11. CASE Collect
  <2>1. /\ phase = "await" /\ phase' = "loop" /\ pending = 0
        /\ UNCHANGED <<work, next, seg, sent, at, queue, pending>>
    BY <1>11 DEF Collect, WorkersDone
  <2>2. Untold = {}
    <3>1. IsFiniteSet(Untold) /\ Cardinality(Untold) = 0
      BY <1>1, <2>1, Beginning, Finite DEF Untold, EventInv, Pooled
    <3>2. QED
      BY <3>1, FS_EmptySet
  <2>3. queue = <<>>
    <3>1. queue # <<>> => Head(queue) \in Range(queue)
      BY Dequeued DEF EventInv
    <3>2. QED
      BY <2>2, <3>1 DEF EventInv, Untold
  <2>4. Range(queue') = {}
    BY <2>1, <2>3 DEF Range
  <2>5. QED
    BY <2>1, <2>3, <2>4 DEF EventInv, Pooled
<1>12. CASE ArchiveUnwound
  <2>1. phase' \in {"loop", "threw"} /\ queue' = <<>> /\ pending' = 0
    BY <1>12 DEF ArchiveUnwound
  <2>2. queue' \in Seq(Books) /\ IsInjective(queue') /\ Range(queue') = {}
    BY <2>1 DEF IsInjective, Range
  <2>3. QED
    BY <2>1, <2>2 DEF EventInv, Pooled
<1>13. CASE Finish \/ Revert \/ Shrink
  <2>1. /\ UNCHANGED <<queue, pending, work, next>> /\ phase \notin Pooled
        /\ phase' \notin Pooled \union {"sequential", "inline"}
    BY <1>13 DEF Finish, Drain, Judge, Optimize, Revert, Lookup, RemoveBatch, RemoveBatchThrows,
                 FallbackRemove, Cleanup, RolledBack, Shrink, WipeIndex, Reindex, Vacuum,
                 CompactThrows, Pooled
  <2>2. QED
    BY <1>3, <2>1
<1>14. CASE Stop \/ WriterCommits \/ WriterAnswers \/ WriterBreaks \/ UNCHANGED vars
  BY <1>2, <1>14 DEF Stop, WriterCommits, WriterAnswers, WriterBreaks, vars
<1>15. ASSUME NEW b \in Books, Imports(b) PROVE EventInv'
  <2>1. UNCHANGED <<phase, work, next, seg, sent, pending>>
    BY <1>1, <1>15, ImportMoves
  <2>2. /\ Untold' = Untold /\ queue' \in Seq(Books) /\ IsInjective(queue')
        /\ \A c \in Range(queue') : c \in Sent /\ at'[c] \in {"leaving", "ended"}
        /\ phase \notin Pooled => queue' = queue
    BY <1>15, ImportTells
  <2>3. Sent' = Sent /\ FromArchive' = FromArchive
    BY <2>1 DEF Sent, FromArchive
  <2>4. QED
    BY <2>1, <2>2, <2>3 DEF EventInv
<1>16. QED
  BY <1>5, <1>6, <1>7, <1>8, <1>9, <1>10, <1>11, <1>12, <1>13, <1>14, <1>15
     DEF Next, JobThread, Begin, Supply, Unwind

-----------------------------------------------------------------------------
(* The numbers of the summary.                                             *)

\* The imported books that are counted: those in the list, and those told of in events.
Listed == Range(ids) \union {b \in Told : result[b] = "Imported"}

CountInv ==
    /\ tally \in [{"imported", "failed", "skipped"} -> Nat]
    /\ phase \notin InRollback => tally.imported = Cardinality(Listed)
    /\ phase \in InRollback \ {"fallback", "cleanup"} => tally.imported = Len(ids)

Sum == tally.imported + tally.failed + tally.skipped

\* What Count does to the numbers.
LEMMA Counting ==
    ASSUME CountInv, NEW i \in Nat, NEW f \in Nat, NEW s \in Nat, Count(i, f, s)
    PROVE  /\ tally' \in [{"imported", "failed", "skipped"} -> Nat]
           /\ tally'.imported = tally.imported + i /\ Sum' = Sum + i + f + s
<1>1. tally.imported \in Nat /\ tally.failed \in Nat /\ tally.skipped \in Nat
  BY DEF CountInv
<1>2. tally' = [imported |-> tally.imported + i, failed |-> tally.failed + f,
                skipped |-> tally.skipped + s]
  BY DEF Count
<1>3. /\ tally'.imported = tally.imported + i /\ tally'.failed = tally.failed + f
      /\ tally'.skipped = tally.skipped + s
      /\ tally' \in [{"imported", "failed", "skipped"} -> Nat]
  BY <1>1, <1>2
<1>4. QED
  BY <1>1, <1>3 DEF Sum

\* One outcome is one entry.
LEMMA CountingOne ==
    ASSUME CountInv, NEW b, result[b] \in Outcomes, CountOne(b)
    PROVE  /\ tally' \in [{"imported", "failed", "skipped"} -> Nat]
           /\ tally'.imported = tally.imported + (IF result[b] = "Imported" THEN 1 ELSE 0)
           /\ Sum' = Sum + 1
<1> DEFINE i == IF result[b] = "Imported" THEN 1 ELSE 0
           f == IF result[b] = "Failed" THEN 1 ELSE 0
           s == IF result[b] \in Skips \union {"Cancelled"} THEN 1 ELSE 0
<1>1. i \in Nat /\ f \in Nat /\ s \in Nat /\ i + f + s = 1
  BY DEF Outcomes, Skips
<1>2. Count(i, f, s)
  BY DEF CountOne
<1> HIDE DEF i, f, s
<1>3. /\ tally' \in [{"imported", "failed", "skipped"} -> Nat]
      /\ tally'.imported = tally.imported + i /\ Sum' = Sum + i + f + s
  BY <1>1, <1>2, Counting
<1>4. Sum \in Nat
  BY DEF CountInv, Sum
<1>5. Sum' = Sum + 1
  BY <1>1, <1>3, <1>4
<1>6. QED
  BY <1>3, <1>5 DEF i

\* The numbers to begin with.
LEMMA CountInit == Init => CountInv
<1>1. SUFFICES ASSUME Init PROVE CountInv
  OBVIOUS
<1>2. /\ tally = [imported |-> 0, failed |-> 0, skipped |-> 0] /\ phase = "loop" /\ ids = <<>>
  BY <1>1 DEF Init
<1>3. Listed = {}
  BY <1>2 DEF Listed, Told, Pooled, Range
<1>4. QED
  BY <1>2, <1>3, FS_EmptySet DEF CountInv, InRollback

\* ImportedEntries is the number of the listed books.
LEMMA CountNext ==
    ASSUME BookInv, EventInv, CountInv, [Next]_vars, BookInv'
    PROVE  CountInv'
<1> USE DEF job, workers, summary, rollback, store, catalog
<1>1. TypeInv /\ SegInv /\ SetsInv /\ IdsInv /\ RowInv /\ TypeInv' /\ SetsInv' /\ IdsInv'
  BY DEF BookInv
<1>2. CASE /\ UNCHANGED <<tally, ids>> /\ Listed' = Listed
           /\ phase' \in InRollback <=> phase \in InRollback
           /\ phase' \in {"fallback", "cleanup"} <=> phase \in {"fallback", "cleanup"}
  BY <1>2 DEF CountInv
<1>3. CASE UNCHANGED <<tally, ids, result, work, next, seg, sent, at, queue, phase>>
  <2>1. Listed' = Listed
    BY <1>3 DEF Listed, Told, Untold, Sent, FromArchive
  <2>2. QED
    BY <1>2, <1>3, <2>1
<1>4. CASE UNCHANGED <<tally, ids, result>> /\ Told = {} /\ Told' = {}
           /\ phase \notin InRollback /\ phase' \notin InRollback
  <2>1. Listed' = Listed
    BY <1>4 DEF Listed
  <2>2. QED
    BY <1>2, <1>4, <2>1 DEF InRollback
<1>5. phase \notin Pooled => Told = {}
  BY DEF Told
<1>6. phase' \notin Pooled => Told' = {}
  BY DEF Told
<1>7. \A b \in Books : result[b] = "Imported" /\ b \in Sent /\ phase \in Pooled
      => b \notin Range(ids)
  BY <1>1 DEF IdsInv, Taken, Open
<1>8. CASE NextSource
  <2>1. phase = "loop" /\ UNCHANGED <<tally, ids, result>>
        /\ phase' \in {"submit", "sequential", "drain"}
        /\ (phase' = "submit" => sent' = 0)
    BY <1>1, <1>8, SourceBegins DEF NextSource
  <2>2. Told' = {}
    <3>1. 1 .. 0 = {}
      OBVIOUS
    <3>2. QED
      BY <2>1, <3>1 DEF Told, Pooled, Sent
  <2>3. QED
    BY <1>4, <1>5, <2>1, <2>2 DEF Pooled, InRollback
<1>9. CASE ReserveIdsThrows
  <2>1. phase = "submit" /\ sent = 0 /\ phase' = "threw" /\ UNCHANGED <<tally, ids, result>>
    BY <1>9 DEF ReserveIdsThrows
  <2>2. Told = {}
    <3>1. 1 .. 0 = {}
      OBVIOUS
    <3>2. QED
      BY <2>1, <3>1 DEF Told, Pooled, Sent
  <2>3. QED
    BY <1>4, <1>6, <2>1, <2>2 DEF Pooled, InRollback
<1>10. CASE SequentialBegins
  BY <1>4, <1>5, <1>6, <1>10 DEF SequentialBegins, Pooled, InRollback
<1>11. CASE SequentialEnds
  <2>1. /\ phase = "inline" /\ phase' = "sequential" /\ UNCHANGED result
        /\ at[seg[sent]] = "publishing"
        /\ CountOne(seg[sent])
        /\ ids' = IF result[seg[sent]] = "Imported" THEN Append(ids, seg[sent]) ELSE ids
    BY <1>11 DEF SequentialEnds
  <2>2. seg[sent] \in Books
    <3>1. sent \in 1 .. Len(seg)
      BY <1>1, <2>1 DEF SegInv, TypeInv
    <3>2. QED
      BY <1>1, <3>1, Beginning
  <2>3. result[seg[sent]] \in Outcomes
    BY <1>1, <2>1, <2>2 DEF RowInv, RowOf, TypeInv
  <2>4. /\ tally' \in [{"imported", "failed", "skipped"} -> Nat]
        /\ tally'.imported = tally.imported + (IF result[seg[sent]] = "Imported" THEN 1 ELSE 0)
    BY <2>1, <2>3, CountingOne
  <2>5. Listed = Range(ids) /\ Listed' = Range(ids') /\ Range(ids) \subseteq Books
    BY <1>1, <1>5, <1>6, <2>1 DEF Listed, Pooled, SetsInv, Range
  <2>6. tally.imported = Cardinality(Range(ids))
    BY <2>1, <2>5 DEF CountInv, InRollback
  <2>7. CASE result[seg[sent]] = "Imported"
    <3>1. Range(ids') = Range(ids) \union {seg[sent]}
      BY <1>1, <2>1, <2>2, <2>7, Appended DEF SetsInv
    <3>2. seg[sent] \notin Range(ids)
      BY <1>1, <2>1 DEF IdsInv, Taken, Open, Pooled
    <3>3. Cardinality(Range(ids')) = Cardinality(Range(ids)) + 1
      BY <2>2, <2>5, <3>1, <3>2, OneMore
    <3>4. QED
      BY <2>1, <2>4, <2>5, <2>6, <2>7, <3>3 DEF CountInv, InRollback
  <2>8. CASE result[seg[sent]] # "Imported"
    <3>1. tally'.imported = tally.imported /\ ids' = ids
      BY <2>1, <2>4, <2>8 DEF CountInv
    <3>2. QED
      BY <2>1, <2>4, <2>5, <2>6, <3>1 DEF CountInv, InRollback
  <2>9. QED
    BY <2>7, <2>8
<1>12. CASE Admit \/ StopSubmitting \/ ArchiveThrows
  <2>1. /\ phase \in Pooled /\ phase' \in Pooled
        /\ UNCHANGED <<tally, ids, result, work, next, seg, sent, at, queue>>
    BY <1>12 DEF Admit, StopSubmitting, ArchiveThrows, Pooled
  <2>2. Listed' = Listed
    BY <2>1 DEF Listed, Told, Untold, Sent, FromArchive
  <2>3. QED
    BY <1>2, <2>1, <2>2 DEF Pooled, InRollback
<1>13. CASE Submit
  <2>1. UNCHANGED <<tally, ids, result>> /\ phase = "acquire" /\ phase' = "submit"
    BY <1>13 DEF Submit
  <2>2. Listed' = Listed
    BY <1>13, <2>1, SubmitTells DEF Listed
  <2>3. QED
    BY <1>2, <2>1, <2>2 DEF InRollback
<1>14. CASE ApplyEvent
  <2> DEFINE b == Head(queue)
  <2>1. /\ phase \in {"submit", "await"} /\ phase' = phase /\ UNCHANGED <<ids, result>>
        /\ IF FromArchive THEN UNCHANGED tally ELSE CountOne(b)
    BY <1>14 DEF ApplyEvent
  <2>2. /\ b \in Sent /\ b \notin Told /\ result[b] \in Outcomes
        /\ Told' = IF FromArchive THEN {} ELSE Told \union {b}
    BY <1>14, EventTells
  <2> HIDE DEF b
  <2>3. b \in Books /\ Sent \subseteq Books /\ Listed \subseteq Books
    BY <1>1, <2>2, Beginning DEF Listed, SetsInv, Range, Told
  <2>4. CASE FromArchive
    <3>1. Told = {} /\ Told' = {}
      BY <2>2, <2>4 DEF Told
    <3>2. QED
      BY <1>4, <2>1, <2>4, <3>1 DEF InRollback
  <2>5. CASE ~FromArchive
    <3>1. /\ tally' \in [{"imported", "failed", "skipped"} -> Nat]
          /\ tally'.imported = tally.imported + (IF result[b] = "Imported" THEN 1 ELSE 0)
      BY <2>1, <2>2, <2>5, CountingOne
    <3>2. tally.imported = Cardinality(Listed)
      BY <2>1 DEF CountInv, InRollback
    <3>3. CASE result[b] = "Imported"
      <4>1. b \notin Listed
        BY <1>7, <2>1, <2>2, <2>3, <3>3 DEF Listed, Pooled
      <4>2. Listed' = Listed \union {b}
        BY <2>1, <2>2, <2>5, <3>3 DEF Listed
      <4>3. Cardinality(Listed') = Cardinality(Listed) + 1
        BY <2>3, <4>1, <4>2, OneMore
      <4>4. QED
        BY <2>1, <3>1, <3>2, <3>3, <4>3 DEF CountInv, InRollback
    <3>4. CASE result[b] # "Imported"
      <4>1. Listed' = Listed
        BY <2>1, <2>2, <2>5, <3>4 DEF Listed
      <4>2. tally'.imported = tally.imported
        BY <3>1, <3>4 DEF CountInv
      <4>3. QED
        BY <2>1, <3>1, <3>2, <4>1, <4>2 DEF CountInv, InRollback
    <3>5. QED
      BY <3>3, <3>4
  <2>6. QED
    BY <2>4, <2>5
<1>15. CASE Collect
  <2>1. /\ phase = "await" /\ phase' = "loop" /\ UNCHANGED result /\ pending = 0
        /\ ids' = ids \o SetToSeq(OfBegun({"Imported"}))
        /\ IF FromArchive
           THEN Count(Cardinality(OfBegun({"Imported"})), Cardinality(OfBegun({"Failed"})),
                      Cardinality(OfBegun(Skips)))
           ELSE UNCHANGED tally
    BY <1>15 DEF Collect, WorkersDone
  <2>2. Untold = {}
    <3>1. IsFiniteSet(Untold) /\ Cardinality(Untold) = 0
      BY <1>1, <2>1, Beginning, Finite DEF Untold, EventInv, Pooled
    <3>2. QED
      BY <3>1, FS_EmptySet
  <2>3. OfBegun({"Imported"}) = {b \in Sent : result[b] = "Imported"}
        /\ OfBegun({"Imported"}) \subseteq Books
    BY <1>1, Outcome
  <2>4. Range(ids') = Range(ids) \union OfBegun({"Imported"})
    BY <1>1, <2>1, Listing
  <2>5. Listed' = Range(ids') /\ Range(ids) \subseteq Books
    BY <1>1, <1>6, <2>1 DEF Listed, Pooled, SetsInv, Range
  <2>6. Range(ids) \intersect OfBegun({"Imported"}) = {}
    BY <1>7, <2>1, <2>3 DEF Pooled
  <2>7. tally.imported = Cardinality(Listed)
    BY <2>1 DEF CountInv, InRollback
  <2>8. CASE FromArchive
    <3>1. Listed = Range(ids)
      BY <2>8 DEF Listed, Told
    <3>2. /\ Cardinality(OfBegun({"Imported"})) \in Nat /\ Cardinality(OfBegun({"Failed"})) \in Nat
          /\ Cardinality(OfBegun(Skips)) \in Nat
      BY <1>1, Outcome
    <3>3. /\ tally' \in [{"imported", "failed", "skipped"} -> Nat]
          /\ tally'.imported = tally.imported + Cardinality(OfBegun({"Imported"}))
      BY <2>1, <2>8, <3>2, Counting
    <3>4. Cardinality(Range(ids')) = Cardinality(Range(ids)) + Cardinality(OfBegun({"Imported"}))
      BY <2>3, <2>4, <2>5, <2>6, SomeMore
    <3>5. QED
      BY <2>1, <2>5, <2>7, <3>1, <3>3, <3>4 DEF CountInv, InRollback
  <2>9. CASE ~FromArchive
    <3>1. Listed = Range(ids')
      BY <2>1, <2>2, <2>3, <2>4, <2>9 DEF Listed, Told, Pooled
    <3>2. QED
      BY <2>1, <2>5, <2>7, <2>9, <3>1 DEF CountInv, InRollback
  <2>10. QED
    BY <2>8, <2>9
<1>16. CASE ArchiveUnwound
  <2>1. /\ phase = "unwind" /\ phase' \in {"loop", "threw"} /\ UNCHANGED <<ids, result>>
        /\ Count(0, Len(seg), 0) \/ UNCHANGED tally
    BY <1>16 DEF ArchiveUnwound
  <2>2. Told = {} /\ Told' = {}
    BY <1>6, <2>1 DEF Told, EventInv, Pooled
  <2>3. Listed' = Listed
    BY <2>1, <2>2 DEF Listed
  <2>4. tally' \in [{"imported", "failed", "skipped"} -> Nat] /\ tally'.imported = tally.imported
    <3>1. CASE UNCHANGED tally
      BY <3>1 DEF CountInv
    <3>2. CASE Count(0, Len(seg), 0)
      <4>1. 0 \in Nat /\ Len(seg) \in Nat
        BY <1>1, Beginning
      <4>2. tally' \in [{"imported", "failed", "skipped"} -> Nat]
            /\ tally'.imported = tally.imported + 0
        BY <3>2, <4>1, Counting
      <4>3. QED
        BY <4>2 DEF CountInv
    <3>3. QED
      BY <2>1, <3>1, <3>2
  <2>5. QED
    BY <2>1, <2>3, <2>4 DEF CountInv, InRollback
<1>17. CASE Finish \/ Lookup \/ RemoveBatch \/ RemoveBatchThrows
  <2>1. /\ phase \in {"drain", "judge", "optimize", "lookup", "delete"}
           /\ UNCHANGED <<tally, ids, result>>
        /\ phase' \in {"judge", "returned", "lookup", "optimize", "delete", "cleanup", "fallback"}
    BY <1>17 DEF Finish, Drain, Judge, Optimize, Lookup, RemoveBatch, RemoveBatchThrows
  <2>2. Listed' = Listed
    BY <1>5, <1>6, <2>1 DEF Listed, Pooled
  <2>3. QED
    BY <2>1, <2>2 DEF CountInv, InRollback
<1>18. CASE FallbackRemove \/ Cleanup
  <2>1. phase' \in {"fallback", "cleanup"} /\ UNCHANGED tally
    BY <1>18 DEF FallbackRemove, Cleanup
  <2>2. QED
    BY <2>1 DEF CountInv, InRollback
<1>19. CASE RolledBack
  <2>1. phase' = "compact" /\ tally' = [tally EXCEPT !.imported = Len(ids')]
    BY <1>19 DEF RolledBack
  <2>2. Len(ids') \in Nat
    BY <1>1 DEF SetsInv
  <2>3. tally' \in [{"imported", "failed", "skipped"} -> Nat] /\ tally'.imported = Len(ids')
    BY <2>1, <2>2 DEF CountInv
  <2>4. QED
    BY <2>1, <2>3 DEF CountInv, InRollback
<1>20. CASE Shrink
  <2>1. /\ phase \in {"compact", "rebuild"} /\ phase' \in {"rebuild", "returned", "uncompacted"}
        /\ UNCHANGED <<tally, ids>>
    BY <1>20 DEF Shrink, WipeIndex, Reindex, Vacuum, CompactThrows
  <2>2. Len(ids') = Cardinality(Range(ids'))
    BY <1>1, Lengths, <2>1 DEF SetsInv, IdsInv
  <2>3. Listed' = Range(ids')
    BY <1>6, <2>1 DEF Listed, Pooled
  <2>4. QED
    BY <2>1, <2>2, <2>3 DEF CountInv, InRollback
<1>21. CASE Stop \/ WriterCommits \/ WriterAnswers \/ WriterBreaks \/ UNCHANGED vars
  BY <1>3, <1>21 DEF Stop, WriterCommits, WriterAnswers, WriterBreaks, vars
<1>22. ASSUME NEW b \in Books, Imports(b) PROVE CountInv'
  <2>1. UNCHANGED <<phase, tally, ids>>
    BY <1>1, <1>22, ImportMoves
  <2>2. Listed' = Listed
    BY <1>22, <2>1, ImportTells DEF Listed
  <2>3. QED
    BY <1>2, <2>1, <2>2
<1>23. QED
  BY <1>8, <1>9, <1>10, <1>11, <1>12, <1>13, <1>14, <1>15, <1>16, <1>17, <1>18, <1>19, <1>20,
     <1>21, <1>22
     DEF Next, JobThread, Begin, Supply, Unwind, Revert

\* A job that nothing has disturbed; once it is judged, a stop comes too late.
Smooth ==
    /\ phase # "threw" /\ ~cancelled /\ ~hadFatal
    /\ stop => phase \in {"optimize", "returned"}

\* The entries of the current segment that are counted.
CountedOfSeg ==
    IF phase \in Pooled THEN Told
    ELSE IF phase = "sequential" THEN Sent
    ELSE IF phase = "inline" THEN Sent \ {seg[sent]}
    ELSE Range(seg)

Counted == (Past \ Range(seg)) \union CountedOfSeg

\* It has counted every entry of the sources behind it once.
SumInv ==
    /\ Smooth => Sum = Cardinality(Counted)
    /\ Smooth /\ phase \in {"drain", "judge", "optimize", "returned"} =>
          next = Len(work.candidates) + 1
    /\ phase \in {"lookup", "delete"} \union InRollback => cancelled \/ hadFatal

-----------------------------------------------------------------------------
\* The entries behind a job are books.
LEMMA PastBooks ==
    ASSUME TypeInv
    PROVE  Past \subseteq Books
<1>1. Len(work.candidates) \in Nat /\ next \in 1 .. (Len(work.candidates) + 1)
  BY Candidates DEF TypeInv
<1>2. \A n \in 1 .. (next - 1) : n \in 1 .. Len(work.candidates)
  BY <1>1
<1>3. QED
  BY <1>2, Candidates DEF Past

\* What is counted is a set of books.
LEMMA CountedBooks ==
    ASSUME TypeInv, SegInv
    PROVE  /\ Counted \subseteq Books /\ CountedOfSeg \subseteq Range(seg)
           /\ Range(seg) \subseteq Past /\ Told \subseteq Sent
<1>1. Told \subseteq Sent
  BY DEF Told
<1>2. CountedOfSeg \subseteq Range(seg)
  BY <1>1, Beginning DEF CountedOfSeg
<1>3. QED
  BY <1>1, <1>2, PastBooks DEF Counted, SegInv

\* A new segment is behind the job, and none of its entries was before.
LEMMA SegmentBegins ==
    ASSUME TypeInv, SegInv, work' = work,
           next' \in (next + 1) .. (Len(work.candidates) + 1),
           Range(seg') = UNION {EntriesIn(work.candidates[n]) : n \in next .. (next' - 1)}
    PROVE  Past' = Past \union Range(seg') /\ Past \intersect Range(seg') = {}
<1>1. /\ Len(work.candidates) \in Nat /\ next \in 1 .. (Len(work.candidates) + 1)
  BY Candidates DEF TypeInv
<1>2. \A n \in next .. (next' - 1) : n \in next .. Len(work.candidates) /\ n \in 1 .. (next' - 1)
  BY <1>1, Between
<1> DEFINE i == next
           j == next'
<1>3. i \in Nat /\ j \in Nat /\ i < j
  BY <1>1
<1> HIDE DEF i, j
<1>4. /\ \A n \in 1 .. (j - 1) : n \in 1 .. (i - 1) \/ n \in i .. (j - 1)
      /\ \A n \in 1 .. (i - 1) : n \in 1 .. (j - 1)
  BY <1>3
<1>5. Past' = UNION {EntriesIn(work.candidates[n]) : n \in 1 .. (j - 1)}
  BY DEF Past, j
<1>6. Past = UNION {EntriesIn(work.candidates[n]) : n \in 1 .. (i - 1)}
  BY DEF Past, i
<1>7. Range(seg') = UNION {EntriesIn(work.candidates[n]) : n \in i .. (j - 1)}
  BY DEF i, j
<1>8. \A n \in i .. (j - 1) : n \in next .. Len(work.candidates) /\ n \in 1 .. (j - 1)
  BY <1>2 DEF i, j
<1>9. ASSUME NEW b \in Past' PROVE b \in Past \union Range(seg')
  <2>1. PICK n \in 1 .. (j - 1) : b \in EntriesIn(work.candidates[n])
    BY <1>5, <1>9
  <2>2. QED
    BY <1>4, <1>6, <1>7, <2>1
<1>10. ASSUME NEW b \in Past \union Range(seg') PROVE b \in Past'
  <2>1. PICK n \in 1 .. (j - 1) : b \in EntriesIn(work.candidates[n])
    BY <1>4, <1>6, <1>7, <1>8, <1>10
  <2>2. QED
    BY <1>5, <2>1
<1>11. ASSUME NEW b \in Past, b \in Range(seg') PROVE FALSE
  <2>1. b \in UNION {EntriesIn(work.candidates[n]) : n \in i .. (j - 1)}
    BY <1>7, <1>11
  <2>2. PICK n \in i .. (j - 1) : b \in EntriesIn(work.candidates[n])
    BY <2>1
  <2>3. QED
    BY <1>8, <1>11, <2>2, Ahead
<1>12. QED
  BY <1>9, <1>10, <1>11

\* When nothing is counted.
LEMMA SumKept ==
    ASSUME SumInv, UNCHANGED tally, Counted' = Counted, Smooth' => Smooth,
           Smooth' /\ phase' \in {"drain", "judge", "optimize", "returned"} =>
               next' = Len(work'.candidates) + 1,
           phase' \in {"lookup", "delete"} \union InRollback => cancelled' \/ hadFatal'
    PROVE  SumInv'
  BY DEF SumInv, Sum

\* The sum to begin with.
LEMMA SumInit == Init => SumInv
<1>1. SUFFICES ASSUME Init PROVE SumInv
  OBVIOUS
<1>2. /\ tally = [imported |-> 0, failed |-> 0, skipped |-> 0] /\ phase = "loop" /\ next = 1
      /\ seg = <<>>
  BY <1>1 DEF Init
<1>3. 1 .. (next - 1) = {} /\ Range(seg) = {}
  BY <1>2 DEF Range
<1>4. Counted = {}
  BY <1>2, <1>3 DEF Counted, CountedOfSeg, Past, Pooled
<1>5. Sum = 0
  BY <1>2 DEF Sum
<1>6. QED
  BY <1>2, <1>4, <1>5, FS_EmptySet DEF SumInv, InRollback

\* An undisturbed job counts an entry when it has its outcome, and none twice.
LEMMA SumNext ==
    ASSUME BookInv, EventInv, CountInv, SumInv, [Next]_vars, BookInv'
    PROVE  SumInv'
<1> USE DEF job, workers, summary, rollback, store, catalog
<1>1. TypeInv /\ SegInv /\ SetsInv /\ IdsInv /\ RowInv /\ TypeInv' /\ SegInv'
  BY DEF BookInv
<1>2. /\ Counted \subseteq Books /\ CountedOfSeg \subseteq Range(seg) /\ Range(seg) \subseteq Past
      /\ Told \subseteq Sent /\ Sent \subseteq Range(seg) /\ Range(seg) \subseteq Books
      /\ Past \subseteq Books
      /\ (sent = Len(seg) => Sent = Range(seg))
  BY <1>1, CountedBooks, PastBooks, Beginning
<1>3. phase \notin Pooled => Told = {}
  BY DEF Told
<1>4. CASE /\ UNCHANGED <<tally, work, next, seg, sent, at, queue, phase, stop, result>>
           /\ (cancelled => cancelled') /\ (hadFatal => hadFatal')
  <2>1. Counted' = Counted
    BY <1>4 DEF Counted, CountedOfSeg, Past, Told, Untold, Sent, FromArchive
  <2>2. Smooth' => Smooth
    BY <1>4 DEF Smooth
  <2>3. QED
    BY <1>4, <2>1, <2>2, SumKept DEF SumInv
<1>5. CASE NextSource
  <2>1. phase = "loop" /\ UNCHANGED <<tally, at, result, cancelled, hadFatal, stop>>
    BY <1>5 DEF NextSource
  <2>2. CountedOfSeg = Range(seg) /\ Counted = Past
    BY <1>2, <2>1 DEF Counted, CountedOfSeg, Pooled
  <2>3. CASE ~More /\ phase' = "drain" /\ UNCHANGED job
    <3>1. Counted' = Counted
      BY <2>1, <2>3 DEF Counted, CountedOfSeg, Past, Pooled
    <3>2. Smooth' => Smooth /\ next = Len(work.candidates) + 1
      <4>1. Len(work.candidates) \in Nat /\ next \in 1 .. (Len(work.candidates) + 1)
        BY <1>1, Candidates DEF TypeInv
      <4>2. Smooth' => ~stop /\ ~hadFatal /\ ~cancelled
        BY <2>1, <2>3 DEF Smooth
      <4>3. Smooth' => ~(next <= Len(work.candidates))
        BY <2>3, <4>2 DEF More
      <4>4. QED
        BY <2>1, <4>1, <4>2, <4>3 DEF Smooth
    <3>3. QED
      BY <2>1, <2>3, <3>1, <3>2, SumKept DEF InRollback
  <2>4. CASE /\ More /\ seg' \in Seq(Books) /\ IsInjective(seg') /\ Len(seg') \in Nat
             /\ next' \in (next + 1) .. (Len(work.candidates) + 1)
             /\ sent' = 0 /\ work' = work
             /\ phase' \in {"submit", "sequential"}
             /\ Range(seg') = UNION {EntriesIn(work.candidates[n]) : n \in next .. (next' - 1)}
    <3>1. Past' = Past \union Range(seg') /\ Past \intersect Range(seg') = {}
      BY <1>1, <2>4, SegmentBegins
    <3>2. CountedOfSeg' = {}
      <4>1. 1 .. sent' = {}
        BY <2>4
      <4>2. Sent' = {}
        BY <4>1 DEF Sent
      <4>3. QED
        BY <2>4, <4>2 DEF CountedOfSeg, Told, Pooled
    <3>3. Counted' = Counted
      BY <2>2, <3>1, <3>2 DEF Counted
    <3>4. Smooth' => Smooth
      BY <2>1, <2>4 DEF Smooth
    <3>5. QED
      BY <2>1, <2>4, <3>3, <3>4, SumKept DEF InRollback
  <2>5. QED
    BY <1>1, <1>5, <2>3, <2>4, SourceBegins
<1>6. CASE ReserveIdsThrows
  <2>1. phase' = "threw"
    BY <1>6 DEF ReserveIdsThrows
  <2>2. QED
    BY <2>1 DEF SumInv, Smooth, InRollback
<1>7. CASE SequentialBegins
  <2>1. phase = "sequential" /\ phase' \in {"loop", "inline"}
        /\ UNCHANGED <<tally, work, next, seg, cancelled, hadFatal, stop>>
    BY <1>7 DEF SequentialBegins
  <2>2. Smooth' => Smooth /\ ~stop /\ ~hadFatal
    BY <2>1 DEF Smooth
  <2>3. ASSUME Smooth' PROVE Counted' = Counted
    <3>1. CASE sent = Len(seg)
      <4>1. phase' = "loop"
        BY <1>7, <3>1 DEF SequentialBegins
      <4>2. QED
        BY <1>2, <2>1, <3>1, <4>1 DEF Counted, CountedOfSeg, Past, Pooled
    <3>2. CASE sent # Len(seg)
      <4>1. /\ phase' = "inline" /\ sent' = sent + 1 /\ sent < Len(seg)
            /\ at' = [at EXCEPT ![seg[sent + 1]] = "running"]
        BY <1>1, <1>7, <2>2, <2>3, <3>2 DEF SequentialBegins, TypeInv
      <4>2. Sent' = Sent \union {seg[sent + 1]} /\ seg[sent + 1] \notin Sent
        BY <1>1, <2>1, <4>1, EntryBegins
      <4>3. CountedOfSeg' = CountedOfSeg
        BY <2>1, <4>1, <4>2 DEF CountedOfSeg, Pooled
      <4>4. QED
        BY <2>1, <4>3 DEF Counted, Past
    <3>3. QED
      BY <3>1, <3>2
  <2>4. QED
    BY <2>1, <2>2, <2>3 DEF SumInv, Sum, InRollback
<1>8. CASE SequentialEnds
  <2>1. /\ phase = "inline" /\ phase' = "sequential"
        /\ UNCHANGED <<result, work, next, seg, sent, stop>>
        /\ at[seg[sent]] = "publishing" /\ CountOne(seg[sent])
        /\ (cancelled => cancelled') /\ (hadFatal => hadFatal')
    BY <1>1, <1>8 DEF SequentialEnds, TypeInv
  <2>2. seg[sent] \in Sent /\ seg[sent] \in Books
    <3>1. sent \in 1 .. sent
      BY <1>1, <2>1 DEF SegInv, TypeInv
    <3>2. QED
      BY <1>2, <3>1 DEF Sent
  <2>3. result[seg[sent]] \in Outcomes
    BY <1>1, <2>1, <2>2 DEF RowInv, RowOf, TypeInv
  <2>4. Sum' = Sum + 1
    BY <2>1, <2>3, CountingOne
  <2>5. Counted' = Counted \union {seg[sent]} /\ seg[sent] \notin Counted
    <3>1. CountedOfSeg = Sent \ {seg[sent]} /\ CountedOfSeg' = Sent
      BY <2>1 DEF CountedOfSeg, Sent, Pooled
    <3>2. QED
      BY <1>2, <2>1, <2>2, <3>1 DEF Counted, Past
  <2>6. Cardinality(Counted') = Cardinality(Counted) + 1
    BY <1>2, <2>2, <2>5, OneMore
  <2>7. Smooth' => Smooth
    BY <2>1 DEF Smooth
  <2>8. QED
    BY <2>1, <2>4, <2>6, <2>7 DEF SumInv, InRollback
<1>9. CASE Admit \/ StopSubmitting \/ ArchiveThrows
  <2>1. /\ phase \in Pooled /\ phase' \in Pooled
        /\ UNCHANGED <<tally, result, work, next, seg, sent, at, queue, cancelled, hadFatal, stop>>
    BY <1>9 DEF Admit, StopSubmitting, ArchiveThrows, Pooled
  <2>2. Counted' = Counted /\ (Smooth' => Smooth)
    BY <2>1 DEF Counted, CountedOfSeg, Past, Told, Untold, Sent, FromArchive, Smooth, Pooled
  <2>3. QED
    BY <2>1, <2>2, SumKept DEF Pooled, InRollback
<1>10. CASE Submit
  <2>1. /\ phase \in Pooled /\ phase' \in Pooled
        /\ UNCHANGED <<tally, work, next, seg, cancelled, hadFatal, stop>>
    BY <1>10 DEF Submit, Pooled
  <2>2. Told' = Told
    BY <1>10, SubmitTells
  <2>3. Counted' = Counted /\ (Smooth' => Smooth)
    BY <2>1, <2>2 DEF Counted, CountedOfSeg, Past, Smooth, Pooled
  <2>4. QED
    BY <2>1, <2>3, SumKept DEF Pooled, InRollback
<1>11. CASE ApplyEvent
  <2> DEFINE b == Head(queue)
  <2>1. /\ phase \in {"submit", "await"} /\ phase' = phase
        /\ UNCHANGED <<work, next, seg, sent, hadFatal, stop>>
        /\ (cancelled => cancelled')
        /\ IF FromArchive THEN UNCHANGED tally ELSE CountOne(b)
    BY <1>1, <1>11 DEF ApplyEvent, TypeInv
  <2>2. /\ b \in Sent /\ b \notin Told /\ result[b] \in Outcomes
        /\ Told' = IF FromArchive THEN {} ELSE Told \union {b}
    BY <1>11, EventTells
  <2> HIDE DEF b
  <2>3. Smooth' => Smooth
    BY <2>1 DEF Smooth
  <2>4. CountedOfSeg = Told /\ CountedOfSeg' = Told'
    BY <2>1 DEF CountedOfSeg, Pooled
  <2>5. CASE FromArchive
    <3>1. Counted' = Counted
      BY <2>1, <2>2, <2>4, <2>5 DEF Counted, Past, Told
    <3>2. QED
      BY <2>1, <2>3, <2>5, <3>1, SumKept DEF InRollback
  <2>6. CASE ~FromArchive
    <3>1. Counted' = Counted \union {b} /\ b \in Books \ Counted
      BY <1>2, <2>1, <2>2, <2>4, <2>6 DEF Counted, Past
    <3>2. Cardinality(Counted') = Cardinality(Counted) + 1
      BY <1>2, <3>1, OneMore
    <3>3. Sum' = Sum + 1
      BY <2>1, <2>2, <2>6, CountingOne
    <3>4. QED
      BY <2>1, <2>3, <3>2, <3>3 DEF SumInv, InRollback
  <2>7. QED
    BY <2>5, <2>6
<1>12. CASE Collect
  <2>1. /\ phase = "await" /\ phase' = "loop" /\ UNCHANGED <<work, next, seg, sent, result, stop>>
        /\ pending = 0 /\ (hadFatal => hadFatal')
        /\ \A c \in Range(Begun) : at[c] = "ended"
        /\ cancelled' = (cancelled \/ sent < Len(seg) \/ OfBegun({"Cancelled"}) # {})
        /\ IF FromArchive
           THEN Count(Cardinality(OfBegun({"Imported"})), Cardinality(OfBegun({"Failed"})),
                      Cardinality(OfBegun(Skips)))
           ELSE UNCHANGED tally
    BY <1>1, <1>12 DEF Collect, WorkersDone, TypeInv
  <2>2. Untold = {}
    <3>1. IsFiniteSet(Untold) /\ Cardinality(Untold) = 0
      BY <1>1, <2>1, Beginning, Finite DEF Untold, EventInv, Pooled
    <3>2. QED
      BY <3>1, FS_EmptySet
  <2>3. CountedOfSeg = Told /\ CountedOfSeg' = Range(seg)
    BY <2>1 DEF CountedOfSeg, Pooled
  <2>4. SUFFICES ASSUME Smooth' PROVE Sum' = Cardinality(Counted')
    BY <2>1 DEF SumInv, InRollback
  <2>5. Smooth /\ ~(sent < Len(seg)) /\ OfBegun({"Cancelled"}) = {}
    BY <2>1, <2>4 DEF Smooth
  <2>6. Sent = Range(seg)
    <3>1. sent = Len(seg)
      BY <1>1, <2>5 DEF TypeInv
    <3>2. QED
      BY <1>2, <3>1
  <2>7. Sum = Cardinality(Counted)
    BY <2>5 DEF SumInv
  <2>8. CASE ~FromArchive
    <3>1. Told = Sent
      BY <2>1, <2>2, <2>8 DEF Told, Pooled
    <3>2. Counted' = Counted /\ Sum' = Sum
      BY <2>1, <2>3, <2>6, <2>8, <3>1 DEF Counted, Past, Sum
    <3>3. QED
      BY <2>7, <3>2
  <2>9. CASE FromArchive
    <3> DEFINE I == OfBegun({"Imported"})
               F == OfBegun({"Failed"})
               K == OfBegun(Skips)
    <3>1. /\ I = {c \in Sent : result[c] = "Imported"} /\ F = {c \in Sent : result[c] = "Failed"}
          /\ K = {c \in Sent : result[c] \in Skips}
          /\ {c \in Sent : result[c] = "Cancelled"} = {}
      BY <1>1, <2>5, Outcome
    <3>2. Count(Cardinality(I), Cardinality(F), Cardinality(K))
      BY <2>1, <2>9
    <3>3. /\ I \subseteq Books /\ F \subseteq Books /\ K \subseteq Books
          /\ Cardinality(I) \in Nat /\ Cardinality(F) \in Nat /\ Cardinality(K) \in Nat
      BY <1>1, Outcome
    <3> HIDE DEF I, F, K
    <3>4. \A c \in Sent : result[c] \in Outcomes
      <4>1. SUFFICES ASSUME NEW c \in Sent PROVE result[c] \in Outcomes
        OBVIOUS
      <4>2. at[c] = "ended" /\ c \in Books
        BY <1>1, <1>2, <2>1, Beginning
      <4>3. result[c] # "none"
        BY <1>1, <4>2 DEF RowInv, RowOf
      <4>4. QED
        BY <1>1, <4>2, <4>3 DEF TypeInv
    <3>5. Sent = (I \union F) \union K
      BY <3>1, <3>4 DEF Outcomes
    <3>6. I \intersect F = {} /\ (I \union F) \intersect K = {}
      BY <3>1 DEF Skips
    <3>7. Cardinality(Sent) = Cardinality(I) + Cardinality(F) + Cardinality(K)
      <4>1. Cardinality(I \union F) = Cardinality(I) + Cardinality(F)
        BY <3>3, <3>6, SomeMore
      <4>2. Cardinality((I \union F) \union K) = Cardinality(I \union F) + Cardinality(K)
        BY <3>3, <3>6, SomeMore
      <4>3. QED
        BY <3>5, <4>1, <4>2
    <3>8. Sum' = Sum + Cardinality(I) + Cardinality(F) + Cardinality(K)
      BY <3>2, <3>3, Counting
    <3>9. Counted' = Counted \union Sent /\ Counted \intersect Sent = {}
      <4>1. Told = {}
        BY <2>9 DEF Told
      <4>2. QED
        BY <2>1, <2>3, <2>6, <4>1 DEF Counted, Past
    <3>10. Cardinality(Counted') = Cardinality(Counted) + Cardinality(Sent)
      BY <1>2, <3>9, SomeMore
    <3>11. Sum \in Nat
      BY DEF CountInv, Sum
    <3>12. QED
      BY <2>7, <3>3, <3>7, <3>8, <3>10, <3>11
  <2>10. QED
    BY <2>8, <2>9
<1>13. CASE ArchiveUnwound
  <2>1. /\ phase = "unwind" /\ UNCHANGED <<work, next, seg, sent, cancelled, stop>>
        /\ \/ phase' = "loop" /\ Count(0, Len(seg), 0) /\ (hadFatal => hadFatal')
           \/ phase' = "threw"
    BY <1>1, <1>13 DEF ArchiveUnwound, TypeInv
  <2>2. CASE phase' = "threw"
    BY <2>2 DEF SumInv, Smooth, InRollback
  <2>3. CASE phase' = "loop" /\ Count(0, Len(seg), 0) /\ (hadFatal => hadFatal')
    <3>1. 0 \in Nat /\ Len(seg) \in Nat /\ Cardinality(Range(seg)) = Len(seg)
      BY <1>1, Beginning
    <3>2. Sum' = Sum + 0 + Len(seg) + 0
      BY <2>3, <3>1, Counting
    <3>3. Told = {}
      BY <2>1 DEF Told, EventInv
    <3>4. Counted' = Counted \union Range(seg) /\ Counted \intersect Range(seg) = {}
      <4>1. CountedOfSeg = {} /\ CountedOfSeg' = Range(seg)
        BY <2>1, <2>3, <3>3 DEF CountedOfSeg, Pooled
      <4>2. QED
        BY <2>1, <4>1 DEF Counted, Past
    <3>5. Cardinality(Counted') = Cardinality(Counted) + Len(seg)
      BY <1>2, <3>1, <3>4, SomeMore
    <3>6. Smooth' => Smooth
      BY <2>1, <2>3 DEF Smooth
    <3>7. Sum \in Nat
      BY DEF CountInv, Sum
    <3>8. Smooth' => Sum' = Cardinality(Counted')
      BY <3>1, <3>2, <3>5, <3>6, <3>7 DEF SumInv
    <3>9. QED
      BY <2>3, <3>8 DEF SumInv, InRollback
  <2>4. QED
    BY <2>1, <2>2, <2>3
<1>14. CASE Drain \/ Judge \/ Optimize
  <2>1. /\ phase \in {"drain", "judge", "optimize"} /\ UNCHANGED <<tally, work, next, seg, stop>>
        /\ (cancelled => cancelled') /\ (hadFatal => hadFatal')
        /\ phase' \in {"judge", "returned", "lookup", "optimize"}
        /\ (phase = "drain" => phase' = "judge")
        /\ (phase = "judge" => cancelled' = (cancelled \/ stop))
        /\ (phase' = "lookup" => cancelled' \/ hadFatal')
    BY <1>1, <1>14 DEF Drain, Judge, Optimize, TypeInv
  <2>2. Counted' = Counted
    BY <2>1 DEF Counted, CountedOfSeg, Past, Pooled
  <2>3. Smooth' => Smooth
    BY <2>1 DEF Smooth
  <2>4. QED
    BY <2>1, <2>2, <2>3, SumKept DEF SumInv, InRollback
<1>15. CASE Revert \/ Shrink
  <2>1. /\ phase \in {"lookup", "delete"} \union InRollback /\ UNCHANGED <<cancelled, hadFatal>>
    BY <1>15 DEF Revert, Lookup, RemoveBatch, RemoveBatchThrows, FallbackRemove, Cleanup,
                 RolledBack, Shrink, WipeIndex, Reindex, Vacuum, CompactThrows, InRollback
  <2>2. cancelled' \/ hadFatal'
    BY <2>1 DEF SumInv
  <2>3. QED
    BY <2>2 DEF SumInv, Smooth
<1>16. CASE Stop
  <2>1. UNCHANGED <<phase, tally, work, next, seg, sent, at, queue, cancelled, hadFatal>>
        /\ ~stop /\ stop'
    BY <1>16 DEF Stop
  <2>2. Counted' = Counted
    BY <2>1 DEF Counted, CountedOfSeg, Past, Told, Untold, Sent, FromArchive
  <2>3. Smooth' => Smooth
    BY <2>1 DEF Smooth
  <2>4. QED
    BY <2>1, <2>2, <2>3, SumKept DEF SumInv
<1>17. CASE WriterCommits \/ WriterAnswers \/ WriterBreaks \/ UNCHANGED vars
  BY <1>4, <1>17 DEF WriterCommits, WriterAnswers, WriterBreaks, vars
<1>18. ASSUME NEW b \in Books, Imports(b) PROVE SumInv'
  <2>1. UNCHANGED <<phase, tally, work, next, seg, sent, cancelled, hadFatal, stop>>
    BY <1>1, <1>18, ImportMoves
  <2>2. Told' = Told
    BY <1>18, ImportTells
  <2>3. Counted' = Counted /\ (Smooth' => Smooth)
    BY <2>1, <2>2 DEF Counted, CountedOfSeg, Past, Sent, Smooth
  <2>4. QED
    BY <2>1, <2>3, SumKept DEF SumInv
<1>19. QED
  BY <1>5, <1>6, <1>7, <1>8, <1>9, <1>10, <1>11, <1>12, <1>13, <1>14, <1>15, <1>16, <1>17, <1>18
     DEF Next, JobThread, Begin, Supply, Unwind, Finish

-----------------------------------------------------------------------------
\* The books and the numbers.
IInv == BookInv /\ EventInv /\ CountInv /\ SumInv

\* IInv is an invariant.
THEOREM ReportInvariance == Spec => []IInv
<1>1. Init => IInv
  BY BookInit, EventInit, CountInit, SumInit DEF IInv
<1>2. IInv /\ [Next]_vars => IInv'
  <2>1. SUFFICES ASSUME IInv, [Next]_vars PROVE IInv'
    OBVIOUS
  <2>2. BookInv /\ EventInv /\ CountInv /\ SumInv
    BY <2>1 DEF IInv
  <2>3. BookInv'
    BY <2>1, <2>2, BookNext
  <2>4. EventInv' /\ CountInv' /\ SumInv'
    BY <2>1, <2>2, <2>3, EventNext, CountNext, SumNext
  <2>5. QED
    BY <2>3, <2>4 DEF IInv
<1>3. QED
  BY <1>1, <1>2, PTL DEF Spec

\* When Run returns its summary is the truth about the catalog and the disk, whatever was
\* cancelled, thrown or broken on the way, but for the two leaks that the code has; and a
\* job that nothing disturbed has counted each entry once.
THEOREM ReportsAreTrue == Spec => []ReportIsTrue
<1>1. IInv => ReportIsTrue
  <2>1. SUFFICES ASSUME IInv, phase \in Returned
                 PROVE  /\ Range(ids) = rows \ (kept \union hidden)
                        /\ tally.imported = Len(ids)
                        /\ Len(ids) = Cardinality(Range(ids))
                        /\ residue \/ files \subseteq Range(ids) \union hidden
                        /\ ~cancelled /\ ~hadFatal =>
                              tally.imported + tally.failed + tally.skipped = EntryCount
    BY DEF ReportIsTrue
  <2>2. /\ TypeInv /\ SegInv /\ SetsInv /\ IdsInv /\ RollInv /\ FilesInv
        /\ EventInv /\ CountInv /\ SumInv
    BY <2>1 DEF IInv, BookInv
  <2>3. Range(ids) = rows \ (kept \union hidden)
    BY <2>1, <2>2 DEF RollInv, Behind, InRollback, Returned, StillThere
  <2>4. Len(ids) = Cardinality(Range(ids))
    BY <2>2, Lengths DEF SetsInv, IdsInv
  <2>5. tally.imported = Len(ids)
    <3>1. CASE phase = "uncompacted"
      BY <2>2, <3>1 DEF CountInv, InRollback
    <3>2. CASE phase = "returned"
      <4>1. Listed = Range(ids)
        BY <3>2 DEF Listed, Told, Pooled
      <4>2. QED
        BY <2>2, <2>4, <3>2, <4>1 DEF CountInv, InRollback
    <3>3. QED
      BY <2>1, <3>1, <3>2 DEF Returned
  <2>6. residue \/ files \subseteq Range(ids) \union hidden
    BY <2>1, <2>2 DEF FilesInv, Returned
  <2>7. ASSUME ~cancelled, ~hadFatal PROVE Sum = EntryCount
    <3>1. phase = "returned"
      BY <2>1, <2>2, <2>7 DEF SumInv, InRollback, Returned
    <3>2. Smooth
      BY <2>7, <3>1 DEF Smooth
    <3>3. Sum = Cardinality(Counted) /\ next = Len(work.candidates) + 1
      BY <2>2, <3>1, <3>2 DEF SumInv
    <3>4. Counted = Past
      BY <2>2, <3>1 DEF Counted, CountedOfSeg, SegInv, Pooled
    <3>5. Past = UNION {EntriesIn(c) : c \in Range(work.candidates)}
      <4>1. /\ Len(work.candidates) \in Nat /\ DOMAIN work.candidates = 1 .. Len(work.candidates)
        BY <2>2, Candidates
      <4>2. next - 1 = Len(work.candidates)
        BY <3>3, <4>1
      <4>3. Past = UNION {EntriesIn(work.candidates[n]) : n \in DOMAIN work.candidates}
        BY <4>1, <4>2 DEF Past
      <4>4. QED
        BY <4>3 DEF Range
    <3>6. QED
      BY <3>3, <3>4, <3>5 DEF EntryCount
  <2>8. QED
    BY <2>3, <2>4, <2>5, <2>6, <2>7 DEF Sum
<1>2. QED
  BY <1>1, ReportInvariance, PTL

-----------------------------------------------------------------------------
(* The permits and the types.                                              *)

\* The importers that hold a permit.
Holders ==
    IF phase = "inline" THEN {}
    ELSE {b \in Books : at[b] \in {"running", "writing", "publishing", "leaving"}}

SlotsInv == slots \in Nat /\ slots + Cardinality(Holders) = Permits

\* The permits to begin with.
LEMMA SlotsInit == Init => SlotsInv
<1>1. SUFFICES ASSUME Init PROVE SlotsInv
  OBVIOUS
<1>2. Holders = {} /\ slots = Permits /\ Permits \in Nat
  BY <1>1, BatchAssumption DEF Init, Holders
<1>3. QED
  BY <1>2, FS_EmptySet DEF SlotsInv

\* Each permit of the semaphore is free or held by one importer.
LEMMA SlotsNext ==
    ASSUME BookInv, SlotsInv, [Next]_vars
    PROVE  SlotsInv'
<1> USE DEF job, workers, summary, rollback, store, catalog
<1>1. TypeInv /\ SegInv
  BY DEF BookInv
<1>2. Holders \subseteq Books /\ IsFiniteSet(Holders) /\ Cardinality(Holders) \in Nat
  BY Finite DEF Holders
<1>3. CASE UNCHANGED <<at, slots>> /\ phase # "inline" /\ phase' # "inline"
  BY <1>3 DEF SlotsInv, Holders
<1>4. CASE NextSource
  BY <1>1, <1>3, <1>4, SourceBegins DEF NextSource
<1>5. CASE ReserveIdsThrows \/ Admit \/ StopSubmitting \/ ApplyEvent \/ Collect \/ Unwind
  BY <1>3, <1>5 DEF ReserveIdsThrows, Admit, StopSubmitting, ApplyEvent, Collect, Unwind,
                    ArchiveThrows, ArchiveUnwound
<1>6. CASE Finish \/ Revert \/ Shrink
  BY <1>3, <1>6 DEF Finish, Drain, Judge, Optimize, Revert, Lookup, RemoveBatch,
                    RemoveBatchThrows, FallbackRemove, Cleanup, RolledBack, Shrink, WipeIndex,
                    Reindex, Vacuum, CompactThrows
<1>7. CASE Stop \/ WriterCommits \/ WriterAnswers \/ WriterBreaks \/ UNCHANGED vars
  BY <1>7 DEF Stop, WriterCommits, WriterAnswers, WriterBreaks, vars, SlotsInv, Holders
<1>8. CASE Submit
  <2>1. /\ phase = "acquire" /\ phase' = "submit" /\ slots > 0 /\ slots' = slots - 1
        /\ sent' = sent + 1 /\ sent < Len(seg) /\ UNCHANGED <<work, next, seg>>
        /\ at' = [at EXCEPT ![seg[sent + 1]] = "running"]
    BY <1>1, <1>8 DEF Submit, SegInv
  <2> DEFINE b == seg[sent + 1]
  <2>2. at[b] = "idle" /\ b \in Books
    BY <1>1, <2>1, EntryBegins
  <2>3. at' = [at EXCEPT ![b] = "running"]
    BY <2>1
  <2> HIDE DEF b
  <2>4. Holders' = Holders \union {b} /\ b \in Books \ Holders
    BY <1>1, <2>1, <2>2, <2>3 DEF Holders, TypeInv
  <2>5. Cardinality(Holders') = Cardinality(Holders) + 1
    BY <1>2, <2>4, OneMore
  <2>6. QED
    BY <1>2, <2>1, <2>5 DEF SlotsInv
<1>9. CASE SequentialBegins
  <2>1. phase = "sequential" /\ phase' \in {"loop", "inline"} /\ slots' = slots
        /\ (phase' = "loop" => at' = at)
    BY <1>9 DEF SequentialBegins
  <2>2. Holders = {} /\ Holders' = {}
    BY <1>1, <2>1 DEF Holders, SegInv, Open, Pooled
  <2>3. QED
    BY <2>1, <2>2 DEF SlotsInv
<1>10. CASE SequentialEnds
  <2>1. /\ phase = "inline" /\ phase' = "sequential" /\ slots' = slots
        /\ at' = [at EXCEPT ![seg[sent]] = "ended"]
    BY <1>10 DEF SequentialEnds
  <2>2. Holders = {} /\ Holders' = {}
    BY <1>1, <2>1 DEF Holders, SegInv, Open, Pooled, TypeInv
  <2>3. QED
    BY <2>1, <2>2 DEF SlotsInv
<1>11. ASSUME NEW b \in Books, Imports(b) PROVE SlotsInv'
  <2>1. CASE Leaves(b)
    <3>1. at[b] = "leaving" /\ at' = [at EXCEPT ![b] = "ended"] /\ slots' = slots + 1 /\ phase' = phase
      BY <2>1 DEF Leaves, Released
    <3>2. phase # "inline"
      BY <1>1, <3>1 DEF SegInv, Open, Pooled
    <3>3. Holders' = Holders \ {b} /\ b \in Holders
      BY <1>1, <3>1, <3>2 DEF Holders, TypeInv
    <3>4. Cardinality(Holders') = Cardinality(Holders) - 1
      BY <1>2, <3>3, FS_RemoveElement
    <3>5. QED
      BY <1>2, <3>1, <3>4 DEF SlotsInv
  <2>2. CASE ~Leaves(b)
    <3>1. slots' = slots /\ at[b] # "leaving" /\ phase' = phase
      BY <1>11, <2>2 DEF Imports, EndsUnwritten, Ends, Writes, WritesDirectly, Stores, StoreFails,
                         NotWritten, Publishes, Unwritten
    <3>2. /\ at[b] \notin {"idle", "ended"}
          /\ \E s \in {"writing", "publishing", "leaving", "ended"} :
                /\ at' = [at EXCEPT ![b] = s]
                /\ s = "ended" <=> at[b] = "leaving"
      BY <1>1, <1>11, ImportMoves
    <3>3. Holders' = Holders
      BY <1>1, <3>1, <3>2 DEF Holders, TypeInv
    <3>4. QED
      BY <3>1, <3>3 DEF SlotsInv
  <2>3. QED
    BY <2>1, <2>2
<1>12. QED
  BY <1>4, <1>5, <1>6, <1>7, <1>8, <1>9, <1>10, <1>11
     DEF Next, JobThread, Begin, Supply

\* The flags of the clean-up and of the writer.
FlagsInv == residue \in BOOLEAN /\ open \in BOOLEAN

\* Only the clean-up sets the one, only the end of the writer the other.
LEMMA FlagsNext == FlagsInv /\ [Next]_vars => FlagsInv'
<1>1. SUFFICES ASSUME FlagsInv, [Next]_vars PROVE FlagsInv'
  OBVIOUS
<1> USE DEF rollback, store, catalog, FlagsInv
<1>2. CASE JobThread
  <2>1. CASE Begin
    BY <1>1, <2>1 DEF Begin, NextSource, ReserveIdsThrows, SequentialBegins, SequentialEnds
  <2>2. CASE Supply \/ Unwind
    BY <1>1, <2>2 DEF Supply, Admit, Submit, StopSubmitting, ApplyEvent, Collect, Unwind,
                      ArchiveThrows, ArchiveUnwound
  <2>3. CASE Finish
    BY <1>1, <2>3 DEF Finish, Drain, Judge, Optimize
  <2>4. CASE Revert
    BY <1>1, <2>4 DEF Revert, Lookup, RemoveBatch, RemoveBatchThrows, FallbackRemove, Cleanup,
                      RolledBack
  <2>5. CASE Shrink
    BY <1>1, <2>5 DEF Shrink, WipeIndex, Reindex, Vacuum, CompactThrows
  <2>6. QED
    BY <1>2, <2>1, <2>2, <2>3, <2>4, <2>5 DEF JobThread
<1>3. ASSUME NEW b \in Books, Imports(b) PROVE FlagsInv'
  BY <1>1, <1>3 DEF Imports, EndsUnwritten, Ends, Writes, WritesDirectly, Stores, StoreFails,
                    NotWritten, Publishes, Leaves, Unwritten, W!Accept, W!Refuse, W!TakeBack
<1>4. CASE Stop \/ WriterCommits \/ WriterAnswers \/ WriterBreaks \/ UNCHANGED vars
  BY <1>1, <1>4 DEF Stop, WriterCommits, WriterAnswers, WriterBreaks, W!Commit, W!Answer,
                    W!Close, vars
<1>5. QED
  BY <1>1, <1>2, <1>3, <1>4 DEF Next

\* The variables have their types for jobs of every size, the semaphore its permits
\* included: inFlight is never below zero, and never above what it began with.
THEOREM BatchTypesCorrect == Spec => []TypeOK
<1>1. Init => SlotsInv /\ FlagsInv
  BY SlotsInit DEF Init, W!Init, FlagsInv
<1>2. IInv /\ SlotsInv /\ FlagsInv /\ [Next]_vars => SlotsInv' /\ FlagsInv'
  BY SlotsNext, FlagsNext DEF IInv
<1>3. IInv /\ SlotsInv /\ FlagsInv => TypeOK
  <2>1. SUFFICES ASSUME IInv, SlotsInv, FlagsInv PROVE TypeOK
    OBVIOUS
  <2>2. TypeInv /\ SetsInv /\ EventInv /\ CountInv /\ FilesInv
    BY <2>1 DEF IInv, BookInv
  <2>3. slots \in 0 .. Permits
    <3>1. Holders \subseteq Books /\ Cardinality(Holders) \in Nat
      BY Finite DEF Holders
    <3>2. QED
      BY <2>1, <3>1, BatchAssumption DEF SlotsInv
  <2>4. pending \in Nat
    <3>1. Untold \subseteq Books
      BY <2>2, Beginning DEF Untold
    <3>2. QED
      BY <2>2, <3>1, Finite DEF EventInv
  <2>5. QED
    BY <2>1, <2>2, <2>3, <2>4 DEF FlagsInv, TypeInv, SetsInv, EventInv, CountInv, TypeOK
<1>4. QED
  BY <1>1, <1>2, <1>3, ReportInvariance, PTL DEF Spec

-----------------------------------------------------------------------------
(* The causes of a rollback.                                               *)

\* Why a job is cancelled or fails.
CauseInv ==
    /\ cancelled => stop
    /\ hadFatal => fatal
    /\ \A b \in Books : result[b] = "Cancelled" => stop
    /\ phase = "await" => sent = Len(seg) \/ stop

\* Nothing has gone wrong yet.
LEMMA CauseInit == Init => CauseInv
  BY DEF Init, CauseInv

\* An importer ends as cancelled when it sees a stop, and entries are left out for one.
LEMMA CauseNext ==
    ASSUME TypeInv, SegInv, EventInv, CauseInv, [Next]_vars
    PROVE  CauseInv'
<1> USE DEF job, workers, summary, rollback, store, catalog
<1>1. CASE UNCHANGED <<cancelled, hadFatal, fatal, result, stop>> /\ phase' # "await"
  BY <1>1 DEF CauseInv
<1>2. CASE UNCHANGED <<cancelled, hadFatal, fatal, result, stop, phase, sent, seg>>
  BY <1>2 DEF CauseInv
<1>3. CASE NextSource
  BY <1>1, <1>3, SourceBegins DEF NextSource
<1>4. CASE ReserveIdsThrows \/ SequentialBegins \/ Admit \/ Submit \/ ArchiveThrows
  BY <1>1, <1>4 DEF ReserveIdsThrows, SequentialBegins, Admit, Submit, ArchiveThrows
<1>5. CASE StopSubmitting
  BY <1>5 DEF StopSubmitting, CauseInv
<1>6. CASE SequentialEnds
  <2>1. seg[sent] \in Books
    BY <1>6 DEF SequentialEnds, SegInv, TypeInv
  <2>2. QED
    BY <1>6, <2>1 DEF SequentialEnds, CauseInv
<1>7. CASE ApplyEvent
  <2>1. Head(queue) \in Books
    BY <1>7, Dequeued DEF ApplyEvent, EventInv
  <2>2. cancelled' => cancelled \/ result[Head(queue)] = "Cancelled"
    BY <1>7 DEF ApplyEvent
  <2>3. UNCHANGED <<hadFatal, fatal, result, stop, phase, sent, seg>>
    BY <1>7 DEF ApplyEvent
  <2>4. QED
    BY <2>1, <2>2, <2>3 DEF CauseInv
<1>8. CASE Collect
  <2>1. OfBegun({"Cancelled"}) # {} => \E b \in Books : result[b] = "Cancelled"
    BY Beginning DEF OfBegun
  <2>2. sent < Len(seg) => ~(sent = Len(seg))
    BY Beginning
  <2>3. QED
    BY <1>8, <2>1, <2>2 DEF Collect, CauseInv
<1>9. CASE ArchiveUnwound \/ Drain \/ Judge
  <2>1. /\ UNCHANGED <<fatal, stop, result>> /\ phase' # "await"
        /\ cancelled' => cancelled \/ stop
        /\ hadFatal' => hadFatal \/ fatal
    <3>1. CASE ArchiveUnwound
      BY <3>1 DEF ArchiveUnwound
    <3>2. CASE Drain
      BY <3>2 DEF Drain
    <3>3. CASE Judge
      BY <3>3 DEF Judge
    <3>4. QED
      BY <1>9, <3>1, <3>2, <3>3
  <2>2. QED
    BY <2>1 DEF CauseInv
<1>10. CASE Optimize \/ Revert \/ Shrink
  BY <1>1, <1>10 DEF Optimize, Revert, Lookup, RemoveBatch, RemoveBatchThrows, FallbackRemove,
                     Cleanup, RolledBack, Shrink, WipeIndex, Reindex, Vacuum, CompactThrows
<1>11. CASE Stop \/ WriterCommits \/ WriterAnswers \/ WriterBreaks \/ UNCHANGED vars
  BY <1>11 DEF Stop, WriterCommits, WriterAnswers, WriterBreaks, vars, CauseInv
<1>12. ASSUME NEW b \in Books, Imports(b) PROVE CauseInv'
  <2>1. /\ UNCHANGED <<phase, seg, sent, cancelled, hadFatal, fatal, stop>>
    BY <1>12, ImportMoves
  <2>2. \/ result' = result
        \/ \E o \in Outcomes : result' = [result EXCEPT ![b] = o] /\ (o = "Cancelled" => stop)
    BY <1>12 DEF Imports, EndsUnwritten, Ends, Writes, WritesDirectly, Stores, StoreFails,
                 NotWritten, Publishes, Leaves, Unwritten, Outcomes, Skips
  <2>3. QED
    BY <2>1, <2>2 DEF CauseInv, TypeInv
<1>13. QED
  BY <1>3, <1>4, <1>5, <1>6, <1>7, <1>8, <1>9, <1>10, <1>11, <1>12
     DEF Next, JobThread, Begin, Supply, Unwind, Finish

\* What a job that was not to be rolled back has imported is there when it returns.
KeepInv ==
    phase \in Returned /\ ~cancelled /\ ~hadFatal =>
        \A b \in Books : result[b] = "Imported" => b \in rows /\ b \in files

\* No step of the job takes it away.
LEMMA KeepNext ==
    ASSUME BookInv, SumInv, KeepInv, [Next]_vars
    PROVE  KeepInv'
<1> USE DEF job, workers, summary, rollback, store, catalog
<1>1. TypeInv /\ SegInv /\ RowInv
  BY DEF BookInv
<1>2. CASE phase' \notin Returned
  BY <1>2 DEF KeepInv
<1>3. CASE phase \notin InRollback \union Returned /\ UNCHANGED <<result, rows, files>>
  <2>1. \A b \in Books : result[b] = "Imported" => b \in rows /\ b \in files
    BY <1>1, <1>3 DEF RowInv, RowOf, TypeInv
  <2>2. QED
    BY <1>3, <2>1 DEF KeepInv
<1>4. CASE Begin \/ Supply \/ Unwind
  BY <1>2, <1>3, <1>4 DEF Begin, NextSource, ReserveIdsThrows, SequentialBegins, SequentialEnds,
       Supply, Admit, Submit, StopSubmitting, ApplyEvent, Collect, Unwind, ArchiveThrows,
       ArchiveUnwound, Returned, InRollback
<1>5. CASE Finish
  BY <1>2, <1>3, <1>5 DEF Finish, Drain, Judge, Optimize, Returned, InRollback
<1>6. CASE Revert \/ Shrink
  <2>1. cancelled \/ hadFatal
    BY <1>6 DEF Revert, Lookup, RemoveBatch, RemoveBatchThrows, FallbackRemove, Cleanup,
                RolledBack, Shrink, WipeIndex, Reindex, Vacuum, CompactThrows, SumInv, InRollback
  <2>2. UNCHANGED <<cancelled, hadFatal>>
    BY <1>6 DEF Revert, Lookup, RemoveBatch, RemoveBatchThrows, FallbackRemove, Cleanup,
                RolledBack, Shrink, WipeIndex, Reindex, Vacuum, CompactThrows
  <2>3. QED
    BY <2>1, <2>2 DEF KeepInv
<1>7. CASE Stop \/ WriterAnswers \/ WriterBreaks \/ UNCHANGED vars
  BY <1>7 DEF Stop, WriterAnswers, W!Answer, WriterBreaks, W!Close, vars, KeepInv
<1>8. CASE WriterCommits
  BY <1>8 DEF WriterCommits, W!Commit, KeepInv
<1>9. ASSUME NEW b \in Books, Imports(b) PROVE KeepInv'
  <2>1. phase \notin Returned
    BY <1>1, <1>9, ImportMoves DEF SegInv, Open, Pooled, Returned
  <2>2. QED
    BY <1>2, <1>9, <2>1, <1>1, ImportMoves
<1>10. QED
  BY <1>4, <1>5, <1>6, <1>7, <1>8, <1>9 DEF Next, JobThread

\* A job takes back what it has imported only when it was stopped or its writer broke:
\* otherwise every book that was imported has its row and its file when Run returns.
OnlyForCause ==
    /\ phase \in {"lookup", "delete"} \union InRollback => stop \/ fatal
    /\ phase \in Returned /\ ~stop /\ ~fatal =>
          \A b \in Books : result[b] = "Imported" => b \in rows /\ b \in files

\* Nothing is rolled back without a cause, for any number of workers, failing entries
\* and archives.
THEOREM RolledBackForCause == Spec => []OnlyForCause
<1>1. Init => CauseInv /\ KeepInv
  BY CauseInit DEF Init, KeepInv, Returned
<1>2. IInv /\ CauseInv /\ KeepInv /\ [Next]_vars => CauseInv' /\ KeepInv'
  BY CauseNext, KeepNext DEF IInv, BookInv
<1>3. IInv /\ CauseInv /\ KeepInv => OnlyForCause
  BY DEF IInv, SumInv, CauseInv, KeepInv, OnlyForCause
<1>4. QED
  BY <1>1, <1>2, <1>3, ReportInvariance, PTL DEF Spec
=============================================================================
