---------------------------- MODULE ZipImportProofs ----------------------------
(***************************************************************************)
(* Theorems about ZipImport, for every set of archives and every number of *)
(* permits.                                                                *)
(***************************************************************************)
EXTENDS ZipImport, FiniteSetTheorems, TLAPS

-----------------------------------------------------------------------------
(* The inductive invariant.                                                *)

\* Where an entry with an extracted file, or with a permit, may be.
Owning == {"running", "cleanup", "tidy", "publish", "leave"}

\* The books of the archive.
TheBooks == {archive[n] : n \in DOMAIN archive} \intersect {e \in Entries : KindOf[e] = "book"}

\* A book no other book shares its path with.
Unique(e) == e \in TheBooks /\ \A d \in TheBooks \ {e} : PathOf[d] # PathOf[e]

\* The walk through the archive: what lies ahead is untouched, and only books are
\* extracted.
WalkInv ==
    /\ archive \in Archives
    /\ index \in 0..Len(archive)
    /\ phase \in {"acquire", "directory", "write"} =>
           index < Len(archive) /\ KindOf[Current] = "book"
    /\ at \in [Entries -> Owning \union {"idle", "ended", "died"}]
    /\ \A n \in index + 1 .. Len(archive) : at[archive[n]] = "idle"
    /\ \A e \in Entries : at[e] \in Owning => e \in TheBooks

\* The bytes: those at the path of a book at work, and those it was imported from.
BytesInv ==
    /\ result \in [Entries -> Statuses \union {"none"}]
    /\ DOMAIN read = Entries
    /\ DOMAIN file = {Extracted(e) : e \in Entries}
    /\ \A e \in Entries : Unique(e) =>
          /\ at[e] = "running" => file[Extracted(e)] = e
          /\ result[e] = "Imported" => read[e] = e

\* The entries that have a permit, and the one the coordinator's thread has.
Holders == {e \in Entries : at[e] \in Owning}
Held    == IF phase \in {"directory", "write"} THEN 1 ELSE 0

\* What the scan has counted so far.
Seen == {archive[n] : n \in {k \in 1 .. scanned : Planned(archive[k])}}

\* The scan: whatever has begun was counted before, since a scan that was broken off
\* is followed by no entry.
ScanInv ==
    /\ scanned \in 0 .. Len(archive)
    /\ IsFiniteSet(Seen) /\ total = Cardinality(Seen)
    /\ phase \in {"scan", "unwind", "threw"} \/ scanned = Len(archive) \/ stop
    /\ phase \in {"acquire", "directory", "write"} => scanned = Len(archive)
    /\ \A e \in Entries : at[e] # "idle" => e \in Seen

\* The entries whose worker has not told how it ended, and those that have: the
\* dead never do.
Untold == {e \in Entries : at[e] \in {"running", "cleanup", "tidy", "publish", "died"}}
Told   == {e \in Entries : at[e] \in {"leave", "ended"}}

\* The events: an outcome that was told is in the queue or was processed, once;
\* pending says how many are not processed.
EventInv ==
    /\ queue \in Seq(Entries) /\ processed \in Nat
    /\ \A e \in Entries : result[e] # "none" <=> at[e] \notin {"idle", "running"}
    /\ IsFiniteSet(Untold) /\ pending = Cardinality(Untold) + Len(queue)
    /\ IsFiniteSet(Told) /\ processed + Len(queue) = Cardinality(Told)
    /\ phase = "returned" => pending = 0 /\ queue = <<>>

\* No permit is lost, none is given back twice.
PermitsInv ==
    /\ IsFiniteSet(Holders)
    /\ slots \in Nat
    /\ slots + Cardinality(Holders) + Held = Permits

-----------------------------------------------------------------------------
(* The walk.                                                               *)

\* The current entry, as long as there is one.
LEMMA CurrentEntry ==
    ASSUME WalkInv, index < Len(archive)
    PROVE  /\ archive \in Seq(Entries) /\ index + 1 \in DOMAIN archive
           /\ DOMAIN archive = 1 .. Len(archive) /\ Len(archive) \in Nat
           /\ Current \in Entries /\ at[Current] = "idle"
           /\ KindOf[Current] = "book" => Current \in TheBooks
<1>1. archive \in Seq(Entries)
  BY ArchiveAssumption DEF WalkInv
<1>2. index + 1 \in 1 .. Len(archive) /\ DOMAIN archive = 1 .. Len(archive) /\ Len(archive) \in Nat
  BY <1>1 DEF WalkInv
<1>3. Current \in Entries
  BY <1>1, <1>2 DEF Current
<1>4. at[Current] = "idle"
  BY <1>2 DEF WalkInv, Current
<1>5. QED
  BY <1>1, <1>2, <1>3, <1>4 DEF TheBooks, Current

\* The walk starts at the first entry.
LEMMA WalkInit == Init => WalkInv
<1> SUFFICES ASSUME Init PROVE WalkInv
  OBVIOUS
<1>1. archive \in Seq(Entries)
  BY ArchiveAssumption DEF Init
<1>2. \A n \in 1 .. Len(archive) : archive[n] \in Entries
  BY <1>1
<1>3. QED
  BY <1>1, <1>2 DEF Init, WalkInv, Owning

\* The thread goes past the current entry, which it may give a place of its own.
LEMMA WalkAdvance ==
    ASSUME WalkInv, index < Len(archive), archive' = archive, index' = index + 1,
           phase' = "next",
           NEW s \in Owning \union {"idle", "ended", "died"}, at' = [at EXCEPT ![Current] = s],
           s \in Owning => KindOf[Current] = "book"
    PROVE  WalkInv'
<1> USE CurrentEntry
<1>1. index' \in 0 .. Len(archive)
  BY DEF WalkInv
<1>2. at' \in [Entries -> Owning \union {"idle", "ended", "died"}]
  BY DEF WalkInv
<1>3. ASSUME NEW n \in index + 2 .. Len(archive) PROVE at'[archive[n]] = "idle"
  <2>1. n \in 1 .. Len(archive) /\ n # index + 1 /\ n \in index + 1 .. Len(archive)
    BY <1>3 DEF WalkInv
  <2>2. archive[n] # Current
    BY <2>1, ArchiveAssumption DEF Current, WalkInv
  <2>3. archive[n] \in Entries
    BY <2>1
  <2>4. QED
    BY <2>1, <2>2, <2>3 DEF WalkInv
<1>4. ASSUME NEW e \in Entries, at'[e] \in Owning PROVE e \in TheBooks'
  <2>1. TheBooks' = TheBooks
    BY DEF TheBooks
  <2>2. QED
    BY <1>4, <2>1 DEF WalkInv
<1>5. QED
  BY <1>1, <1>2, <1>3, <1>4 DEF WalkInv

\* Steps that stay where they are.
LEMMA WalkStutter ==
    ASSUME WalkInv, UNCHANGED <<archive, index, at>>,
           phase' \in {"acquire", "directory", "write"} =>
               index < Len(archive) /\ KindOf[Current] = "book"
    PROVE  WalkInv'
<1>1. TheBooks' = TheBooks /\ Current' = Current
  BY DEF TheBooks, Current
<1>2. QED
  BY <1>1 DEF WalkInv

\* Steps of a worker.
LEMMA WalkWorker ==
    ASSUME WalkInv, UNCHANGED Thread, NEW e \in Entries, at[e] \in Owning,
           NEW s \in Owning \union {"ended", "died"}, at' = [at EXCEPT ![e] = s]
    PROVE  WalkInv'
<1>1. TheBooks' = TheBooks /\ Current' = Current /\ UNCHANGED <<archive, phase, index>>
  BY DEF TheBooks, Current, Thread
<1>2. at' \in [Entries -> Owning \union {"idle", "ended", "died"}]
  BY DEF WalkInv
<1>3. ASSUME NEW n \in index + 1 .. Len(archive) PROVE at'[archive[n]] = "idle"
  <2>1. at[archive[n]] = "idle" /\ archive[n] # e
    BY <1>3 DEF WalkInv, Owning
  <2>2. archive \in Seq(Entries) /\ n \in 1 .. Len(archive)
    BY <1>3, ArchiveAssumption DEF WalkInv
  <2>3. archive[n] \in Entries
    BY <2>2
  <2>4. QED
    BY <2>1, <2>3 DEF WalkInv
<1>4. \A d \in Entries : at'[d] \in Owning => d \in TheBooks
  BY DEF WalkInv
<1>5. QED
  BY <1>1, <1>2, <1>3, <1>4 DEF WalkInv

\* What a worker does to the places of the entries.
LEMMA WorkMoves ==
    ASSUME WalkInv, NEW e \in Entries, Work(e)
    PROVE  /\ UNCHANGED Thread /\ at[e] \in Owning
           /\ \E s \in Owning \union {"ended", "died"} : at' = [at EXCEPT ![e] = s]
<1> USE DEF Owning
<1>1. CASE Import(e)
  BY <1>1 DEF Import
<1>2. CASE RemoveExtracted(e)
  BY <1>2 DEF RemoveExtracted
<1>3. CASE RemoveEmptyDirectory(e)
  BY <1>3 DEF RemoveEmptyDirectory
<1>4. CASE Publish(e)
  BY <1>4 DEF Publish
<1>5. CASE Leave(e) \/ Die(e)
  BY <1>5 DEF Leave, Die
<1>6. QED
  BY <1>1, <1>2, <1>3, <1>4, <1>5 DEF Work

\* What NextEntry does: past an entry without a worker, on to a book, or out.
LEMMA NextEntryMoves ==
    ASSUME WalkInv, NextEntry
    PROVE  \/ /\ index' = index + 1 /\ phase' = "next" /\ at' = at /\ result' = result
           \/ /\ index' = index + 1 /\ phase' = "next" /\ Planned(Current)
              /\ at' = [at EXCEPT ![Current] = "ended"]
              /\ \E s \in Immediate : result' = [result EXCEPT ![Current] = s]
           \/ UNCHANGED <<index, at, result>> /\ phase' = "unwind"
           \/ /\ UNCHANGED <<index, at, result>> /\ phase' = "acquire"
              /\ KindOf[Current] = "book"
<1>1. phase = "next" /\ KindOf[Current] \in Kinds
  BY CurrentEntry, ArchiveAssumption DEF NextEntry
<1>2. CASE KindOf[Current] = "directory"
  BY <1>1, <1>2 DEF NextEntry
<1>3. CASE KindOf[Current] = "nested"
  <2>1. Planned(Current)
    BY <1>3 DEF Planned
  <2>2. QED
    BY <1>1, <1>3, <2>1 DEF NextEntry, Answered, Immediate
<1>4. CASE KindOf[Current] \in {"unsafe", "unsupported"}
  <2>1. Planned(Current)
    BY <1>4 DEF Planned
  <2>2. QED
    BY <1>1, <1>4, <2>1 DEF NextEntry, Answered, Immediate
<1>5. CASE KindOf[Current] = "unmappable"
  BY <1>1, <1>5 DEF NextEntry
<1>6. CASE KindOf[Current] = "book"
  BY <1>1, <1>6 DEF NextEntry
<1>7. QED
  BY <1>1, <1>2, <1>3, <1>4, <1>5, <1>6 DEF Kinds

\* Every step keeps to the walk.
LEMMA WalkNext == WalkInv /\ [Next]_vars => WalkInv'
<1> SUFFICES ASSUME WalkInv, [Next]_vars PROVE WalkInv'
  OBVIOUS
<1>1. CASE Scan \/ Throw \/ LoopEnds \/ ApplyEvent \/ Return \/ Unwound \/ Stop
  BY <1>1, WalkStutter DEF Scan, Throw, LoopEnds, ApplyEvent, Return, Unwound, Over, Stop, WalkInv
<1>2. CASE NextEntry
  <2>1. index < Len(archive) /\ archive' = archive
    BY <1>2 DEF NextEntry
  <2>2. CASE index' = index + 1 /\ phase' = "next" /\ at' = at
    <3>1. at' = [at EXCEPT ![Current] = "idle"]
      BY <2>1, <2>2, CurrentEntry DEF WalkInv
    <3>2. QED
      BY <2>1, <2>2, <3>1, WalkAdvance DEF Owning
  <2>3. CASE index' = index + 1 /\ phase' = "next" /\ at' = [at EXCEPT ![Current] = "ended"]
    BY <2>1, <2>3, WalkAdvance DEF Owning
  <2>4. CASE UNCHANGED <<index, at>> /\ phase' = "unwind"
    BY <2>1, <2>4, WalkStutter
  <2>5. CASE UNCHANGED <<index, at>> /\ KindOf[Current] = "book"
    BY <2>1, <2>5, WalkStutter
  <2>6. QED
    BY <1>2, <2>2, <2>3, <2>4, <2>5, NextEntryMoves
<1>3. CASE Acquire \/ MakeDirectory
  BY <1>3, WalkStutter DEF Acquire, MakeDirectory, WalkInv
<1>4. CASE ExtractFails
  <2>1. index < Len(archive) /\ archive' = archive /\ index' = index + 1 /\ phase' = "next"
        /\ at' = [at EXCEPT ![Current] = "ended"]
    BY <1>4 DEF ExtractFails, Answered, WalkInv
  <2>2. QED
    BY <2>1, WalkAdvance DEF Owning
<1>5. CASE ExtractAndSubmit
  <2>1. index < Len(archive) /\ archive' = archive /\ index' = index + 1 /\ phase' = "next"
        /\ at' = [at EXCEPT ![Current] = "running"] /\ KindOf[Current] = "book"
    BY <1>5 DEF ExtractAndSubmit, WalkInv
  <2>2. QED
    BY <2>1, WalkAdvance DEF Owning
<1>6. ASSUME NEW e \in Entries, Work(e) PROVE WalkInv'
  BY <1>6, WorkMoves, WalkWorker
<1>7. CASE UNCHANGED vars
  BY <1>7, WalkStutter DEF vars, WalkInv
<1>8. QED
  BY <1>1, <1>2, <1>3, <1>4, <1>5, <1>6, <1>7 DEF Next, Coordinator

-----------------------------------------------------------------------------
(* The permits.                                                            *)

\* All permits are free at the start.
LEMMA PermitsInit == Init => PermitsInv
<1> SUFFICES ASSUME Init PROVE PermitsInv
  OBVIOUS
<1>1. Holders = {}
  BY DEF Init, Holders, Owning
<1>2. QED
  BY <1>1, FS_EmptySet, ArchiveAssumption DEF Init, PermitsInv, Held

\* Steps after which as many hold a permit as before.
LEMMA PermitsStutter ==
    ASSUME PermitsInv, Holders' = Holders, slots' = slots, Held' = Held
    PROVE  PermitsInv'
  BY DEF PermitsInv

\* Every step keeps account of the permits.
LEMMA PermitsNext == WalkInv /\ PermitsInv /\ [Next]_vars => PermitsInv'
<1> SUFFICES ASSUME WalkInv, PermitsInv, [Next]_vars PROVE PermitsInv'
  OBVIOUS
<1>0. Cardinality(Holders) \in Nat
  BY FS_CardinalityType DEF PermitsInv
<1>1. CASE Scan \/ LoopEnds \/ ApplyEvent \/ Return \/ Unwound \/ Stop \/ MakeDirectory
  BY <1>1, PermitsStutter DEF Scan, LoopEnds, ApplyEvent, Return, Unwound, Over, Stop, MakeDirectory,
     Holders, Held
<1>2. CASE Throw
  <2>1. Holders' = Holders /\ Held' = 0
    BY <1>2 DEF Throw, Holders, Held
  <2>2. \/ slots' = slots /\ Held = 0
        \/ slots' = slots + 1 /\ Held = 1
    BY <1>2 DEF Throw, PermitBack, Held
  <2>3. QED
    BY <1>0, <2>1, <2>2, ArchiveAssumption DEF PermitsInv
<1>3. CASE NextEntry
  <2>1. phase = "next" /\ slots' = slots /\ index < Len(archive)
    BY <1>3 DEF NextEntry
  <2>2. Held' = Held
    BY <1>3, <2>1, NextEntryMoves DEF Held
  <2>3. Holders' = Holders
    <3>1. at' = at \/ at' = [at EXCEPT ![Current] = "ended"]
      BY <1>3, NextEntryMoves
    <3>2. QED
      BY <2>1, <3>1, CurrentEntry DEF Holders, Owning, WalkInv
  <2>4. QED
    BY <2>1, <2>2, <2>3, PermitsStutter
<1>4. CASE Acquire
  <2>1. Holders' = Holders /\ slots' = slots - 1 /\ slots > 0 /\ Held = 0 /\ Held' = 1
    BY <1>4 DEF Acquire, Holders, Held
  <2>2. QED
    BY <1>0, <2>1, ArchiveAssumption DEF PermitsInv
<1>5. CASE ExtractFails
  <2>1. index < Len(archive) /\ at' = [at EXCEPT ![Current] = "ended"]
    BY <1>5 DEF ExtractFails, Answered, WalkInv
  <2>2. Holders' = Holders
    BY <2>1, CurrentEntry DEF Holders, Owning, WalkInv
  <2>3. slots' = slots + 1 /\ Held = 1 /\ Held' = 0
    BY <1>5 DEF ExtractFails, PermitBack, Held
  <2>4. QED
    BY <1>0, <2>2, <2>3, ArchiveAssumption DEF PermitsInv
<1>6. CASE ExtractAndSubmit
  <2>1. index < Len(archive) /\ at' = [at EXCEPT ![Current] = "running"]
    BY <1>6 DEF ExtractAndSubmit, WalkInv
  <2>2. Holders' = Holders \union {Current} /\ Current \notin Holders
    BY <2>1, CurrentEntry DEF Holders, Owning, WalkInv
  <2>3. IsFiniteSet(Holders') /\ Cardinality(Holders') = Cardinality(Holders) + 1
    BY <2>2, FS_AddElement DEF PermitsInv
  <2>4. slots' = slots /\ Held = 1 /\ Held' = 0
    BY <1>6 DEF ExtractAndSubmit, Held
  <2>5. QED
    BY <1>0, <2>3, <2>4, ArchiveAssumption DEF PermitsInv
<1>7. ASSUME NEW e \in Entries, Work(e) PROVE PermitsInv'
  <2>1. Held' = Held
    BY <1>7, WorkMoves DEF Thread, Held
  <2>2. CASE Leave(e) \/ Die(e)
    <3>1. Holders' = Holders \ {e} /\ e \in Holders
      BY <2>2 DEF Leave, Die, Holders, Owning, WalkInv
    <3>2. IsFiniteSet(Holders') /\ Cardinality(Holders') = Cardinality(Holders) - 1
      BY <3>1, FS_RemoveElement DEF PermitsInv
    <3>3. slots' = slots + 1
      BY <2>2 DEF Leave, Die
    <3>4. Cardinality(Holders') \in Nat /\ Held \in Nat
      BY <3>2, FS_CardinalityType DEF Held
    <3>5. QED
      BY <1>0, <2>1, <3>2, <3>3, <3>4, ArchiveAssumption DEF PermitsInv
  <2>3. CASE Import(e) \/ RemoveExtracted(e) \/ RemoveEmptyDirectory(e) \/ Publish(e)
    <3>1. slots' = slots
      BY <2>3 DEF Import, RemoveExtracted, RemoveEmptyDirectory, Publish
    <3>2. at[e] \in Owning /\ \E s \in Owning : at' = [at EXCEPT ![e] = s]
      BY <2>3 DEF Import, RemoveExtracted, RemoveEmptyDirectory, Publish, Owning
    <3>3. Holders' = Holders
      BY <3>2 DEF Holders, WalkInv
    <3>4. QED
      BY <2>1, <3>1, <3>3, PermitsStutter
  <2>4. QED
    BY <1>7, <2>2, <2>3 DEF Work
<1>8. CASE UNCHANGED vars
  BY <1>8, PermitsStutter DEF vars, Holders, Held
<1>9. QED
  BY <1>1, <1>3, <1>4, <1>5, <1>6, <1>7, <1>8, <1>2 DEF Next, Coordinator

\* The semaphore inFlight bounds what lies extracted in the workspace, for archives
\* of any length and whichever extractions fail.
THEOREM ExtractedIsBounded == Spec => []ExtractedBounded
<1>1. PermitsInv => ExtractedBounded
  <2> SUFFICES ASSUME PermitsInv PROVE ExtractedBounded
    OBVIOUS
  <2> DEFINE extracted == {e \in Entries : at[e] \in {"running", "cleanup"}}
  <2>1. Cardinality(Holders) \in Nat /\ Held \in Nat
    BY FS_CardinalityType DEF PermitsInv, Held
  <2>2. extracted \subseteq Holders
    BY DEF Holders, Owning
  <2>3. Cardinality(extracted) \in Nat /\ Cardinality(extracted) <= Cardinality(Holders)
    BY <2>2, FS_Subset, FS_CardinalityType DEF PermitsInv
  <2>4. QED
    BY <2>1, <2>3, ArchiveAssumption DEF PermitsInv, ExtractedBounded
<1>2. QED
  BY WalkInit, WalkNext, PermitsInit, PermitsNext, <1>1, PTL DEF Spec

-----------------------------------------------------------------------------
(* The bytes.                                                              *)

\* Nothing is imported at the start.
LEMMA BytesInit == Init => BytesInv
  BY DEF Init, BytesInv

\* Every step keeps the bytes of a book apart from those of the others.
LEMMA BytesNext == WalkInv /\ BytesInv /\ [Next]_vars => BytesInv'
<1> SUFFICES ASSUME WalkInv, BytesInv, [Next]_vars PROVE BytesInv'
  OBVIOUS
<1>0. archive' = archive => \A e : Unique(e)' <=> Unique(e)
  BY DEF Unique, TheBooks
<1>1. CASE UNCHANGED <<archive, at, result, read, file>>
  BY <1>0, <1>1 DEF BytesInv, Extracted
<1>2. CASE Scan \/ Throw \/ LoopEnds \/ ApplyEvent \/ Unwound \/ Stop \/ Acquire \/ MakeDirectory
  BY <1>1, <1>2 DEF Scan, Throw, LoopEnds, ApplyEvent, Unwound, Stop, Acquire, MakeDirectory
<1>3. CASE Return
  <2>1. UNCHANGED <<archive, at, result, read>> /\ DOMAIN file' = DOMAIN file
        /\ \A e \in Entries : at[e] # "running"
    BY <1>3 DEF Return, AllEnded
  <2>2. QED
    BY <1>0, <2>1 DEF BytesInv, Extracted
<1>4. ASSUME index < Len(archive), UNCHANGED <<archive, read, file>>,
             NEW s \in Statuses \ {"Imported"}, result' = [result EXCEPT ![Current] = s],
             at' = [at EXCEPT ![Current] = "ended"]
      PROVE  BytesInv'
  <2>1. Current \in Entries
    BY <1>4, CurrentEntry
  <2>2. QED
    BY <1>0, <1>4, <2>1 DEF BytesInv, Extracted, WalkInv
<1>5. CASE NextEntry
  <2>1. index < Len(archive) /\ UNCHANGED <<archive, read, file>>
    BY <1>5 DEF NextEntry
  <2>2. CASE UNCHANGED <<at, result>>
    BY <1>1, <2>1, <2>2
  <2>3. QED
    BY <1>4, <1>5, <2>1, <2>2, NextEntryMoves DEF Immediate, Statuses
<1>6. CASE ExtractFails
  BY <1>4, <1>6 DEF ExtractFails, Answered, WalkInv, Statuses
<1>7. CASE ExtractAndSubmit
  <2>1. index < Len(archive) /\ Current \in TheBooks /\ Current \in Entries
    BY <1>7, CurrentEntry DEF ExtractAndSubmit, WalkInv
  <2>2. /\ UNCHANGED <<archive, result, read>>
        /\ file' = [file EXCEPT ![Extracted(Current)] = Current]
        /\ at' = [at EXCEPT ![Current] = "running"]
    BY <1>7 DEF ExtractAndSubmit
  <2>3. ASSUME NEW e \in Entries, Unique(e), at'[e] = "running" PROVE file'[Extracted(e)] = e
    <3>1. CASE e = Current
      BY <2>1, <2>2, <3>1 DEF BytesInv
    <3>2. CASE e # Current
      <4>1. at[e] = "running" /\ Extracted(e) # Extracted(Current)
        BY <2>1, <2>2, <2>3, <3>2 DEF Unique, Extracted, WalkInv
      <4>2. QED
        BY <2>2, <2>3, <4>1 DEF BytesInv
    <3>3. QED
      BY <3>1, <3>2
  <2>4. QED
    BY <1>0, <2>2, <2>3 DEF BytesInv, Extracted
<1>8. ASSUME NEW d \in Entries, Work(d) PROVE BytesInv'
  <2>0. archive' = archive /\ d \in TheBooks
    BY <1>8, WorkMoves DEF Thread, WalkInv
  <2>1. CASE Import(d)
    <3>1. PICK s \in {"Skipped", "Failed", "Cancelled", "Imported"} :
              /\ s = "Imported" => file[Extracted(d)] # Nothing
              /\ result' = [result EXCEPT ![d] = s]
      BY <2>1 DEF Import
    <3>2. /\ at[d] = "running" /\ at' = [at EXCEPT ![d] = "cleanup"] /\ file' = file
          /\ read' = [read EXCEPT ![d] = file[Extracted(d)]]
      BY <2>1 DEF Import
    <3>3. ASSUME NEW e \in Entries, Unique(e), result'[e] = "Imported" PROVE read'[e] = e
      BY <3>1, <3>2, <3>3 DEF BytesInv
    <3>4. ASSUME NEW e \in Entries, Unique(e), at'[e] = "running" PROVE file'[Extracted(e)] = e
      BY <3>2, <3>4 DEF BytesInv, WalkInv
    <3>5. result' \in [Entries -> Statuses \union {"none"}] /\ DOMAIN read' = Entries
      BY <3>1, <3>2 DEF BytesInv, Statuses
    <3>6. QED
      BY <1>0, <2>0, <3>2, <3>3, <3>4, <3>5 DEF BytesInv, Extracted
  <2>2. CASE RemoveExtracted(d)
    <3>1. /\ at[d] = "cleanup" /\ at' = [at EXCEPT ![d] = "tidy"] /\ UNCHANGED <<result, read>>
          /\ file' \in {file, [file EXCEPT ![Extracted(d)] = Nothing]}
      BY <2>2 DEF RemoveExtracted
    <3>2. ASSUME NEW e \in Entries, Unique(e), at'[e] = "running" PROVE file'[Extracted(e)] = e
      <4>1. at[e] = "running" /\ e # d
        BY <3>1, <3>2 DEF WalkInv
      <4>2. Extracted(d) # Extracted(e)
        BY <2>0, <3>2, <4>1 DEF Unique, Extracted
      <4>3. QED
        BY <3>1, <3>2, <4>1, <4>2 DEF BytesInv
    <3>3. DOMAIN file' = DOMAIN file
      BY <3>1
    <3>4. QED
      BY <1>0, <2>0, <3>1, <3>2, <3>3 DEF BytesInv, Extracted
  <2>3. CASE RemoveEmptyDirectory(d) \/ Publish(d) \/ Die(d) \/ Leave(d)
    <3>1. UNCHANGED <<result, read, file>> /\ \A e \in Entries : at'[e] = "running" => at[e] = "running"
      BY <2>3 DEF RemoveEmptyDirectory, Publish, Die, Leave, WalkInv
    <3>2. QED
      BY <1>0, <2>0, <3>1 DEF BytesInv, Extracted
  <2>4. QED
    BY <1>8, <2>1, <2>2, <2>3 DEF Work
<1>9. CASE UNCHANGED vars
  BY <1>1, <1>9 DEF vars
<1>10. QED
  BY <1>2, <1>3, <1>5, <1>6, <1>7, <1>8, <1>9 DEF Next, Coordinator

\* A book of an archive is imported from its own bytes, whatever the other workers
\* and the thread that extracts do in the same workspace.
THEOREM BooksKeepTheirBytes == Spec => []OwnBytes
<1>1. BytesInv => OwnBytes
  BY DEF BytesInv, OwnBytes, Unique, TheBooks
<1>2. QED
  BY WalkInit, WalkNext, BytesInit, BytesNext, <1>1, PTL DEF Spec
-----------------------------------------------------------------------------
(* The progress.                                                           *)

\* Nothing is counted at the start.
LEMMA ScanInit == Init => ScanInv
<1> SUFFICES ASSUME Init PROVE ScanInv
  OBVIOUS
<1>1. archive \in Seq(Entries) /\ scanned = 0
  BY ArchiveAssumption DEF Init
<1>2. Seen = {}
  BY <1>1 DEF Seen
<1>3. QED
  BY <1>1, <1>2, FS_EmptySet DEF Init, ScanInv

\* Steps after the scan that begin no entry.
LEMMA ScanStutter ==
    ASSUME WalkInv, ScanInv, UNCHANGED <<archive, scanned, total>>,
           phase \in {"scan", "unwind", "threw"} => phase' \in {"scan", "unwind", "threw"}, stop => stop',
           phase' \in {"acquire", "directory", "write"} => scanned = Len(archive),
           \A e \in Entries : at'[e] # "idle" => at[e] # "idle" \/ e \in Seen
    PROVE  ScanInv'
<1>1. Seen' = Seen
  BY DEF Seen
<1>2. QED
  BY <1>1 DEF ScanInv

\* The current entry has been counted.
LEMMA CurrentSeen ==
    ASSUME WalkInv, ScanInv, index < Len(archive), scanned = Len(archive), Planned(Current)
    PROVE  Current \in Seen
<1>1. index + 1 \in 1 .. scanned
  BY CurrentEntry
<1>2. QED
  BY <1>1 DEF Seen, Current

\* Every step begins what was counted.
LEMMA ScanNext == WalkInv /\ ScanInv /\ [Next]_vars => ScanInv'
<1> SUFFICES ASSUME WalkInv, ScanInv, [Next]_vars PROVE ScanInv'
  OBVIOUS
<1>0. archive \in Seq(Entries) /\ DOMAIN at = Entries
      /\ \A m, n \in 1 .. Len(archive) : archive[m] = archive[n] => m = n
  BY ArchiveAssumption DEF WalkInv
<1>1. CASE Throw \/ LoopEnds \/ Acquire \/ MakeDirectory \/ ApplyEvent \/ Return \/ Unwound \/ Stop
  BY <1>1, ScanStutter DEF Throw, Over, LoopEnds, Acquire, MakeDirectory, ApplyEvent, Return, Unwound,
     Stop, ScanInv
<1>2. CASE Scan
  <2>1. CASE scanned < Len(archive) /\ ~stop
    <3> DEFINE e == archive[scanned + 1]
    <3>1. /\ phase = "scan" /\ scanned' = scanned + 1
          /\ total' = total + (IF Planned(e) THEN 1 ELSE 0)
          /\ UNCHANGED <<archive, phase, at, stop>>
      BY <1>2, <2>1 DEF Scan
    <3>2. scanned' \in 1 .. Len(archive) /\ 1 .. scanned' = (1 .. scanned) \union {scanned + 1}
      BY <1>0, <2>1, <3>1 DEF ScanInv
    <3>3. e \notin Seen
      BY <1>0, <3>1, <3>2 DEF Seen, ScanInv
    <3>4. Seen' = IF Planned(e) THEN Seen \union {e} ELSE Seen
      BY <3>1, <3>2 DEF Seen
    <3> HIDE DEF e
    <3>5. IsFiniteSet(Seen') /\ total' = Cardinality(Seen')
      BY <3>1, <3>3, <3>4, FS_AddElement, FS_CardinalityType DEF ScanInv
    <3>6. QED
      BY <3>1, <3>2, <3>4, <3>5 DEF ScanInv
  <2>2. CASE ~(scanned < Len(archive) /\ ~stop)
    <3>1. phase' = "next" /\ UNCHANGED <<archive, scanned, total, at, stop>> /\ Seen' = Seen
      BY <1>2, <2>2 DEF Scan, Seen
    <3>2. Len(archive) \in Nat
      BY <1>0
    <3>3. scanned = Len(archive) \/ stop
      BY <2>2, <3>2 DEF ScanInv
    <3>4. QED
      BY <3>1, <3>3 DEF ScanInv
  <2>3. QED
    BY <2>1, <2>2
<1>3. CASE NextEntry
  <2>1. /\ phase = "next" /\ ~stop /\ index < Len(archive)
        /\ UNCHANGED <<archive, scanned, total, stop>>
    BY <1>3 DEF NextEntry
  <2>2. scanned = Len(archive)
    BY <2>1 DEF ScanInv
  <2>3. at' = at \/ (Planned(Current) /\ at' = [at EXCEPT ![Current] = "ended"])
    BY <1>3, NextEntryMoves
  <2>4. \A e \in Entries : at'[e] # "idle" => at[e] # "idle" \/ e \in Seen
    BY <1>0, <2>1, <2>2, <2>3, CurrentSeen
  <2>5. QED
    BY <2>1, <2>2, <2>4, ScanStutter
<1>4. CASE ExtractFails \/ ExtractAndSubmit
  <2>1. /\ index < Len(archive) /\ scanned = Len(archive) /\ phase \in {"directory", "write"}
        /\ phase' = "next" /\ KindOf[Current] = "book"
        /\ UNCHANGED <<archive, scanned, total, stop>>
    BY <1>4 DEF ExtractFails, ExtractAndSubmit, Answered, WalkInv, ScanInv
  <2>2. \E s : at' = [at EXCEPT ![Current] = s]
    BY <1>4 DEF ExtractFails, ExtractAndSubmit, Answered
  <2>3. Current \in Seen
    BY <2>1, CurrentSeen DEF Planned
  <2>4. \A e \in Entries : at'[e] # "idle" => at[e] # "idle" \/ e \in Seen
    BY <1>0, <2>2, <2>3
  <2>5. QED
    BY <2>1, <2>4, ScanStutter
<1>5. ASSUME NEW e \in Entries, Work(e) PROVE ScanInv'
  <2>1. /\ UNCHANGED Thread /\ at[e] # "idle"
        /\ \E s \in Owning \union {"ended", "died"} : at' = [at EXCEPT ![e] = s]
    BY <1>5, WorkMoves DEF Owning
  <2>2. QED
    BY <1>0, <2>1, ScanStutter DEF Thread, ScanInv
<1>6. CASE UNCHANGED vars
  BY <1>6, ScanStutter DEF vars, ScanInv
<1>7. QED
  BY <1>1, <1>2, <1>3, <1>4, <1>5, <1>6 DEF Next, Coordinator

\* There is no event at the start.
LEMMA EventInit == Init => EventInv
<1> SUFFICES ASSUME Init PROVE EventInv
  OBVIOUS
<1>1. Untold = {} /\ Told = {}
  BY DEF Init, Untold, Told
<1>2. QED
  BY <1>1, FS_EmptySet DEF Init, EventInv

\* Steps that neither begin, end nor process an entry.
LEMMA EventStutter ==
    ASSUME EventInv, UNCHANGED <<at, result, queue, pending, processed>>,
           phase' = "returned" => pending = 0 /\ queue = <<>>
    PROVE  EventInv'
  BY DEF EventInv, Untold, Told

\* An entry that is answered without a worker is processed at once.
LEMMA EventAnswered ==
    ASSUME WalkInv, EventInv, index < Len(archive),
           phase' # "returned", UNCHANGED <<queue, pending>>,
           NEW s \in Statuses, result' = [result EXCEPT ![Current] = s],
           at' = [at EXCEPT ![Current] = "ended"], processed' = processed + 1,
           BytesInv
    PROVE  EventInv'
<1>1. Current \in Entries /\ at[Current] = "idle" /\ at \in [Entries -> Owning \union {"idle", "ended", "died"}]
      /\ result \in [Entries -> Statuses \union {"none"}] /\ s # "none"
  BY CurrentEntry DEF WalkInv, BytesInv, Statuses, Immediate
<1>2. Untold' = Untold /\ Told' = Told \union {Current} /\ Current \notin Told
  BY <1>1 DEF Untold, Told
<1>3. IsFiniteSet(Told') /\ Cardinality(Told') = Cardinality(Told) + 1
  BY <1>2, FS_AddElement DEF EventInv
<1>4. Len(queue) \in Nat /\ Cardinality(Told) \in Nat
  BY FS_CardinalityType DEF EventInv
<1>5. QED
  BY <1>1, <1>2, <1>3, <1>4 DEF EventInv

\* Every step keeps account of the events.
LEMMA EventNext == WalkInv /\ BytesInv /\ EventInv /\ [Next]_vars => EventInv'
<1> SUFFICES ASSUME WalkInv, BytesInv, EventInv, [Next]_vars PROVE EventInv'
  OBVIOUS
<1>0. /\ at \in [Entries -> Owning \union {"idle", "ended", "died"}]
      /\ result \in [Entries -> Statuses \union {"none"}]
      /\ Len(queue) \in Nat /\ Cardinality(Untold) \in Nat /\ Cardinality(Told) \in Nat
  BY FS_CardinalityType DEF WalkInv, BytesInv, EventInv
<1>1. CASE Scan \/ Throw \/ LoopEnds \/ Acquire \/ MakeDirectory \/ Unwound \/ Stop
  BY <1>1, EventStutter DEF Scan, Throw, LoopEnds, Acquire, MakeDirectory, Unwound, Stop, Over
<1>2. CASE NextEntry
  <2>1. index < Len(archive) /\ phase' # "returned" /\ UNCHANGED <<queue, pending>>
    BY <1>2, NextEntryMoves DEF NextEntry
  <2>2. \/ UNCHANGED <<at, result, processed>>
        \/ \E s \in Immediate : Answered(s)
    BY <1>2, CurrentEntry, ArchiveAssumption DEF NextEntry, Kinds, Immediate
  <2>3. QED
    BY <2>1, <2>2, EventStutter, EventAnswered DEF Answered, Statuses
<1>3. CASE ExtractFails
  <2>1. index < Len(archive) /\ phase' = "next" /\ UNCHANGED <<queue, pending>> /\ Answered("Failed")
    BY <1>3 DEF ExtractFails, WalkInv
  <2>2. QED
    BY <2>1, EventAnswered DEF Answered, Statuses
<1>4. CASE ExtractAndSubmit
  <2>1. /\ index < Len(archive) /\ phase' = "next" /\ UNCHANGED <<result, queue, processed>>
        /\ at' = [at EXCEPT ![Current] = "running"] /\ pending' = pending + 1
    BY <1>4 DEF ExtractAndSubmit, WalkInv
  <2>2. Current \in Entries /\ at[Current] = "idle"
    BY <2>1, CurrentEntry
  <2>3. Untold' = Untold \union {Current} /\ Current \notin Untold /\ Told' = Told
    BY <1>0, <2>1, <2>2 DEF Untold, Told
  <2>4. IsFiniteSet(Untold') /\ Cardinality(Untold') = Cardinality(Untold) + 1
    BY <2>3, FS_AddElement DEF EventInv
  <2>5. QED
    BY <1>0, <2>1, <2>2, <2>3, <2>4 DEF EventInv
<1>5. CASE ApplyEvent
  <2>1. /\ queue # <<>> /\ phase' # "returned" /\ UNCHANGED <<at, result>>
        /\ processed' = processed + 1 /\ queue' = Tail(queue)
        /\ pending' = pending - 1
    BY <1>5 DEF ApplyEvent
  <2>2. queue' \in Seq(Entries) /\ Len(queue') = Len(queue) - 1
    BY <2>1 DEF EventInv
  <2>3. Untold' = Untold /\ Told' = Told
    BY <2>1 DEF Untold, Told
  <2>4. QED
    BY <1>0, <2>1, <2>2, <2>3 DEF EventInv
<1>6. CASE Return
  <2>1. pending = 0 /\ UNCHANGED <<at, result, queue, pending, processed>>
    BY <1>6 DEF Return
  <2>2. Len(queue) = 0
    BY <1>0, <2>1 DEF EventInv
  <2>3. queue = <<>>
    BY <2>2 DEF EventInv
  <2>4. QED
    BY <2>1, <2>3, EventStutter
<1>7. ASSUME NEW e \in Entries, Work(e) PROVE EventInv'
  <2>0. phase' = phase /\ UNCHANGED <<pending, processed>> /\ at[e] \in Owning
    BY <1>7, WorkMoves DEF Thread
  <2>1. CASE Import(e) \/ RemoveExtracted(e) \/ RemoveEmptyDirectory(e)
    <3>1. /\ at[e] \in {"running", "cleanup", "tidy"} /\ queue' = queue
          /\ \E p \in {"cleanup", "tidy", "publish"} : at' = [at EXCEPT ![e] = p]
      BY <2>1 DEF Import, RemoveExtracted, RemoveEmptyDirectory
    <3>2. Untold' = Untold /\ Told' = Told
      BY <1>0, <3>1 DEF Untold, Told
    <3>3. \A d \in Entries : result'[d] # "none" <=> at'[d] \notin {"idle", "running"}
      <4>1. CASE Import(e)
        <5>1. /\ at' = [at EXCEPT ![e] = "cleanup"]
              /\ \E s \in Statuses : result' = [result EXCEPT ![e] = s]
          BY <4>1 DEF Import, Statuses
        <5>2. "none" \notin Statuses
          BY DEF Statuses, Immediate
        <5>3. QED
          BY <1>0, <5>1, <5>2 DEF EventInv
      <4>2. CASE RemoveExtracted(e) \/ RemoveEmptyDirectory(e)
        BY <1>0, <4>2 DEF RemoveExtracted, RemoveEmptyDirectory, EventInv
      <4>3. QED
        BY <2>1, <4>1, <4>2
    <3>4. QED
      BY <2>0, <3>1, <3>2, <3>3 DEF EventInv
  <2>2. CASE Publish(e)
    <3>1. /\ at[e] = "publish" /\ at' = [at EXCEPT ![e] = "leave"] /\ result' = result
          /\ queue' = Append(queue, e)
      BY <2>2 DEF Publish
    <3>2. queue' \in Seq(Entries) /\ Len(queue') = Len(queue) + 1
      BY <3>1 DEF EventInv
    <3>3. Untold' = Untold \ {e} /\ e \in Untold /\ Told' = Told \union {e} /\ e \notin Told
      BY <1>0, <3>1 DEF Untold, Told
    <3>4. IsFiniteSet(Untold') /\ Cardinality(Untold') = Cardinality(Untold) - 1
      BY <3>3, FS_RemoveElement DEF EventInv
    <3>5. IsFiniteSet(Told') /\ Cardinality(Told') = Cardinality(Told) + 1
      BY <3>3, FS_AddElement DEF EventInv
    <3>6. pending # 0
      <4>1. Cardinality(Untold') \in Nat
        BY <3>4, FS_CardinalityType
      <4>2. QED
        BY <1>0, <3>4, <4>1 DEF EventInv
    <3>7. QED
      BY <1>0, <2>0, <3>1, <3>2, <3>4, <3>5, <3>6 DEF EventInv
  <2>3. CASE Die(e) \/ Leave(e)
    <3>1. /\ UNCHANGED <<result, queue>>
          /\ \/ at[e] = "publish" /\ at' = [at EXCEPT ![e] = "died"]
             \/ at[e] = "leave" /\ at' = [at EXCEPT ![e] = "ended"]
      BY <2>3 DEF Die, Leave
    <3>2. Untold' = Untold /\ Told' = Told
      BY <1>0, <3>1 DEF Untold, Told
    <3>3. QED
      BY <1>0, <2>0, <3>1, <3>2 DEF EventInv
  <2>4. QED
    BY <1>7, <2>1, <2>2, <2>3 DEF Work
<1>8. CASE UNCHANGED vars
  BY <1>8, EventStutter DEF vars, EventInv
<1>9. QED
  BY <1>1, <1>2, <1>3, <1>4, <1>5, <1>6, <1>7, <1>8 DEF Next, Coordinator

\* The progress shown stays within the planned total, and at the return it counts
\* each entry that was begun once, for archives of any length, wherever a stop falls
\* and whichever workers die.
THEOREM ProgressIsTrue == Spec => []ProgressTrue
<1>1. WalkInv /\ ScanInv /\ EventInv => ProgressTrue
  <2> SUFFICES ASSUME WalkInv, ScanInv, EventInv PROVE ProgressTrue
    OBVIOUS
  <2>0. /\ Len(queue) \in Nat /\ processed \in Nat
        /\ Cardinality(Untold) \in Nat /\ Cardinality(Told) \in Nat
    BY FS_CardinalityType DEF EventInv
  <2>1. Told \subseteq Seen
    BY DEF Told, ScanInv
  <2>2. Cardinality(Told) <= total /\ total \in Nat
    BY <2>1, FS_Subset, FS_CardinalityType DEF ScanInv
  <2>3. processed <= total
    BY <2>0, <2>2 DEF EventInv
  <2>4. ASSUME phase = "returned"
        PROVE  processed = Cardinality({e \in Entries : result[e] # "none"})
    <3>1. Len(queue) = 0 /\ Cardinality(Untold) = 0
      BY <2>0, <2>4 DEF EventInv
    <3>2. Untold = {}
      BY <3>1, FS_EmptySet DEF EventInv
    <3>3. {e \in Entries : result[e] # "none"} = Told
      BY <3>2 DEF EventInv, WalkInv, Owning, Untold, Told
    <3>4. processed = Cardinality(Told)
      BY <2>0, <3>1 DEF EventInv
    <3>5. QED
      BY <3>3, <3>4
  <2>5. QED
    BY <2>3, <2>4 DEF ProgressTrue
<1>2. QED
  BY WalkInit, WalkNext, BytesInit, BytesNext, ScanInit, ScanNext, EventInit, EventNext, <1>1,
     PTL DEF Spec
=============================================================================
