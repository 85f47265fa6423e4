--------------------------- MODULE WriterContract ---------------------------
(***************************************************************************)
(* What the import workers are promised by the repository they write to    *)
(* while a batch import runs (IBookRepository::Add and ForceAdd as seen    *)
(* through CWriterDispatchingRepository): a call that was accepted is      *)
(* answered exactly once; it is told "imported" only when its row is       *)
(* already in the catalog, and told anything else only when it has no row; *)
(* a call made after the repository closed is refused and writes nothing.  *)
(* Queues, batches and the writer thread are not visible here.             *)
(***************************************************************************)
CONSTANTS
    Requests,        \* the Add and ForceAdd calls, one element per call
    Forced,          \* the calls that are ForceAdd
    HashOf,          \* the SHA-256 of the book each call adds
    NoHash,          \* the empty sha256_hex
    CatalogHashes    \* hashes of the books in the catalog before the import

VARIABLES
    call,            \* how far each call has got
    rows,            \* the calls whose row is in the catalog
    open             \* the repository still takes writes

vars == <<call, rows, open>>

Answers  == {"imported", "duplicate", "failed", "aborted"}
Statuses == {"idle", "waiting", "refused"} \union Answers

\* A row of the catalog or of s already has the hash of call r.
HashTaken(r, s) ==
    /\ HashOf[r] # NoHash
    /\ \/ HashOf[r] \in CatalogHashes
       \/ \E t \in s : HashOf[t] = HashOf[r]

Init ==
    /\ call = [r \in Requests |-> "idle"]
    /\ rows = {}
    /\ open = TRUE

Accept(r) ==
    /\ open
    /\ call[r] = "idle"
    /\ call' = [call EXCEPT ![r] = "waiting"]
    /\ UNCHANGED <<rows, open>>

Refuse(r) ==
    /\ ~open
    /\ call[r] = "idle"
    /\ call' = [call EXCEPT ![r] = "refused"]
    /\ UNCHANGED <<rows, open>>

\* One transaction makes the rows of a set of waiting calls appear together.
Commit(S) ==
    /\ S \subseteq {r \in Requests \ rows : call[r] = "waiting"}
    /\ \A r \in S \ Forced : ~HashTaken(r, rows \union (S \ (Forced \union {r})))
    /\ rows' = rows \union S
    /\ UNCHANGED <<call, open>>

Answer(r, a) ==
    /\ call[r] = "waiting"
    /\ (a = "imported") <=> (r \in rows)
    /\ a = "duplicate" => r \notin Forced
    /\ call' = [call EXCEPT ![r] = a]
    /\ UNCHANGED <<rows, open>>

\* The worker takes back a row it was told about.
TakeBack(r) ==
    /\ call[r] = "imported"
    /\ r \in rows
    /\ rows' = rows \ {r}
    /\ UNCHANGED <<call, open>>

Close ==
    /\ open
    /\ open' = FALSE
    /\ UNCHANGED <<call, rows>>

AnswerSome == \E r \in Requests, a \in Answers : Answer(r, a)

Next ==
    \/ \E r \in Requests : Accept(r) \/ Refuse(r) \/ TakeBack(r)
    \/ \E S \in SUBSET Requests : Commit(S)
    \/ AnswerSome
    \/ Close

Safety == Init /\ [][Next]_vars
Spec   == Safety /\ WF_vars(AnswerSome)
=============================================================================
