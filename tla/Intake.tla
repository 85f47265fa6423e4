-------------------------------- MODULE Intake --------------------------------
(***************************************************************************)
(* A file on its way into a library somebody is looking at: the worker     *)
(* asks the catalog for duplicates, has the book converted and its cover   *)
(* made smaller, and the row is written (SingleFileImport has the rest of  *)
(* it).  Meanwhile the user lists books, other workers import theirs,      *)
(* their jobs roll some of them back, and the host may be killed.          *)
(***************************************************************************)
EXTENDS CatalogQueries, ExternalBookConverter, CoverImages

CONSTANTS
    Candidates,      \* the books the worker may import, one after the other
    Others,          \* the books of other jobs
    Options          \* what imports are asked for, and what there is beside them

ASSUME IntakeAssumption ==
    /\ Candidates \union Others \subseteq Books
    /\ (Candidates \union Others) \intersect Shelf = {}
    /\ \A o \in Options : o.files \subseteq Candidates

VARIABLES
    step,            \* where the worker is, or the status it returned
    options,         \* [files, allowProbable, forceEpub, converter, browse]: the job's
                     \* request, if there is a converter, if the user lists books
    past,            \* the books that were imported or given up
    stop,            \* the stop token of the worker's job
    up               \* the host is alive

importer == <<step, options, past, stop>>
vars     == <<queryVars, convVars, cover, importer, up>>

Statuses == {"Imported", "RejectedDuplicate", "Failed", "Cancelled"}

Init ==
    /\ QueriesInit /\ ConverterInit /\ cover = NoCover
    /\ step = "idle" /\ past = {} /\ stop = FALSE /\ up = TRUE
    /\ options \in Options

-----------------------------------------------------------------------------
(* The worker.                                                             *)

Candidate == search.book

\* The book is read, and the catalog is asked for others like it.
Begin ==
    /\ step \in {"idle"} \union Statuses /\ ~stop
    /\ \E c \in options.files \ past : BeginSearch(c) /\ past' = past \union {c}
    /\ step' = "search"
    /\ UNCHANGED <<convVars, cover, options, stop, up>>

LookForDuplicates ==
    /\ step = "search"
    /\ FindDuplicates
    /\ UNCHANGED <<convVars, cover, importer, up>>

\* PlanImportConversion
PlanImportConversion ==
    IF Meta[Candidate].format # "fb2" \/ ~options.forceEpub THEN "cover"
    ELSE IF options.converter THEN "convert" ELSE "Failed"

Decide ==
    /\ step = "search" /\ search.todo = <<>>
    /\ step' = IF stop THEN "Cancelled"
               ELSE IF Found("Strict") \/ (Found("Probable") /\ ~options.allowProbable)
               THEN "RejectedDuplicate"
               ELSE PlanImportConversion
    /\ EndSearch
    /\ conv' = IF step' = "convert" THEN "prepare" ELSE "none"
    /\ UNCHANGED <<process, inJob, verdict, output, cover, options, past, stop, up>>

ConvertBook ==
    /\ step = "convert"
    /\ Convert(stop)
    /\ UNCHANGED <<queryVars, cover, importer, up>>

ResolveImportConversion ==
    /\ step = "convert" /\ conv \in Results
    /\ step' = CASE conv = "Succeeded" -> "cover"
                 [] conv = "Cancelled" -> "Cancelled"
                 [] OTHER              -> "Failed"
    /\ conv' = "none"
    /\ UNCHANGED <<queryVars, process, inJob, verdict, output, cover, options, past, stop, up>>

\* What there is of a cover is written to a temporary file for the storage.
ResolveCover ==
    /\ step = "cover"
    /\ \/ step' = "store"
          /\ cover' \in IF Candidate \in DOMAIN CoverOf THEN ManagedCovers[Candidate]
                       ELSE {NoCover}
       \/ step' = "Failed" /\ Candidate \in DOMAIN CoverOf /\ UNCHANGED cover
    /\ UNCHANGED <<queryVars, convVars, options, past, stop, up>>

\* Add looks for the hash once more in the transaction that writes the row.
Store ==
    /\ step = "store"
    /\ IF stop THEN step' = "Cancelled" /\ UNCHANGED queryVars
       ELSE IF SameHash(Candidate, rows) # {}
       THEN step' = "RejectedDuplicate" /\ UNCHANGED queryVars
       ELSE step' = "Imported" /\ AddBook(Candidate)
    /\ cover' = NoCover
    /\ UNCHANGED <<convVars, options, past, stop, up>>

Worker ==
    \/ Begin \/ LookForDuplicates \/ Decide
    \/ ConvertBook \/ ResolveImportConversion \/ ResolveCover \/ Store

-----------------------------------------------------------------------------
(* Everybody else.                                                         *)

Browse == options.browse /\ ListBooks /\ UNCHANGED <<convVars, cover, importer, up>>

OtherImports ==
    /\ stamp < MaxCommits
    /\ \E b \in Others \ past : AddBook(b) /\ past' = past \union {b}
    /\ UNCHANGED <<convVars, cover, step, options, stop, up>>

\* RemoveBatch of another job's rollback, which a Compact follows.
OtherRollsBack ==
    /\ stamp < MaxCommits
    /\ \E S \in (SUBSET (rows \intersect Others)) \ {{}} : RemoveBatch(S)
    /\ UNCHANGED <<convVars, cover, importer, up>>

OtherCompacts ==
    /\ Compact
    /\ UNCHANGED <<convVars, cover, importer, up>>

Cancel ==
    /\ ~stop /\ stop' = TRUE
    /\ UNCHANGED <<queryVars, convVars, cover, step, options, past, up>>

ConverterRuns == TheProcess /\ UNCHANGED <<queryVars, cover, importer, up>>

\* With the host all its handles close; it matters to what runs beside it.
KillHost ==
    /\ step = "convert"
    /\ up' = FALSE
    /\ KillWithJob
    /\ UNCHANGED <<queryVars, conv, verdict, output, cover, importer>>

Next ==
    \/ up /\ (Worker \/ Browse \/ OtherImports \/ OtherRollsBack \/ OtherCompacts
            \/ Cancel \/ KillHost)
    \/ ConverterRuns

Spec == Init /\ [][Next]_vars

-----------------------------------------------------------------------------
(* Properties of the composition; those of the queries are in              *)
(* CatalogQueries.                                                         *)

\* No converter goes on without a Convert that waits for it, whichever call of
\* Convert fails, whatever resists the termination, and when the host is killed.
NoRunawayConverter ==
    process = "running" => up /\ step = "convert" /\ conv \in {"wait", "terminate", "close"}

\* A cover that was scaled is within the library's bounds, is no larger than it was,
\* not empty, and has kept its shape to within half a pixel; it is too many bytes
\* only where the smaller size was tried as well.
CoverFits ==
    cover.made = "jpg" =>
        LET image == CoverOf[Candidate]
            size  == cover.size
        IN  /\ HasPixels(size) /\ FitsIn(size, ManagedBounds) /\ FitsIn(size, image)
            /\ KeepsShape(size, image)
            /\ cover.inBudget \/ FitsIn(size, FallbackBounds)
=============================================================================
