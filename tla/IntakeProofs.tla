----------------------------- MODULE IntakeProofs -----------------------------
(***************************************************************************)
(* Theorems about Intake, and with it about CatalogQueries,                *)
(* ExternalBookConverter and CoverImages, for every set of books, queries, *)
(* options and covers.                                                     *)
(***************************************************************************)
EXTENDS Intake, FiniteSetTheorems, TLAPS

-----------------------------------------------------------------------------
(* The listing.                                                            *)

\* The statements of ListBooks, by number.
LEMMA PlanIs ==
    /\ Len(Plan) = 13 /\ Len(ReadOrder) = 4
    /\ Plan[1] = "search"
    /\ Plan[2] = "authors" /\ Plan[3] = "tags" /\ Plan[4] = "genres" /\ Plan[5] = "books"
    /\ Plan[6] = "count" /\ Plan[7] = "languages" /\ Plan[8] = "genreFacet"
    /\ Plan[9] = "key" /\ Plan[10] = "covers" /\ Plan[11] = "lookup" /\ Plan[12] = "query"
    /\ Plan[13] = "store"
<1> USE DEF Plan, ReadOrder, AfterPage, StatisticsOrder
<1>0. Len(Plan) = 13 /\ Len(ReadOrder) = 4
  OBVIOUS
<1>1. Plan[1] = "search"
  OBVIOUS
<1>2. Plan[2] = "authors"
  OBVIOUS
<1>3. Plan[3] = "tags"
  OBVIOUS
<1>4. Plan[4] = "genres"
  OBVIOUS
<1>5. Plan[5] = "books"
  OBVIOUS
<1>6. Plan[6] = "count"
  OBVIOUS
<1>7. Plan[7] = "languages"
  OBVIOUS
<1>8. Plan[8] = "genreFacet"
  OBVIOUS
<1>9. Plan[9] = "key"
  OBVIOUS
<1>10. Plan[10] = "covers"
  OBVIOUS
<1>11. Plan[11] = "lookup"
  OBVIOUS
<1>12. Plan[12] = "query"
  OBVIOUS
<1>13. Plan[13] = "store"
  OBVIOUS
<1> HIDE DEF Plan, ReadOrder, AfterPage, StatisticsOrder
<1>14. QED
  BY <1>0, <1>1, <1>2, <1>3, <1>4, <1>5, <1>6, <1>7, <1>8, <1>9, <1>10, <1>11, <1>12, <1>13

Fields == {"kind", "at", "query", "ids", "authors", "tags", "genres", "books", "count",
           "languages", "genreFacet", "key", "covers", "stats"}

\* A fresh listing.
LEMMA NoListingIs == DOMAIN NoListing = Fields /\ NoListing.kind = "none" /\ NoListing.ids = {}
  BY DEF NoListing, Fields

\* Learning.
LEMMA Learns ==
    ASSUME DOMAIN listing = Fields, NEW f \in Fields \ {"at", "kind", "query"}, NEW v, Learn(f, v)
    PROVE  /\ DOMAIN listing' = Fields
           /\ listing'.at = listing.at + 1 /\ listing'[f] = v
           /\ \A g \in Fields \ {"at", f} : listing'[g] = listing[g]
           /\ UNCHANGED <<rows, index, stamp, cache, during, indexed, search, met>>
  BY DEF Learn, Fields, catalogVars, searchVars

\* A listing has all its fields; a page is at one of the statements, or behind the last.
ListShape ==
    /\ DOMAIN listing = Fields /\ listing.kind \in {"none", "failed", "page"}
    /\ listing.kind = "page" => listing.at \in 1 .. 14 /\ listing.query \in Queries

\* Which statement is due tells how far the listing is.
LEMMA DoingAt ==
    ASSUME ListShape
    PROVE  /\ Reading <=> listing.kind = "page" /\ listing.at <= 13
           /\ Listed <=> listing.kind = "page" /\ listing.at = 14
           /\ \A s : Doing(s) => listing.kind = "page" /\ listing.at \in 1 .. 13
                                 /\ s = Plan[listing.at]
           /\ Doing("search") => listing.at = 1
           /\ Doing("authors") => listing.at = 2
           /\ Doing("tags") => listing.at = 3
           /\ Doing("genres") => listing.at = 4
           /\ Doing("books") => listing.at = 5
           /\ Doing("count") => listing.at = 6
           /\ Doing("languages") => listing.at = 7
           /\ Doing("genreFacet") => listing.at = 8
           /\ Doing("key") => listing.at = 9
           /\ Doing("covers") => listing.at = 10
           /\ Doing("lookup") => listing.at = 11
           /\ Doing("query") => listing.at = 12
           /\ Doing("store") => listing.at = 13
<1>1. Reading => listing.at \in 1 .. 13
  BY PlanIs DEF ListShape, Reading
<1>2. \A s : Doing(s) => Reading /\ s = Plan[listing.at]
  BY DEF Doing
<1>3. Reading <=> listing.kind = "page" /\ listing.at <= 13
  BY PlanIs DEF Reading
<1>4. Listed <=> listing.kind = "page" /\ listing.at = 14
  BY PlanIs DEF Listed, ListShape
<1>5. \A s : Doing(s) => listing.at \in 1 .. 13 /\ s = Plan[listing.at]
  BY <1>1, <1>2
<1>6. QED
  BY <1>1, <1>2, <1>3, <1>4, <1>5, PlanIs DEF Reading

-----------------------------------------------------------------------------
(* Books that never were in the catalog.                                   *)

Busy == step \in {"search", "convert", "cover", "store"}

\* The books that may still appear: each will do so once.
Unborn == ((Candidates \union Others) \ past) \union {c \in Candidates : Busy /\ c = Candidate}

\* No book that was seen is one of them.
BirthInv ==
    /\ ListShape
    /\ options \in Options
    /\ rows \subseteq Books \ Unborn
    /\ listing.ids \subseteq Books \ Unborn
    /\ Busy => Candidate \in Candidates \intersect past /\ "book" \in DOMAIN search
    /\ step = "search" => DOMAIN search = {"todo", "kind", "book", "matches"}

\* Nobody was seen before the start.
LEMMA BirthInit == Init => BirthInv
  BY NoListingIs, QueriesAssumption, IntakeAssumption
     DEF Init, QueriesInit, BirthInv, ListShape, Unborn, Busy, Statuses

\* A page holds books that are in the catalog.
LEMMA PageInCatalog ==
    ASSUME NEW q, NEW S, NEW I
    PROVE  SearchPage(q, S, I) \subseteq S
  BY DEF SearchPage, Matches

\* Each statement of ListBooks keeps the listing in shape.
LEMMA ListBooksShape ==
    ASSUME ListShape, ListBooks
    PROVE  /\ ListShape'
           /\ listing'.ids = listing.ids \/ listing'.ids \subseteq rows
           /\ UNCHANGED <<rows, index, compact, stamp, search, met>>
<1> USE DEF catalogVars, searchVars
<1>1. CASE AnswerList
  BY <1>1, NoListingIs DEF AnswerList, ListShape
<1>2. ASSUME NEW q \in Queries, BeginList(q) PROVE /\ ListShape'
                                                  /\ listing'.ids = {}
                                                  /\ UNCHANGED <<rows, index, compact, stamp, search, met>>
  <2>1. CASE Unsearchable(q)
    <3>1. listing' = [NoListing EXCEPT !.kind = "failed"]
      BY <1>2, <2>1 DEF BeginList
    <3>2. QED
      BY <1>2, <3>1, NoListingIs DEF BeginList, ListShape, Fields
  <2>2. CASE ~Unsearchable(q)
    <3>1. listing' = [NoListing EXCEPT !.kind = "page", !.at = 1, !.query = q]
      BY <1>2, <2>2 DEF BeginList
    <3>2. QED
      BY <1>2, <3>1, NoListingIs DEF BeginList, ListShape, Fields
  <2>3. QED
    BY <2>1, <2>2
<1>3. CASE Search
  <2>1. listing.at = 1 /\ listing.kind = "page"
    BY <1>3, DoingAt DEF Search
  <2>2. SearchPage(listing.query, rows, index) \subseteq rows
    BY PageInCatalog
  <2> DEFINE ids == SearchPage(listing.query, rows, index)
             n == IF ids # {} THEN 1 ELSE 1 + Len(ReadOrder)
  <2>3. listing' = [listing EXCEPT !.ids = ids, !.at = @ + n]
    BY <1>3 DEF Search
  <2>6. n \in {1, 5}
    BY PlanIs
  <2> HIDE DEF n, ids
  <2>4. ListShape' /\ listing'.ids = ids
    BY <2>1, <2>3, <2>6 DEF ListShape, Fields
  <2>5. QED
    BY <1>3, <2>2, <2>4 DEF Search, ids
<1>4. ASSUME NEW f \in Fields \ {"at", "kind", "query", "ids"}, NEW v, NEW s, Doing(s), Learn(f, v)
      PROVE /\ ListShape'
            /\ listing'.ids = listing.ids
            /\ UNCHANGED <<rows, index, compact, stamp, search, met>>
  <2>1. listing.at \in 1 .. 13 /\ listing.kind = "page"
    BY <1>4, DoingAt
  <2>2. /\ DOMAIN listing' = Fields /\ listing'.at = listing.at + 1
        /\ listing'.ids = listing.ids /\ listing'.kind = listing.kind
        /\ listing'.query = listing.query
    BY <1>4, Learns DEF ListShape, Fields
  <2>3. QED
    BY <1>4, <2>1, <2>2 DEF ListShape, Learn
<1>5. CASE ReadBooksById \/ CountSearchResults \/ ListAvailableLanguages
           \/ ListAvailableGenres \/ ReadStamp \/ GetCoverDirectorySnapshot \/ QueryTotals
  BY <1>4, <1>5
     DEF ReadBooksById, CountSearchResults, ListAvailableLanguages, ListAvailableGenres,
         ReadStamp, GetCoverDirectorySnapshot, QueryTotals, Fields, Relations
<1>6. CASE LookUp \/ StoreTotals
  <2>1. listing.at \in 1 .. 13 /\ listing.kind = "page"
    BY <1>6, DoingAt DEF LookUp, StoreTotals
  <2>2. \/ \E n : n \in 1 .. 14 /\ listing' = [listing EXCEPT !.at = n]
        \/ \E n : n \in 1 .. 14 /\ listing' = [listing EXCEPT !.at = n, !.stats = cache.stats]
    <3> DEFINE last == Len(Plan) + 1
    <3>0. last \in 1 .. 14
      BY PlanIs
    <3> HIDE DEF last
    <3>1. CASE StoreTotals
      <4>1. listing' = [listing EXCEPT !.at = last]
        BY <3>1 DEF StoreTotals, last
      <4>2. QED
        BY <3>0, <4>1
    <3>2. CASE LookUp /\ cache.kind = "kept" /\ cache.key = Key
      <4>1. listing' = [listing EXCEPT !.at = last, !.stats = cache.stats]
        BY <3>2 DEF LookUp, last
      <4>2. QED
        BY <3>0, <4>1
    <3>3. CASE LookUp /\ ~(cache.kind = "kept" /\ cache.key = Key)
      <4>1. listing' = [listing EXCEPT !.at = @ + 1]
        BY <3>3 DEF LookUp
      <4>2. listing' = [listing EXCEPT !.at = listing.at + 1] /\ listing.at + 1 \in 1 .. 14
        BY <2>1, <4>1
      <4>3. QED
        BY <4>2
    <3>4. QED
      BY <1>6, <3>1, <3>2, <3>3
  <2>3. ListShape' /\ listing'.ids = listing.ids
    BY <2>2 DEF ListShape, Fields
  <2>4. QED
    BY <1>6, <2>3 DEF LookUp, StoreTotals
<1>7. QED
  BY <1>1, <1>2, <1>3, <1>5, <1>6 DEF ListBooks

\* What a step does to the catalog, and to the listing.
LEMMA CatalogMoves ==
    ASSUME BirthInv, [Next]_vars
    PROVE  /\ options' = options
           /\ Unborn' \subseteq Unborn
           /\ (rows' \ rows) \subseteq Unborn \ Unborn'
           /\ Busy' => Candidate' \in Candidates \intersect past' /\ "book" \in DOMAIN search'
           /\ step' = "search" => DOMAIN search' = {"todo", "kind", "book", "matches"}
           /\ \/ ListBooks
              \/ Commit(rows', index')
              \/ UNCHANGED <<rows, index, stamp, listVars>>
<1>0. options' = options
  BY DEF Next, Worker, Begin, LookForDuplicates, Decide, ConvertBook, ResolveImportConversion,
         ResolveCover, Store, Browse, OtherImports, OtherRollsBack, OtherCompacts, Cancel,
         KillHost, ConverterRuns, importer, vars
<1>1. CASE Begin
  <2>1. PICK c \in options.files \ past : BeginSearch(c) /\ past' = past \union {c}
    BY <1>1 DEF Begin
  <2>2. c \in Candidates
    BY IntakeAssumption DEF BirthInv
  <2>3. QED
    BY <1>0, <1>1, <2>1, <2>2
       DEF Begin, BeginSearch, Unborn, Busy, Statuses, Candidate, catalogVars, BirthInv
<1>2. CASE LookForDuplicates
  <2>1. /\ UNCHANGED <<rows, index, stamp, listVars>> /\ DOMAIN search' = DOMAIN search
        /\ search'.book = search.book /\ Busy
    BY <1>2 DEF LookForDuplicates, FindDuplicates, Report, BirthInv, Busy, catalogVars
  <2>2. QED
    BY <1>0, <1>2, <2>1 DEF LookForDuplicates, importer, Unborn, Busy, Candidate, catalogVars, BirthInv
<1>3. CASE Decide
  <2>1. /\ UNCHANGED <<rows, index, stamp, listVars, past>> /\ search'.book = search.book /\ Busy
        /\ "book" \in DOMAIN search'
    BY <1>3 DEF Decide, EndSearch, Busy, catalogVars
  <2>2. step' # "search"
    BY <1>3 DEF Decide, PlanImportConversion
  <2>3. QED
    BY <1>0, <2>1, <2>2 DEF Unborn, Busy, Candidate, catalogVars, BirthInv
<1>4. CASE ConvertBook \/ ResolveImportConversion \/ ResolveCover
  <2>1. UNCHANGED <<rows, index, stamp, listVars, past, search>> /\ Busy
    BY <1>4 DEF ConvertBook, ResolveImportConversion, ResolveCover, Busy, queryVars, catalogVars,
                searchVars, importer
  <2>2. step' # "search"
    BY <1>4 DEF ConvertBook, ResolveImportConversion, ResolveCover, importer
  <2>3. QED
    BY <1>0, <2>1, <2>2 DEF Unborn, Busy, Candidate, catalogVars, BirthInv
<1>5. CASE Store
  <2>1. past' = past /\ search' = search /\ ~Busy' /\ Busy
    BY <1>5 DEF Store, Busy, queryVars, searchVars, AddBook, Commit
  <2>2. \/ UNCHANGED <<rows, index, stamp, listVars>>
        \/ Commit(rows', index') /\ rows' = rows \union {Candidate}
    BY <1>5 DEF Store, queryVars, catalogVars, AddBook, Commit
  <2>3. QED
    <3>1. step' # "search"
      BY <2>1 DEF Busy
    <3>2. Candidate' = Candidate /\ Candidate \in Candidates \intersect past
      BY <2>1 DEF Candidate, BirthInv
    <3>3. Unborn' = Unborn \ {Candidate}
      BY <2>1, <3>2 DEF Unborn
    <3>4. rows' \ rows \subseteq Unborn \ Unborn'
      BY <2>1, <2>2, <3>2, <3>3 DEF Unborn, catalogVars
    <3>5. QED
      BY <1>0, <2>1, <2>2, <3>1, <3>3, <3>4
<1>6. CASE Browse
  BY <1>0, <1>6, ListBooksShape DEF Browse, importer, Unborn, Busy, Candidate, BirthInv
<1>7. CASE OtherImports
  <2>1. PICK b \in Others \ past :
            Commit(rows', index') /\ rows' = rows \union {b} /\ past' = past \union {b}
    BY <1>7 DEF OtherImports, AddBook, Commit
  <2>2. step' = step /\ search' = search
    BY <1>7 DEF OtherImports, AddBook, Commit
  <2>3. QED
    BY <1>0, <2>1, <2>2 DEF Unborn, Busy, Candidate, BirthInv
<1>8. CASE OtherRollsBack \/ OtherCompacts
  <2>1. rows' \subseteq rows /\ UNCHANGED <<past, step, search>>
    BY <1>8 DEF OtherRollsBack, OtherCompacts, RemoveBatch, Compact, WipeIndex,
                InsertBook, Vacuum, CompactFails, Commit, importer, searchVars
  <2>2. \/ Commit(rows', index')
        \/ UNCHANGED <<rows, index, stamp, listVars>>
    BY <1>8 DEF OtherRollsBack, OtherCompacts, RemoveBatch, Compact, WipeIndex, InsertBook,
                Vacuum, CompactFails, Commit
  <2>3. QED
    BY <1>0, <2>1, <2>2 DEF Unborn, Busy, Candidate, BirthInv
<1>9. CASE Cancel \/ KillHost \/ ConverterRuns \/ UNCHANGED vars
  <2>1. UNCHANGED <<rows, index, stamp, listVars, past, step, search>>
    BY <1>9 DEF catalogVars, Cancel, KillHost, ConverterRuns, vars, queryVars, searchVars, importer
  <2>2. QED
    BY <1>0, <2>1 DEF Unborn, Busy, Candidate, catalogVars, BirthInv
<1>10. QED
  BY <1>0, <1>1, <1>2, <1>3, <1>4, <1>5, <1>6, <1>7, <1>8, <1>9 DEF Next, Worker

\* Every step keeps the unborn out of sight.
LEMMA BirthNext == BirthInv /\ [Next]_vars => BirthInv'
<1> SUFFICES ASSUME BirthInv, [Next]_vars PROVE BirthInv'
  OBVIOUS
<1>1. rows' \subseteq Books \ Unborn'
  <2>1. Unborn \subseteq Books
    BY IntakeAssumption DEF Unborn
  <2>2. QED
    BY <2>1, CatalogMoves DEF BirthInv
<1>2. ListShape' /\ (listing'.ids = listing.ids \/ listing'.ids \subseteq rows)
  <2>1. CASE ListBooks
    BY <2>1, ListBooksShape DEF BirthInv
  <2>2. CASE listing' = listing
    BY <2>2 DEF BirthInv, ListShape
  <2>3. QED
    BY <2>1, <2>2, CatalogMoves DEF Commit, listVars
<1>3. QED
  BY <1>1, <1>2, CatalogMoves DEF BirthInv

-----------------------------------------------------------------------------
(* The page.                                                               *)

\* What is known of a page was true of one of the catalogs since it was begun; and a
\* relation that was read has every book of the page that is still there.
PageInv ==
    listing.kind = "page" =>
        /\ during \subseteq SUBSET Books
        /\ listing.at <= 13 => rows \in during /\ index \in indexed
        /\ listing.at > 1 =>
              \E S \in during, I \in indexed : listing.ids = SearchPage(listing.query, S, I)
        /\ listing.at \in 3 .. 5 => listing.ids \intersect rows \subseteq listing.authors
        /\ listing.at \in 4 .. 5 => listing.ids \intersect rows \subseteq listing.tags
        /\ listing.at = 5 => listing.ids \intersect rows \subseteq listing.genres
        /\ listing.at > 5 =>
              /\ Shown \subseteq listing.authors \intersect listing.tags \intersect listing.genres
              /\ \E S \in during : Shown = listing.ids \intersect S
        /\ listing.at > 6 => \E S \in during, I \in indexed :
              listing.count = Cardinality(Matches(listing.query, S, I))
        /\ listing.at > 7 => \E S \in during, I \in indexed :
              listing.languages = AvailableLanguages(listing.query, S, I)
        /\ listing.at > 8 => \E S \in during, I \in indexed :
              listing.genreFacet = AvailableGenres(listing.query, S, I)

\* There is no page at the start.
LEMMA PageInit == Init => PageInv
  BY NoListingIs DEF Init, QueriesInit, PageInv

\* Each statement of ListBooks keeps it true.
LEMMA ListBooksTrue ==
    ASSUME BirthInv, PageInv, ListBooks
    PROVE  PageInv'
<1> USE DEF ListShape
<1>0. ListShape /\ ListShape' /\ rows' = rows /\ index' = index /\ rows \subseteq Books
  BY ListBooksShape DEF BirthInv
<1>1. CASE AnswerList
  BY <1>1, NoListingIs DEF AnswerList, PageInv
<1>2. ASSUME NEW q \in Queries, BeginList(q) PROVE PageInv'
  <2>1. CASE Unsearchable(q)
    <3>1. listing' = [NoListing EXCEPT !.kind = "failed"]
      BY <1>2, <2>1 DEF BeginList
    <3>2. QED
      BY <3>1, NoListingIs DEF PageInv, Fields
  <2>2. CASE ~Unsearchable(q)
    <3>1. listing' = [NoListing EXCEPT !.kind = "page", !.at = 1, !.query = q]
          /\ during' = {rows} /\ indexed' = {index}
      BY <1>2, <2>2 DEF BeginList
    <3>2. listing'.at = 1
      BY <3>1, NoListingIs DEF Fields
    <3>3. QED
      BY <1>0, <3>1, <3>2 DEF PageInv
  <2>3. QED
    BY <2>1, <2>2
<1>3. CASE Search
  <2>1. listing.at = 1 /\ listing.kind = "page"
    BY <1>0, <1>3, DoingAt DEF Search
  <2> DEFINE ids == SearchPage(listing.query, rows, index)
             n == IF ids # {} THEN 1 ELSE 1 + Len(ReadOrder)
  <2>2. listing' = [listing EXCEPT !.ids = ids, !.at = @ + n] /\ during' = during /\ indexed' = indexed
    BY <1>3 DEF Search
  <2>3. n \in {1, 5} /\ (n = 5 => ids = {})
    BY PlanIs
  <2> HIDE DEF n, ids
  <2>4. /\ listing'.ids = ids /\ listing'.at = 1 + n /\ listing'.query = listing.query
        /\ listing'.books = listing.books
    BY <1>0, <2>1, <2>2 DEF Fields
  <2>5. during \subseteq SUBSET Books /\ rows \in during /\ index \in indexed
    BY <2>1 DEF PageInv
  <2>6. n = 5 => Shown' = {}
    BY <2>3, <2>4 DEF Shown
  <2>7. QED
    BY <1>0, <2>2, <2>3, <2>4, <2>5, <2>6 DEF PageInv, ids
<1>4. CASE ReadBooksById
  <2>1. PICK r \in Relations \union {"books"} :
            Doing(r) /\ Learn(r, listing.ids \intersect rows)
    BY <1>4 DEF ReadBooksById
  <2>2. /\ listing'.at = listing.at + 1 /\ listing'[r] = listing.ids \intersect rows
        /\ \A g \in Fields \ {"at", r} : listing'[g] = listing[g]
        /\ during' = during /\ indexed' = indexed
    BY <1>0, <2>1, Learns DEF Relations, Fields, Learn
  <2>3. listing'.ids = listing.ids /\ listing'.query = listing.query /\ listing'.kind = listing.kind
    BY <2>1, <2>2 DEF Relations, Fields
  <2>4. listing.kind = "page" /\ listing.at \in 1 .. 13
    BY <1>0, <2>1, DoingAt
  <2>5. CASE r = "authors"
    <3>1. listing.at = 2 /\ listing'.authors = listing.ids \intersect rows
      BY <1>0, <2>1, <2>2, <2>5, DoingAt
    <3>2. QED
      BY <1>0, <2>2, <2>3, <2>4, <3>1 DEF PageInv
  <2>6. CASE r = "tags"
    <3>1. listing.at = 3 /\ listing'.tags = listing.ids \intersect rows
          /\ listing'.authors = listing.authors
      BY <1>0, <2>1, <2>2, <2>6, DoingAt DEF Fields
    <3>2. QED
      BY <1>0, <2>2, <2>3, <2>4, <3>1 DEF PageInv
  <2>7. CASE r = "genres"
    <3>1. listing.at = 4 /\ listing'.genres = listing.ids \intersect rows
          /\ listing'.authors = listing.authors /\ listing'.tags = listing.tags
      BY <1>0, <2>1, <2>2, <2>7, DoingAt DEF Fields
    <3>2. QED
      BY <1>0, <2>2, <2>3, <2>4, <3>1 DEF PageInv
  <2>8. CASE r = "books"
    <3>1. listing.at = 5 /\ listing'.books = listing.ids \intersect rows
          /\ listing'.authors = listing.authors /\ listing'.tags = listing.tags
          /\ listing'.genres = listing.genres
      BY <1>0, <2>1, <2>2, <2>8, DoingAt DEF Fields
    <3>2. Shown' = listing.ids \intersect rows
      BY <2>3, <3>1 DEF Shown
    <3>3. QED
      BY <1>0, <2>2, <2>3, <2>4, <3>1, <3>2 DEF PageInv
  <2>9. QED
    BY <2>1, <2>5, <2>6, <2>7, <2>8 DEF Relations
<1>5. ASSUME NEW f \in {"count", "languages", "genreFacet", "key", "covers", "stats"}, NEW v,
             NEW s, Doing(s), Learn(f, v)
      PROVE  /\ listing'.at = listing.at + 1 /\ listing'[f] = v /\ during' = during /\ indexed' = indexed
             /\ \A g \in Fields \ {"at", f} : listing'[g] = listing[g]
             /\ listing'.ids = listing.ids /\ listing'.query = listing.query
             /\ listing'.kind = listing.kind /\ Shown' = Shown
             /\ listing'.authors = listing.authors /\ listing'.tags = listing.tags
             /\ listing'.genres = listing.genres
             /\ listing.kind = "page" /\ listing.at \in 1 .. 13
  <2>1. /\ listing'.at = listing.at + 1 /\ listing'[f] = v /\ during' = during /\ indexed' = indexed
        /\ \A g \in Fields \ {"at", f} : listing'[g] = listing[g]
    BY <1>0, <1>5, Learns DEF Fields, Learn
  <2>2. /\ listing'.ids = listing.ids /\ listing'.query = listing.query
        /\ listing'.kind = listing.kind /\ listing'.books = listing.books
        /\ listing'.authors = listing.authors /\ listing'.tags = listing.tags
        /\ listing'.genres = listing.genres
    BY <2>1 DEF Fields
  <2>3. listing.kind = "page" /\ listing.at \in 1 .. 13
    BY <1>0, <1>5, DoingAt
  <2>4. QED
    BY <2>1, <2>2, <2>3 DEF Shown
<1>6. CASE CountSearchResults
  <2>1. listing.at = 6
    BY <1>0, <1>6, DoingAt DEF CountSearchResults
  <2>2. QED
    BY <1>0, <1>5, <1>6, <2>1 DEF CountSearchResults, PageInv
<1>7. CASE ListAvailableLanguages
  <2>1. listing.at = 7
    BY <1>0, <1>7, DoingAt DEF ListAvailableLanguages
  <2>2. listing'.count = listing.count
    BY <1>5, <1>7 DEF ListAvailableLanguages, Fields
  <2>3. QED
    BY <1>0, <1>5, <1>7, <2>1, <2>2 DEF ListAvailableLanguages, PageInv
<1>8. CASE ListAvailableGenres
  <2>1. listing.at = 8
    BY <1>0, <1>8, DoingAt DEF ListAvailableGenres
  <2>2. listing'.count = listing.count /\ listing'.languages = listing.languages
    BY <1>5, <1>8 DEF ListAvailableGenres, Fields
  <2>3. QED
    BY <1>0, <1>5, <1>8, <2>1, <2>2 DEF ListAvailableGenres, PageInv
<1>9. ASSUME listing.kind = "page", listing.at \in 9 .. 13, listing'.kind = listing.kind,
             listing'.at \in 9 .. 14, during' = during, indexed' = indexed, listing'.ids = listing.ids,
             listing'.query = listing.query, listing'.books = listing.books,
             listing'.authors = listing.authors, listing'.tags = listing.tags,
             listing'.genres = listing.genres, listing'.count = listing.count,
             listing'.languages = listing.languages, listing'.genreFacet = listing.genreFacet
      PROVE  PageInv'
  <2>1. Shown' = Shown
    BY <1>9 DEF Shown
  <2>2. QED
    BY <1>0, <1>9, <2>1 DEF PageInv
<1>10. CASE ReadStamp \/ GetCoverDirectorySnapshot \/ QueryTotals
  <2>1. ASSUME NEW f \in {"key", "covers", "stats"}, NEW v, NEW s \in {"key", "covers", "query"},
               Doing(s), Learn(f, v)
        PROVE  PageInv'
    <3>1. listing.at \in 9 .. 13
      BY <1>0, <2>1, DoingAt
    <3>2. /\ listing'.count = listing.count /\ listing'.languages = listing.languages
          /\ listing'.genreFacet = listing.genreFacet /\ listing'.books = listing.books
      BY <1>5, <2>1 DEF Fields
    <3>3. QED
      BY <1>5, <1>9, <2>1, <3>1, <3>2
  <2>2. QED
    BY <1>10, <2>1 DEF ReadStamp, GetCoverDirectorySnapshot, QueryTotals
<1>11. CASE LookUp \/ StoreTotals
  <2>1. listing.kind = "page" /\ listing.at \in 9 .. 13 /\ during' = during /\ indexed' = indexed
    BY <1>0, <1>11, DoingAt DEF LookUp, StoreTotals
  <2>2. Len(Plan) + 1 = 14
    BY PlanIs
  <2>3. \E n \in 9 .. 14 : \/ listing' = [listing EXCEPT !.at = n]
                           \/ \E v : listing' = [listing EXCEPT !.at = n, !.stats = v]
    <3> DEFINE last == Len(Plan) + 1
    <3>1. last \in 9 .. 14 /\ listing.at + 1 \in 9 .. 14
      BY <2>1, <2>2
    <3>2. CASE StoreTotals
      <4>1. listing' = [listing EXCEPT !.at = last]
        BY <3>2 DEF StoreTotals
      <4> HIDE DEF last
      <4>2. QED
        BY <3>1, <4>1
    <3>3. CASE LookUp /\ cache.kind = "kept" /\ cache.key = Key
      <4>1. listing' = [listing EXCEPT !.at = last, !.stats = cache.stats]
        BY <3>3 DEF LookUp
      <4> HIDE DEF last
      <4>2. QED
        BY <3>1, <4>1
    <3>4. CASE LookUp /\ ~(cache.kind = "kept" /\ cache.key = Key)
      <4>1. listing' = [listing EXCEPT !.at = listing.at + 1]
        BY <3>4 DEF LookUp
      <4>2. QED
        BY <3>1, <4>1
    <3>5. QED
      BY <1>11, <3>2, <3>3, <3>4
  <2>4. /\ listing'.at \in 9 .. 14 /\ listing'.kind = listing.kind
        /\ listing'.ids = listing.ids /\ listing'.query = listing.query
        /\ listing'.books = listing.books /\ listing'.authors = listing.authors
        /\ listing'.tags = listing.tags /\ listing'.genres = listing.genres
        /\ listing'.count = listing.count /\ listing'.languages = listing.languages
        /\ listing'.genreFacet = listing.genreFacet
    BY <1>0, <2>3 DEF Fields
  <2>5. QED
    BY <1>9, <2>1, <2>4
<1>12. QED
  BY <1>1, <1>2, <1>3, <1>4, <1>6, <1>7, <1>8, <1>10, <1>11 DEF ListBooks

\* Every step keeps it true.
LEMMA PageNext == BirthInv /\ PageInv /\ [Next]_vars => PageInv'
<1> SUFFICES ASSUME BirthInv, PageInv, [Next]_vars PROVE PageInv'
  OBVIOUS
<1>1. CASE ListBooks
  BY <1>1, ListBooksTrue
<1>2. CASE Commit(rows', index')
  <2>1. listing' = listing /\ Shown' = Shown /\ rows' \subseteq Books
    BY <1>2, BirthNext DEF Commit, Shown, BirthInv
  <2>2. listing.ids \intersect rows' \subseteq rows
    BY CatalogMoves DEF BirthInv
  <2>3. CASE listing.kind = "page" /\ listing.at <= 13
    <3>1. during' = during \union {rows'} /\ indexed' = indexed \union {index'}
      BY <1>2, <2>3, DoingAt DEF Commit, BirthInv
    <3>2. QED
      BY <2>1, <2>2, <2>3, <3>1 DEF PageInv
  <2>4. CASE ~(listing.kind = "page" /\ listing.at <= 13)
    <3>1. during' = during /\ indexed' = indexed
      BY <1>2, <2>4, DoingAt DEF Commit, BirthInv
    <3>2. QED
      BY <2>1, <2>4, <3>1 DEF PageInv, BirthInv, ListShape
  <2>5. QED
    BY <2>3, <2>4
<1>3. CASE UNCHANGED <<rows, index, stamp, listVars>>
  <2>1. rows' = rows /\ index' = index /\ listing' = listing /\ during' = during /\ indexed' = indexed /\ Shown' = Shown
    BY <1>3 DEF listVars, Shown
  <2>2. QED
    BY <2>1 DEF PageInv
<1>4. QED
  BY <1>1, <1>2, <1>3, CatalogMoves

-----------------------------------------------------------------------------
(* The statistics.                                                         *)

\* A key is taken before the statistics it is kept with; while no commit has changed
\* the files it was taken of, the statistics are those of the catalog as it is.
StatsInv ==
    /\ stamp \in Nat
    /\ cache.kind = "kept" =>
          /\ cache.key[1] \in Nat /\ cache.key[1] <= stamp
          /\ cache.key[1] = stamp => cache.stats = Totals(rows)
    /\ listing.kind = "page" =>
          /\ listing.at <= 13 => rows \in during
          /\ listing.at \in 10 .. 13 =>
                /\ listing.key \in Nat /\ listing.key <= stamp
                /\ cache.kind = "kept" /\ cache.key[1] = listing.key =>
                      \E S \in during : cache.stats = Totals(S)
          /\ listing.at = 13 /\ listing.key = stamp => listing.stats = Totals(rows)
          /\ listing.at > 12 => \E S \in during : listing.stats = Totals(S)

\* Nothing is kept at the start.
LEMMA StatsInit == Init => StatsInv
  BY NoListingIs DEF Init, QueriesInit, StatsInv

\* Each statement of ListBooks keeps it true.
LEMMA ListBooksCounts ==
    ASSUME BirthInv, StatsInv, ListBooks
    PROVE  StatsInv'
<1>0. ListShape /\ ListShape' /\ rows' = rows /\ stamp' = stamp /\ DOMAIN listing = Fields
  BY ListBooksShape DEF BirthInv, ListShape
<1>1. CASE AnswerList
  BY <1>0, <1>1, NoListingIs DEF AnswerList, StatsInv
<1>2. ASSUME NEW q \in Queries, BeginList(q) PROVE StatsInv'
  <2>1. CASE Unsearchable(q)
    <3>1. listing' = [NoListing EXCEPT !.kind = "failed"] /\ cache' = cache
      BY <1>2, <2>1 DEF BeginList
    <3>2. listing'.kind = "failed"
      BY <3>1, NoListingIs DEF Fields
    <3>3. QED
      BY <1>0, <3>1, <3>2 DEF StatsInv
  <2>2. CASE ~Unsearchable(q)
    <3>1. /\ listing' = [NoListing EXCEPT !.kind = "page", !.at = 1, !.query = q]
          /\ during' = {rows} /\ cache' = cache
      BY <1>2, <2>2 DEF BeginList
    <3>2. listing'.at = 1
      BY <3>1, NoListingIs DEF Fields
    <3>3. QED
      BY <1>0, <3>1, <3>2 DEF StatsInv
  <2>3. QED
    BY <2>1, <2>2
<1>3. ASSUME listing.kind = "page", listing.at <= 8, listing'.at <= 9, during' = during,
             cache' = cache
      PROVE  StatsInv'
  BY <1>0, <1>3 DEF StatsInv, ListShape
<1>4. CASE Search
  <2>1. listing.at = 1 /\ listing.kind = "page"
    BY <1>0, <1>4, DoingAt DEF Search
  <2> DEFINE ids == SearchPage(listing.query, rows, index)
             n == IF ids # {} THEN 1 ELSE 1 + Len(ReadOrder)
  <2>2. listing' = [listing EXCEPT !.ids = ids, !.at = @ + n] /\ during' = during /\ indexed' = indexed /\ cache' = cache
    BY <1>4 DEF Search
  <2>3. n \in {1, 5}
    BY PlanIs
  <2> HIDE DEF n, ids
  <2>4. listing'.at = 1 + n
    BY <1>0, <2>1, <2>2 DEF Fields
  <2>5. QED
    BY <1>3, <2>1, <2>2, <2>3, <2>4
<1>5. ASSUME NEW f \in Fields \ {"at", "kind", "query", "ids"}, NEW v, NEW s, Doing(s), Learn(f, v)
      PROVE  /\ listing'.at = listing.at + 1 /\ listing'[f] = v /\ during' = during /\ indexed' = indexed
             /\ \A g \in Fields \ {"at", f} : listing'[g] = listing[g]
             /\ listing'.kind = listing.kind /\ cache' = cache
             /\ listing.kind = "page" /\ listing.at \in 1 .. 13
  <2>1. listing.kind = "page" /\ listing.at \in 1 .. 13
    BY <1>0, <1>5, DoingAt
  <2>2. /\ listing'.at = listing.at + 1 /\ listing'[f] = v /\ during' = during /\ indexed' = indexed /\ cache' = cache
        /\ \A g \in Fields \ {"at", f} : listing'[g] = listing[g]
    BY <1>0, <1>5, Learns DEF Learn
  <2>3. QED
    BY <2>1, <2>2 DEF Fields
<1>6. ASSUME NEW f \in Fields \ {"at", "kind", "query", "ids"}, NEW v,
             NEW s \in {"authors", "tags", "genres", "books", "count", "languages", "genreFacet"},
             Doing(s), Learn(f, v)
      PROVE  StatsInv'
  <2>1. listing.at <= 8
    BY <1>0, <1>6, DoingAt
  <2>2. QED
    BY <1>3, <1>5, <1>6, <2>1
<1>7. CASE ReadBooksById \/ CountSearchResults \/ ListAvailableLanguages \/ ListAvailableGenres
  BY <1>6, <1>7
     DEF ReadBooksById, CountSearchResults, ListAvailableLanguages, ListAvailableGenres,
         Relations, Fields
<1>8. CASE ReadStamp
  <2>1. Doing("key") /\ Learn("key", stamp) /\ listing.at = 9
    BY <1>0, <1>8, DoingAt DEF ReadStamp
  <2>2. /\ listing'.at = 10 /\ listing'.key = stamp /\ listing.kind = "page"
        /\ listing'.kind = "page" /\ during' = during /\ indexed' = indexed /\ cache' = cache
    BY <1>5, <2>1 DEF Fields
  <2>3. QED
    BY <1>0, <2>1, <2>2 DEF StatsInv
<1>9. CASE GetCoverDirectorySnapshot
  <2>1. Doing("covers") /\ Learn("covers", Covers(rows)) /\ listing.at = 10
    BY <1>0, <1>9, DoingAt DEF GetCoverDirectorySnapshot
  <2>2. /\ listing'.at = 11 /\ listing'.key = listing.key /\ listing.kind = "page"
        /\ listing'.kind = "page" /\ during' = during /\ indexed' = indexed /\ cache' = cache
    BY <1>5, <2>1 DEF Fields
  <2>3. QED
    BY <1>0, <2>1, <2>2 DEF StatsInv
<1>10. CASE LookUp /\ cache.kind = "kept" /\ cache.key = Key
  <2>1. listing.at = 11 /\ listing.kind = "page" /\ Len(Plan) + 1 = 14
    BY <1>0, <1>10, DoingAt, PlanIs DEF LookUp
  <2> DEFINE last == Len(Plan) + 1
  <2>2. /\ listing' = [listing EXCEPT !.at = last, !.stats = cache.stats]
        /\ during' = during /\ indexed' = indexed /\ cache' = cache
    BY <1>10 DEF LookUp
  <2>3. last = 14
    BY <2>1
  <2> HIDE DEF last
  <2>4. listing'.at = 14 /\ listing'.stats = cache.stats /\ listing'.kind = "page"
    BY <1>0, <2>1, <2>2, <2>3 DEF Fields
  <2>5. cache.key[1] = listing.key
    BY <1>10 DEF Key
  <2>6. \E S \in during : cache.stats = Totals(S)
    BY <1>10, <2>1, <2>5 DEF StatsInv
  <2>7. QED
    BY <1>0, <2>1, <2>2, <2>4, <2>6 DEF StatsInv
<1>11. CASE LookUp /\ ~(cache.kind = "kept" /\ cache.key = Key)
  <2>1. listing.at = 11 /\ listing.kind = "page"
    BY <1>0, <1>11, DoingAt DEF LookUp
  <2>2. listing' = [listing EXCEPT !.at = @ + 1] /\ during' = during /\ indexed' = indexed /\ cache' = cache
    BY <1>11 DEF LookUp
  <2>3. listing'.at = 12 /\ listing'.key = listing.key /\ listing'.kind = "page"
    BY <1>0, <2>1, <2>2 DEF Fields
  <2>4. QED
    BY <1>0, <2>1, <2>2, <2>3 DEF StatsInv
<1>12. CASE QueryTotals
  <2>1. Doing("query") /\ Learn("stats", Totals(rows)) /\ listing.at = 12
    BY <1>0, <1>12, DoingAt DEF QueryTotals
  <2>2. /\ listing'.at = 13 /\ listing'.key = listing.key /\ listing'.stats = Totals(rows)
        /\ listing.kind = "page" /\ listing'.kind = "page" /\ during' = during /\ indexed' = indexed /\ cache' = cache
    BY <1>5, <2>1 DEF Fields
  <2>3. QED
    BY <1>0, <2>1, <2>2 DEF StatsInv
<1>13. CASE StoreTotals
  <2>1. listing.at = 13 /\ listing.kind = "page" /\ Len(Plan) + 1 = 14
    BY <1>0, <1>13, DoingAt, PlanIs DEF StoreTotals
  <2>2. /\ listing' = [listing EXCEPT !.at = 14] /\ during' = during /\ indexed' = indexed
        /\ cache' = [kind |-> "kept", key |-> Key, stats |-> listing.stats]
    BY <1>13, <2>1 DEF StoreTotals
  <2>3. listing'.at = 14 /\ listing'.stats = listing.stats /\ listing'.kind = "page"
    BY <1>0, <2>1, <2>2 DEF Fields
  <2>4. cache'.key[1] = listing.key /\ cache'.stats = listing.stats
    BY <2>2 DEF Key
  <2>5. QED
    BY <1>0, <2>1, <2>2, <2>3, <2>4 DEF StatsInv
<1>14. QED
  BY <1>1, <1>2, <1>4, <1>7, <1>8, <1>9, <1>10, <1>11, <1>12, <1>13 DEF ListBooks

\* Every step keeps it true.
LEMMA StatsNext == BirthInv /\ StatsInv /\ [Next]_vars => StatsInv'
<1> SUFFICES ASSUME BirthInv, StatsInv, [Next]_vars PROVE StatsInv'
  OBVIOUS
<1>1. CASE ListBooks
  BY <1>1, ListBooksCounts
<1>2. CASE Commit(rows', index')
  <2>1. listing' = listing /\ cache' = cache /\ stamp' = stamp + 1
    BY <1>2 DEF Commit
  <2>2. CASE listing.kind = "page" /\ listing.at <= 13
    <3>1. during' = during \union {rows'}
      BY <1>2, <2>2, DoingAt DEF Commit, BirthInv
    <3>2. QED
      BY <2>1, <2>2, <3>1 DEF StatsInv
  <2>3. CASE ~(listing.kind = "page" /\ listing.at <= 13)
    <3>1. during' = during /\ indexed' = indexed
      BY <1>2, <2>3, DoingAt DEF Commit, BirthInv
    <3>2. QED
      BY <2>1, <2>3, <3>1 DEF StatsInv, BirthInv, ListShape
  <2>4. QED
    BY <2>2, <2>3
<1>3. CASE UNCHANGED <<rows, index, stamp, listVars>>
  <2>1. UNCHANGED <<rows, stamp, listing, cache, during>>
    BY <1>3 DEF listVars
  <2>2. QED
    BY <2>1 DEF StatsInv
<1>4. QED
  BY <1>1, <1>2, <1>3, CatalogMoves

\* The statistics of a page are those of the catalog at a moment between the first
\* and the last of its statements, for all interleavings of commits and pages.
THEOREM StatisticsAreCurrent == Spec => []StatisticsCurrent
<1>1. BirthInv /\ StatsInv => StatisticsCurrent
  BY DoingAt DEF StatsInv, StatisticsCurrent, BirthInv
<1>2. QED
  BY BirthInit, BirthNext, StatsInit, StatsNext, <1>1, PTL DEF Spec

-----------------------------------------------------------------------------
(* The length of a page.                                                   *)

\* The place of a book among the others: no two have the same, and none is left out.
LEMMA Ranks ==
    ASSUME NEW q, NEW M, IsFiniteSet(M), M \subseteq Books, q.place \in [Books -> Nat],
           IsInjective(q.place)
    PROVE  /\ Cardinality(M) \in Nat
           /\ [b \in M |-> Rank(q, M, b)] \in Bijection(M, 0 .. (Cardinality(M) - 1))
<1> DEFINE n == Cardinality(M)
           Below(b) == {c \in M : q.place[c] < q.place[b]}
           r == [b \in M |-> Rank(q, M, b)]
<1>1. n \in Nat
  BY FS_CardinalityType
<1>2. ASSUME NEW b \in M
      PROVE  IsFiniteSet(Below(b)) /\ Cardinality(Below(b)) \in 0 .. (n - 1) /\ b \notin Below(b)
  <2>1. Below(b) \subseteq M \ {b} /\ b \notin Below(b)
    OBVIOUS
  <2>2. IsFiniteSet(M \ {b}) /\ Cardinality(M \ {b}) = n - 1
    BY FS_RemoveElement
  <2>3. IsFiniteSet(Below(b)) /\ Cardinality(Below(b)) <= n - 1
    BY <2>1, <2>2, FS_Subset
  <2>4. Cardinality(Below(b)) \in Nat
    BY <2>3, FS_CardinalityType
  <2>5. QED
    BY <1>1, <2>1, <2>3, <2>4
<1>3. \A b \in M : r[b] = Cardinality(Below(b))
  BY DEF Rank
<1>4. ASSUME NEW b \in M, NEW c \in M, q.place[b] < q.place[c]
      PROVE  r[b] < r[c]
  <2>1. Below(b) \union {b} \subseteq Below(c)
    BY <1>4
  <2>2. Cardinality(Below(b) \union {b}) = Cardinality(Below(b)) + 1
    BY <1>2, FS_AddElement
  <2>3. Cardinality(Below(b) \union {b}) <= Cardinality(Below(c))
    BY <1>2, <2>1, FS_Subset
  <2>4. Cardinality(Below(b)) \in Nat /\ Cardinality(Below(c)) \in Nat
    BY <1>2, FS_CardinalityType
  <2>5. QED
    BY <1>3, <2>2, <2>3, <2>4
<1>5. r \in [M -> 0 .. (n - 1)]
  BY <1>2, <1>3
<1>6. ASSUME NEW b \in M, NEW c \in M, r[b] = r[c] PROVE b = c
  <2>1. r[b] \in Nat /\ r[c] \in Nat /\ q.place[b] \in Nat /\ q.place[c] \in Nat
    BY <1>1, <1>5
  <2>2. ~(q.place[b] < q.place[c]) /\ ~(q.place[c] < q.place[b])
    BY <1>4, <1>6, <2>1
  <2>3. q.place[b] = q.place[c]
    BY <2>1, <2>2
  <2>4. QED
    BY <2>3 DEF IsInjective
<1> HIDE DEF r, n
<1>7. r \in Injection(M, 0 .. (n - 1))
  BY <1>5, <1>6 DEF Injection, IsInjective
<1>8. IsFiniteSet(0 .. (n - 1)) /\ Cardinality(0 .. (n - 1)) = n
  <2>1. 0 \in Int /\ n - 1 \in Int
    BY <1>1
  <2>2. QED
    BY <1>1, <2>1, FS_Interval
<1>9. r \in Surjection(M, 0 .. (n - 1))
  BY <1>7, <1>8, FS_Injection DEF n
<1>10. QED
  BY <1>1, <1>7, <1>9 DEF Bijection, n, r

\* As many books are on a page as are left behind the offset, up to the limit.
LEMMA PageLength ==
    ASSUME NEW q \in Queries, NEW S, S \subseteq Books, NEW I
    PROVE  LET count == Cardinality(Matches(q, S, I))
               rest  == Max({count, q.offset}) - q.offset
           IN  Cardinality(SearchPage(q, S, I)) = Min({rest, q.limit})
<1> DEFINE M == Matches(q, S, I)
           n == Cardinality(M)
           r == [b \in M |-> Rank(q, M, b)]
           P == SearchPage(q, S, I)
           first == q.offset
           last == IF q.offset + q.limit < n THEN q.offset + q.limit - 1 ELSE n - 1
           f == [b \in P |-> r[b]]
<1>1. IsFiniteSet(M) /\ M \subseteq Books
  BY QueriesAssumption, FS_Subset DEF Matches
<1>2. q.place \in [Books -> Nat] /\ IsInjective(q.place) /\ q.limit \in Nat \ {0}
      /\ q.offset \in Nat
  BY QueriesAssumption
<1>3. n \in Nat /\ r \in Bijection(M, 0 .. (n - 1))
  BY <1>1, <1>2, Ranks
<1>4. P = {b \in M : r[b] \in first .. (first + q.limit - 1)}
  BY DEF SearchPage
<1>5. IsFiniteSet(P)
  BY <1>1, <1>4, FS_Subset
<1> HIDE DEF M, n, r, P
<1>6. /\ r \in [M -> 0 .. (n - 1)]
      /\ \A b, c \in M : r[b] = r[c] => b = c
      /\ \A k \in 0 .. (n - 1) : \E b \in M : r[b] = k
  BY <1>3 DEF Bijection, Injection, Surjection, IsInjective
<1>7. \A k : k \in first .. last <=> k \in 0 .. (n - 1) /\ k \in first .. (first + q.limit - 1)
  BY <1>2, <1>3
<1>8. f \in Injection(P, first .. last)
  <2>1. f \in [P -> first .. last] /\ \A b, c \in P : f[b] = f[c] => b = c
    BY <1>4, <1>6, <1>7
  <2>2. QED
    BY <2>1 DEF Injection, IsInjective
<1>9. f \in Surjection(P, first .. last)
  BY <1>4, <1>6, <1>7 DEF Surjection
<1>10. ExistsBijection(P, first .. last)
  BY <1>8, <1>9 DEF ExistsBijection, Bijection
<1>11. Cardinality(P) = Cardinality(first .. last)
  BY <1>5, <1>10, FS_Bijection
<1>12. Cardinality(first .. last) = IF first > last THEN 0 ELSE last - first + 1
  <2>1. first \in Int /\ last \in Int
    BY <1>2, <1>3
  <2>2. QED
    BY <2>1, FS_Interval
<1>13. Max({n, q.offset}) = IF n >= q.offset THEN n ELSE q.offset
  BY <1>2, <1>3 DEF Max
<1> DEFINE rest == Max({n, q.offset}) - q.offset
<1>14. rest \in Nat /\ rest = IF n >= q.offset THEN n - q.offset ELSE 0
  BY <1>2, <1>3, <1>13
<1> HIDE DEF rest
<1>15. Min({rest, q.limit}) = IF rest <= q.limit THEN rest ELSE q.limit
  BY <1>2, <1>14 DEF Min
<1>16. Cardinality(P) = Min({rest, q.limit})
  BY <1>2, <1>3, <1>11, <1>12, <1>14, <1>15
<1>17. QED
  BY <1>16 DEF P, rest, n, M

-----------------------------------------------------------------------------
(* The numbers beside a page.                                              *)

\* Choosing another language, or another genre, changes no other filter.
LEMMA OtherFilters ==
    ASSUME NEW q \in Queries, NEW v, NEW b, NEW I
    PROVE  /\ Filtered([q EXCEPT !.languages = v], b, I) <=> Filtered(q, b, I)
           /\ InGenres([q EXCEPT !.languages = v], b) <=> InGenres(q, b)
           /\ [q EXCEPT !.languages = v].languages = v
           /\ Filtered([q EXCEPT !.genres = v], b, I) <=> Filtered(q, b, I)
           /\ InLanguages([q EXCEPT !.genres = v], b) <=> InLanguages(q, b)
           /\ [q EXCEPT !.genres = v].genres = v
<1>1. Filters \subseteq DOMAIN q
  BY QueriesAssumption
<1>2. /\ \A f \in Filters \ {"languages"} : [q EXCEPT !.languages = v][f] = q[f]
      /\ \A f \in Filters \ {"genres"} : [q EXCEPT !.genres = v][f] = q[f]
      /\ [q EXCEPT !.languages = v].languages = v
      /\ [q EXCEPT !.genres = v].genres = v
  BY <1>1 DEF Filters
<1> DEFINE l == [q EXCEPT !.languages = v]
           g == [q EXCEPT !.genres = v]
<1>3. /\ l.hasText = q.hasText /\ l.words = q.words /\ l.authors = q.authors
      /\ l.series = q.series /\ l.tags = q.tags /\ l.formats = q.formats /\ l.genres = q.genres
  BY <1>2 DEF Filters
<1>4. /\ g.hasText = q.hasText /\ g.words = q.words /\ g.authors = q.authors
      /\ g.series = q.series /\ g.tags = q.tags /\ g.formats = q.formats
      /\ g.languages = q.languages
  BY <1>2 DEF Filters
<1> HIDE DEF l, g
<1>5. (Filtered(l, b, I) <=> Filtered(q, b, I)) /\ (InGenres(l, b) <=> InGenres(q, b))
  BY <1>3 DEF Filtered, InGenres
<1>6. (Filtered(g, b, I) <=> Filtered(q, b, I)) /\ (InLanguages(g, b) <=> InLanguages(q, b))
  BY <1>4 DEF Filtered, InLanguages
<1>7. QED
  BY <1>2, <1>5, <1>6 DEF l, g

\* The number beside a language.
LEMMA LanguagesTrue ==
    ASSUME NEW q \in Queries, NEW S, NEW I, NEW l, l # Absent
    PROVE  Beside(AvailableLanguages(q, S, I), l)
               = Cardinality(Matches([q EXCEPT !.languages = {l}], S, I))
<1> DEFINE found == {b \in S : Filtered(q, b, I) /\ InGenres(q, b) /\ Meta[b].language # Absent}
           p == [q EXCEPT !.languages = {l}]
<1>1. \A b : InLanguages(p, b) <=> Meta[b].language = l
  BY OtherFilters DEF InLanguages
<1>2. Matches(p, S, I) = {b \in found : Meta[b].language = l}
  BY <1>1, OtherFilters DEF Matches
<1> DEFINE a == AvailableLanguages(q, S, I)
           D == {Meta[b].language : b \in found}
<1>3. DOMAIN a = D
  BY DEF AvailableLanguages
<1>4. l \in D => a[l] = Cardinality({b \in found : Meta[b].language = l})
  BY DEF AvailableLanguages
<1>5. l \notin D => {b \in found : Meta[b].language = l} = {}
  OBVIOUS
<1> HIDE DEF p, a, D, found
<1>6. Beside(a, l) = Cardinality(Matches(p, S, I))
  BY <1>2, <1>3, <1>4, <1>5, FS_EmptySet DEF Beside
<1>7. QED
  BY <1>6 DEF p, a

\* The number beside a genre.
LEMMA GenresTrue ==
    ASSUME NEW q \in Queries, NEW S, NEW I, NEW g
    PROVE  Beside(AvailableGenres(q, S, I), g)
               = Cardinality(Matches([q EXCEPT !.genres = {g}], S, I))
<1> DEFINE found == {b \in S : Filtered(q, b, I) /\ InLanguages(q, b)}
           p == [q EXCEPT !.genres = {g}]
<1>1. \A b : InGenres(p, b) <=> g \in Meta[b].genres
  BY OtherFilters DEF InGenres
<1>2. Matches(p, S, I) = {b \in found : g \in Meta[b].genres}
  BY <1>1, OtherFilters DEF Matches
<1> DEFINE a == AvailableGenres(q, S, I)
           D == UNION {Meta[b].genres : b \in found}
<1>3. DOMAIN a = D
  BY DEF AvailableGenres
<1>4. g \in D => a[g] = Cardinality({b \in found : g \in Meta[b].genres})
  BY DEF AvailableGenres
<1>5. g \notin D => {b \in found : g \in Meta[b].genres} = {}
  OBVIOUS
<1> HIDE DEF p, a, D, found
<1>6. Beside(a, g) = Cardinality(Matches(p, S, I))
  BY <1>2, <1>3, <1>4, <1>5, FS_EmptySet DEF Beside
<1>7. QED
  BY <1>6 DEF p, a

\* What is not looked for by a text does not depend on the search index.
LEMMA IndexIrrelevant ==
    ASSUME NEW q, ~q.hasText, NEW S, NEW I, NEW J
    PROVE  /\ Matches(q, S, I) = Matches(q, S, J)
           /\ SearchPage(q, S, I) = SearchPage(q, S, J)
           /\ AvailableLanguages(q, S, I) = AvailableLanguages(q, S, J)
           /\ AvailableGenres(q, S, I) = AvailableGenres(q, S, J)
<1>1. \A b : Filtered(q, b, I) <=> Filtered(q, b, J)
  BY DEF Filtered
<1>2. Matches(q, S, I) = Matches(q, S, J)
  BY <1>1 DEF Matches
<1>3. SearchPage(q, S, I) = SearchPage(q, S, J)
  BY <1>2 DEF SearchPage
<1>4. {b \in S : Filtered(q, b, I) /\ InGenres(q, b) /\ Meta[b].language # Absent}
          = {b \in S : Filtered(q, b, J) /\ InGenres(q, b) /\ Meta[b].language # Absent}
  BY <1>1
<1>5. {b \in S : Filtered(q, b, I) /\ InLanguages(q, b)}
          = {b \in S : Filtered(q, b, J) /\ InLanguages(q, b)}
  BY <1>1
<1>6. QED
  BY <1>2, <1>3, <1>4, <1>5 DEF AvailableLanguages, AvailableGenres

\* What the user is shown is true, for every catalog and interleaving: books have all
\* that belongs to them; and while nobody changed the catalog, nor the search index
\* where a text is looked for, the length of the page and the numbers beside it agree.
THEOREM PagesAreTrue == Spec => []PageTrue
<1>1. BirthInv /\ PageInv => PageTrue
  <2> SUFFICES ASSUME BirthInv, PageInv, Listed PROVE PageTrue
    BY DEF PageTrue
  <2> DEFINE q == listing.query
  <2>1. listing.kind = "page" /\ listing.at = 14 /\ q \in Queries
    BY DoingAt DEF BirthInv, ListShape
  <2>2. \A b \in Shown, r \in Relations : b \in listing[r]
    <3>1. Shown \subseteq listing.authors /\ Shown \subseteq listing.tags /\ Shown \subseteq listing.genres
      BY <2>1 DEF PageInv
    <3>2. QED
      BY <3>1 DEF Relations
  <2>3. ASSUME NEW S \in during, NEW I \in indexed, during = {S},
               q.hasText => indexed = {I}
        PROVE  LET rest == Max({listing.count, q.offset}) - q.offset
               IN  /\ Cardinality(Shown) = Min({rest, q.limit})
                   /\ \A l \in {Meta[b].language : b \in Books} \ {Absent} :
                         Beside(listing.languages, l)
                             = Cardinality(Matches([q EXCEPT !.languages = {l}], S, I))
                   /\ \A g \in UNION {Meta[b].genres : b \in Books} :
                         Beside(listing.genreFacet, g)
                             = Cardinality(Matches([q EXCEPT !.genres = {g}], S, I))
    <3>1. /\ S \subseteq Books /\ listing.ids = SearchPage(q, S, I)
          /\ Shown = listing.ids \intersect S
          /\ listing.count = Cardinality(Matches(q, S, I))
          /\ listing.languages = AvailableLanguages(q, S, I)
          /\ listing.genreFacet = AvailableGenres(q, S, I)
      <4>1. /\ S \subseteq Books /\ Shown = listing.ids \intersect S
            /\ \E J \in indexed : listing.ids = SearchPage(q, S, J)
            /\ \E J \in indexed : listing.count = Cardinality(Matches(q, S, J))
            /\ \E J \in indexed : listing.languages = AvailableLanguages(q, S, J)
            /\ \E J \in indexed : listing.genreFacet = AvailableGenres(q, S, J)
        BY <2>1, <2>3 DEF PageInv
      <4> HIDE DEF q
      <4>2. CASE q.hasText
        BY <2>3, <4>1, <4>2
      <4>3. CASE ~q.hasText
        <5>1. /\ \A J \in indexed : Matches(q, S, J) = Matches(q, S, I)
              /\ \A J \in indexed : SearchPage(q, S, J) = SearchPage(q, S, I)
              /\ \A J \in indexed : AvailableLanguages(q, S, J) = AvailableLanguages(q, S, I)
              /\ \A J \in indexed : AvailableGenres(q, S, J) = AvailableGenres(q, S, I)
          BY <4>3, IndexIrrelevant
        <5>2. QED
          BY <4>1, <5>1
      <4>4. QED
        BY <4>2, <4>3
    <3>2. Shown = SearchPage(q, S, I)
      BY <3>1, PageInCatalog
    <3> HIDE DEF q
    <3>3. QED
      BY <2>1, <3>1, <3>2, PageLength, LanguagesTrue, GenresTrue
  <2>4. QED
    BY <2>2, <2>3 DEF PageTrue
<1>2. QED
  BY BirthInit, BirthNext, PageInit, PageNext, <1>1, PTL DEF Spec

-----------------------------------------------------------------------------
(* The duplicates.                                                         *)

\* What is known of the matches of a search, which a worker waits for: each book is
\* there once, and was in one of the catalogs; a strict one has the hash, any other no
\* other ISBN; and once the hashes were compared, who has the hash and was there all the time is
\* a strict one.
SearchInv ==
    search.kind = "search" =>
        /\ step = "search"
        /\ search.todo \in {<<"hash", "isbn", "title">>, <<"isbn", "title">>, <<"title">>, <<>>}
        /\ search.todo # <<>> => rows \in met
        /\ search.todo = <<"hash", "isbn", "title">> => search.matches = {}
        /\ \A m, n \in search.matches : m.book = n.book => m = n
        /\ \A m \in search.matches : m.book \in UNION met
        /\ \A m \in search.matches : m.severity = "Strict" => SameHash(search.book, {m.book}) # {}
        /\ \A m \in search.matches : m.severity # "Strict" =>
              ~Differ(Meta[search.book].isbn, Meta[m.book].isbn)
        /\ search.todo # <<"hash", "isbn", "title">> =>
              \A b \in Books : (\A S \in met : b \in S) /\ SameHash(search.book, {b}) # {} =>
                  \E m \in search.matches : m.book = b /\ m.severity = "Strict"

\* Nothing is searched for at the start.
LEMMA SearchInit == Init => SearchInv
  BY DEF Init, QueriesInit, SearchInv

\* The first statement is due, the second or the third.
LEMMA Statements ==
    /\ <<"hash", "isbn", "title">> # <<>> /\ <<"isbn", "title">> # <<>> /\ <<"title">> # <<>>
    /\ <<"hash", "isbn", "title">> # <<"isbn", "title">>
    /\ <<"hash", "isbn", "title">> # <<"title">>
    /\ Head(<<"hash", "isbn", "title">>) = "hash"
    /\ Head(<<"isbn", "title">>) = "isbn" /\ Head(<<"title">>) = "title"
    /\ Tail(<<"hash", "isbn", "title">>) = <<"isbn", "title">>
    /\ Tail(<<"isbn", "title">>) = <<"title">> /\ Tail(<<"title">>) = <<>>
<1>1. /\ Len(<<"hash", "isbn", "title">>) = 3 /\ Len(<<"isbn", "title">>) = 2
      /\ Len(<<"title">>) = 1 /\ Len(<<>>) = 0
  OBVIOUS
<1>2. /\ Head(<<"hash", "isbn", "title">>) = "hash"
      /\ Head(<<"isbn", "title">>) = "isbn" /\ Head(<<"title">>) = "title"
  OBVIOUS
<1>3. Tail(<<"hash", "isbn", "title">>) = <<"isbn", "title">>
  OBVIOUS
<1>4. Tail(<<"isbn", "title">>) = <<"title">>
  OBVIOUS
<1>5. Tail(<<"title">>) = <<>>
  OBVIOUS
<1>6. QED
  BY <1>1, <1>2, <1>3, <1>4, <1>5

\* Each statement of FindDuplicates keeps it true.
LEMMA ReportTrue ==
    ASSUME BirthInv, SearchInv, step = "search", step' = step, search.kind = "search",
           NEW statement \in {"hash", "isbn", "title"}, NEW found, NEW severity,
           Report(statement, found, severity), found \subseteq rows,
           severity # "Strict" =>
               \A b \in found : ~Differ(Meta[search.book].isbn, Meta[b].isbn),
           statement = "hash" => severity = "Strict",
           severity = "Strict" => found = SameHash(search.book, rows)
    PROVE  SearchInv'
<1> DEFINE new == {[book |-> b, severity |-> severity, reason |-> statement] : b \in Unseen(found)}
<1>1. DOMAIN search = {"todo", "kind", "book", "matches"}
  BY DEF BirthInv
<1>2. /\ search' = [search EXCEPT !.todo = Tail(@), !.matches = @ \union new]
      /\ search.todo # <<>> /\ Head(search.todo) = statement
      /\ rows' = rows /\ met' = met
  BY DEF Report, catalogVars
<1>3. /\ \A m \in new : m.book \in Unseen(found) /\ m.severity = severity
      /\ \A m, n \in new : m.book = n.book => m = n
      /\ \A b \in Unseen(found) : \E m \in new : m.book = b /\ m.severity = severity
  <2> DEFINE Match(b) == [book |-> b, severity |-> severity, reason |-> statement]
  <2>1. new = {Match(b) : b \in Unseen(found)}
    OBVIOUS
  <2>2. \A b : Match(b).book = b /\ Match(b).severity = severity
    OBVIOUS
  <2> HIDE DEF new, Match
  <2>3. QED
    BY <2>1, <2>2
<1> HIDE DEF new
<1>4. /\ search'.todo = Tail(search.todo) /\ search'.matches = search.matches \union new
      /\ search'.book = search.book /\ search'.kind = "search"
  BY <1>1, <1>2
<1>5. /\ search'.todo \in {<<"isbn", "title">>, <<"title">>, <<>>}
      /\ rows \in met
      /\ search.todo = <<"hash", "isbn", "title">> <=> statement = "hash"
  BY <1>2, <1>4, Statements DEF SearchInv
<1>6. Unseen(found) \subseteq found /\ \A b \in Unseen(found), m \in search.matches : m.book # b
  BY DEF Unseen
<1>7. \A m, n \in search'.matches : m.book = n.book => m = n
  BY <1>3, <1>4, <1>6 DEF SearchInv
<1>8. \A m \in search'.matches : m.book \in UNION met
  BY <1>3, <1>4, <1>5, <1>6 DEF SearchInv
<1>9. \A m \in search'.matches : m.severity # "Strict" =>
          ~Differ(Meta[search.book].isbn, Meta[m.book].isbn)
  BY <1>3, <1>4, <1>6 DEF SearchInv
<1>10. ASSUME NEW b \in Books, \A S \in met : b \in S, SameHash(search.book, {b}) # {}
       PROVE  \E m \in search'.matches : m.book = b /\ m.severity = "Strict"
  <2>1. CASE statement = "hash"
    <3>1. search.matches = {}
      BY <1>5, <2>1 DEF SearchInv
    <3>2. b \in Unseen(found)
      BY <1>5, <1>10, <2>1, <3>1 DEF Unseen, SameHash
    <3>3. QED
      BY <1>3, <1>4, <2>1, <3>2
  <2>2. CASE statement # "hash"
    BY <1>4, <1>5, <1>10, <2>2 DEF SearchInv
  <2>3. QED
    BY <2>1, <2>2
<1>11. \A m \in search'.matches : m.severity = "Strict" => SameHash(search.book, {m.book}) # {}
  <2>1. severity = "Strict" => \A b \in found : SameHash(search.book, {b}) # {}
    BY DEF SameHash
  <2>2. QED
    BY <1>3, <1>4, <1>6, <2>1 DEF SearchInv
<1>12. QED
  BY <1>2, <1>4, <1>5, <1>7, <1>8, <1>9, <1>10, <1>11, Statements DEF SearchInv

\* Every step keeps it true.
LEMMA SearchNext == BirthInv /\ SearchInv /\ [Next]_vars => SearchInv'
<1> SUFFICES ASSUME BirthInv, SearchInv, [Next]_vars PROVE SearchInv'
  OBVIOUS
<1>1. ASSUME UNCHANGED <<rows, met, search, step>> PROVE SearchInv'
  BY <1>1 DEF SearchInv
<1>2. ASSUME search.kind # "search", search' = search PROVE SearchInv'
  BY <1>2 DEF SearchInv
<1>3. CASE Begin
  <2>1. PICK c : BeginSearch(c)
    BY <1>3 DEF Begin
  <2>2. /\ search' = [todo |-> <<"hash", "isbn", "title">>, kind |-> "search", book |-> c,
                      matches |-> {}]
        /\ met' = {rows} /\ rows' = rows /\ step' = "search"
    BY <1>3, <2>1 DEF BeginSearch, catalogVars, Begin
  <2>3. QED
    BY <2>2 DEF SearchInv
<1>4. CASE LookForDuplicates
  <2>1. step = "search" /\ step' = step /\ FindDuplicates
    BY <1>4 DEF LookForDuplicates, importer
  <2>2. CASE search.kind = "search"
    <3>1. CASE Report("hash", SameHash(search.book, rows), "Strict")
      <4>1. SameHash(search.book, rows) \subseteq rows
        BY DEF SameHash
      <4>2. QED
        BY <2>1, <2>2, <3>1, <4>1, ReportTrue
    <3>2. CASE Report("isbn", SameIsbn(search.book, rows), "Probable")
      <4>1. SameIsbn(search.book, rows) \subseteq rows
        BY DEF SameIsbn
      <4>2. \A b \in SameIsbn(search.book, rows) : ~Differ(Meta[search.book].isbn, Meta[b].isbn)
        BY DEF SameIsbn, Differ
      <4>3. QED
        BY <2>1, <2>2, <3>2, <4>1, <4>2, ReportTrue
    <3>3. CASE Report("title", ProbableMatches(search.book, rows), "Probable")
      <4>1. ProbableMatches(search.book, rows) \subseteq rows
        BY DEF ProbableMatches, SameTitleAndAuthors
      <4>2. \A b \in ProbableMatches(search.book, rows) :
                ~Differ(Meta[search.book].isbn, Meta[b].isbn)
        BY DEF ProbableMatches, IsEditionConflict, Differ
      <4>3. QED
        BY <2>1, <2>2, <3>3, <4>1, <4>2, ReportTrue
    <3>4. QED
      BY <2>1, <3>1, <3>2, <3>3 DEF FindDuplicates
  <2>3. CASE search.kind # "search"
    <3>1. search'.kind = search.kind
      BY <2>1 DEF FindDuplicates, Report, BirthInv
    <3>2. QED
      BY <2>3, <3>1 DEF SearchInv
  <2>4. QED
    BY <2>2, <2>3
<1>5. CASE Decide
  BY <1>5 DEF Decide, EndSearch, SearchInv
<1>6. CASE ConvertBook \/ ResolveImportConversion \/ ResolveCover
  BY <1>2, <1>6 DEF ConvertBook, ResolveImportConversion, ResolveCover, SearchInv, queryVars,
                    searchVars
<1>7. CASE Store
  BY <1>2, <1>7 DEF Store, SearchInv, queryVars, searchVars, AddBook, Commit
<1>8. CASE Browse
  BY <1>1, <1>8, ListBooksShape DEF Browse, BirthInv, importer
<1>9. CASE OtherImports \/ OtherRollsBack \/ OtherCompacts
  <2>1. /\ search' = search /\ step' = step
        /\ \/ met' = IF search.todo = <<>> THEN met ELSE met \union {rows'}
           \/ UNCHANGED <<rows, met>>
    BY <1>9 DEF OtherImports, OtherRollsBack, OtherCompacts, AddBook, RemoveBatch, Compact,
                WipeIndex, InsertBook, Vacuum, CompactFails, Commit, importer, searchVars
  <2>2. QED
    BY <2>1 DEF SearchInv
<1>10. CASE Cancel \/ KillHost \/ ConverterRuns \/ UNCHANGED vars
  BY <1>1, <1>10 DEF Cancel, KillHost, ConverterRuns, vars, queryVars, catalogVars, searchVars,
                     importer
<1>11. QED
  BY <1>3, <1>4, <1>5, <1>6, <1>7, <1>8, <1>9, <1>10 DEF Next, Worker

\* What an import is told of duplicates is true of the catalogs there were while it
\* asked, whatever the other jobs import and roll back meanwhile.
THEOREM DuplicatesAreTrue == Spec => []DuplicatesTrue
<1>1. SearchInv => DuplicatesTrue
  BY Statements DEF SearchInv, DuplicatesTrue
<1>2. QED
  BY BirthInit, BirthNext, SearchInit, SearchNext, <1>1, PTL DEF Spec

-----------------------------------------------------------------------------
(* The converter.                                                          *)

\* The converter is let go only as a member of the job object, and the handle of
\* the job object lives no longer than Convert and the host; what is closed is not
\* let go again.
ConverterInv ==
    /\ process = "running" =>
           up /\ step = "convert" /\ conv \in {"wait", "terminate", "close"} /\ inJob
    /\ up /\ conv = "resume" => inJob
    /\ verdict # "resume"

\* Nothing runs at the start.
LEMMA ConverterInvInit == Init => ConverterInv
  BY DEF Init, ConverterInit, ConverterInv

\* Every step of Convert keeps the invariant, as long as the host is alive.
LEMMA ConvertKeeps ==
    ASSUME ConverterInv, up, step = "convert", Convert(stop), UNCHANGED <<step, up>>
    PROVE  ConverterInv'
<1> USE DEF ConverterInv, At
<1>1. CASE Launch
  BY <1>1 DEF Launch, Suspended
<1>2. CASE CreateKillOnCloseJob
  BY <1>2 DEF CreateKillOnCloseJob
<1>3. CASE AssignProcessToKillOnCloseJob
  BY <1>3 DEF AssignProcessToKillOnCloseJob
<1>4. CASE Resume
  BY <1>4 DEF Resume
<1>5. CASE WaitEnds(stop)
  BY <1>5 DEF WaitEnds
<1>6. CASE TerminateProcessNoThrow
  BY <1>6 DEF TerminateProcessNoThrow
<1>7. CASE CloseHandles
  <2>1. conv # "resume" /\ process' # "running"
    BY <1>7 DEF CloseHandles, KillWithJob, HasExited
  <2>2. QED
    BY <1>7, <2>1 DEF CloseHandles
<1>8. CASE CleanupProducedFiles
  BY <1>8 DEF CleanupProducedFiles
<1>9. CASE ResolveProducedFile
  BY <1>9 DEF ResolveProducedFile
<1>10. QED
  BY <1>1, <1>2, <1>3, <1>4, <1>5, <1>6, <1>7, <1>8, <1>9 DEF Convert

\* Every step of the composition keeps the invariant.
LEMMA ConverterInvNext == ConverterInv /\ [Next]_vars => ConverterInv'
<1> SUFFICES ASSUME ConverterInv, [Next]_vars PROVE ConverterInv'
  OBVIOUS
<1>1. CASE up /\ Begin
  BY <1>1 DEF ConverterInv, Begin, convVars, Statuses
<1>2. CASE up /\ LookForDuplicates
  BY <1>2 DEF ConverterInv, LookForDuplicates, convVars, importer
<1>3. CASE up /\ Decide
  BY <1>3 DEF ConverterInv, Decide
<1>4. CASE up /\ ConvertBook
  BY <1>4, ConvertKeeps DEF ConvertBook, importer
<1>5. CASE up /\ ResolveImportConversion
  BY <1>5 DEF ConverterInv, ResolveImportConversion, Results
<1>6. CASE up /\ (ResolveCover \/ Store)
  <2>1. CASE ResolveCover
    BY <1>6, <2>1 DEF ConverterInv, ResolveCover, convVars
  <2>2. CASE Store
    BY <1>6, <2>2 DEF ConverterInv, Store, convVars
  <2>3. QED
    BY <1>6, <2>1, <2>2
<1>7. CASE up /\ (Browse \/ OtherImports \/ OtherRollsBack \/ OtherCompacts \/ Cancel)
  <2>1. UNCHANGED <<process, inJob, conv, verdict>> /\ step' = step /\ (up => up')
    <3>1. CASE Browse
      BY <3>1 DEF Browse, convVars, importer
    <3>2. CASE OtherImports \/ OtherRollsBack \/ OtherCompacts \/ Cancel
      BY <3>2 DEF OtherImports, OtherRollsBack, OtherCompacts, Cancel, convVars, importer
    <3>3. QED
      BY <1>7, <3>1, <3>2
  <2>2. QED
    BY <1>7, <2>1 DEF ConverterInv
<1>8. CASE up /\ KillHost
  BY <1>8 DEF ConverterInv, KillHost, KillWithJob, HasExited, importer
<1>9. CASE ConverterRuns
  BY <1>9 DEF ConverterInv, ConverterRuns, TheProcess, WritesOutput, Exits, importer
<1>10. CASE UNCHANGED vars
  BY <1>10 DEF ConverterInv, vars, convVars, importer
<1>11. QED
  BY <1>1, <1>2, <1>3, <1>4, <1>5, <1>6, <1>7, <1>8, <1>9, <1>10 DEF Next, Worker

\* No converter process outlives the Convert that started it, whichever call fails
\* on the way and wherever the host is killed.
THEOREM ConverterNeverRunsAway == Spec => []NoRunawayConverter
<1>1. ConverterInv => NoRunawayConverter
  BY DEF ConverterInv, NoRunawayConverter
<1>2. QED
  BY ConverterInvInit, ConverterInvNext, <1>1, PTL DEF Spec

-----------------------------------------------------------------------------
(* Rounding.                                                               *)

\* Division, of natural numbers.
LEMMA Quotient ==
    ASSUME NEW x \in Nat, NEW y \in Nat \ {0}
    PROVE  x \div y \in Nat /\ (x \div y) * y <= x /\ x < (x \div y) * y + y
  BY SMT

\* What is not larger, is not larger when it is multiplied.
LEMMA Times ==
    ASSUME NEW a \in Nat, NEW b \in Nat, NEW d \in Nat, a <= b
    PROVE  a * d <= b * d
  BY SMT

\* A product can be brought into another order.
LEMMA Swap ==
    ASSUME NEW a \in Nat, NEW b \in Nat, NEW c \in Nat
    PROVE  a * b \in Nat /\ a * b = b * a /\ a * (b * c) = (a * b) * c
  BY SMT

\* Rounding is exact to within a half.
LEMMA RoundNear ==
    ASSUME NEW n \in Nat, NEW d \in Nat \ {0}
    PROVE  /\ Round(n, d) \in Nat
           /\ 2 * (Round(n, d) * d) <= 2 * n + d
           /\ 2 * n <= 2 * (Round(n, d) * d) + d
<1> DEFINE q == Round(n, d)
<1>1. 2 * n + d \in Nat /\ 2 * d \in Nat \ {0}
  OBVIOUS
<1>2. q \in Nat /\ q * (2 * d) <= 2 * n + d /\ 2 * n + d < q * (2 * d) + 2 * d
  BY <1>1, Quotient DEF Round
<1>3. q * (2 * d) = 2 * (q * d) /\ q * d \in Nat
  BY <1>2, SMT
<1> HIDE DEF q
<1>4. q \in Nat /\ 2 * (q * d) <= 2 * n + d /\ 2 * n <= 2 * (q * d) + d
  BY <1>2, <1>3
<1>5. QED
  BY <1>4 DEF q

\* A fraction that is at most m is rounded to m at most.
LEMMA RoundBounded ==
    ASSUME NEW n \in Nat, NEW d \in Nat \ {0}, NEW m \in Nat, n <= m * d
    PROVE  Round(n, d) <= m
<1> DEFINE q == Round(n, d)
<1>1. q \in Nat /\ 2 * (q * d) <= 2 * n + d
  BY RoundNear
<1> HIDE DEF q
<1>2. SUFFICES ASSUME m + 1 <= q PROVE FALSE
  BY <1>1 DEF q
<1>3. (m + 1) * d <= q * d
  BY <1>1, <1>2, Times
<1>4. (m + 1) * d = m * d + d /\ m * d \in Nat /\ q * d \in Nat
  BY <1>1, SMT
<1>5. QED
  BY <1>1, <1>3, <1>4

\* The side that gives the ratio becomes the bound.
LEMMA RoundExact ==
    ASSUME NEW a \in Nat, NEW d \in Nat \ {0}
    PROVE  Round(a * d, d) = a
<1> DEFINE q == Round(a * d, d)
<1>1. a * d \in Nat
  BY SMT
<1>2. q \in Nat /\ q <= a /\ 2 * (a * d) <= 2 * (q * d) + d
  BY <1>1, RoundNear, RoundBounded
<1> HIDE DEF q
<1>3. SUFFICES ASSUME q + 1 <= a PROVE FALSE
  BY <1>2 DEF q
<1>4. (q + 1) * d <= a * d
  BY <1>2, <1>3, Times
<1>5. (q + 1) * d = q * d + d /\ q * d \in Nat
  BY <1>2, SMT
<1>6. QED
  BY <1>1, <1>2, <1>4, <1>5

-----------------------------------------------------------------------------
(* Sizes.                                                                  *)

\* The side that does not give the ratio: not empty, within its bound, no larger
\* than it was, and exact but for rounding.
LEMMA OtherSide ==
    ASSUME NEW y \in Nat \ {0}, NEW n \in Nat, NEW d \in Nat \ {0}, NEW m \in Nat \ {0},
           n <= d, y * n <= m * d
    PROVE  LET s == Side(y * n, d)
           IN  /\ s \in Nat \ {0} /\ s <= m /\ s <= y
               /\ \/ s = 1 /\ y * n <= s * d
                  \/ 2 * (s * d) <= 2 * (y * n) + d /\ 2 * (y * n) <= 2 * (s * d) + d
<1> DEFINE k == y * n
           q == Round(k, d)
<1>1. k \in Nat
  BY SMT
<1>2. k <= y * d
  <2>1. n * y <= d * y
    BY Times
  <2>2. QED
    BY <2>1, Swap
<1>3. /\ q \in Nat /\ q <= m /\ q <= y
      /\ 2 * (q * d) <= 2 * k + d /\ 2 * k <= 2 * (q * d) + d
  BY <1>1, <1>2, RoundNear, RoundBounded
<1>4. Side(k, d) = IF q < 1 THEN 1 ELSE q
  BY DEF Side
<1> HIDE DEF k, q
<1>5. CASE q < 1
  <2>1. q = 0 /\ Side(k, d) = 1
    BY <1>3, <1>4, <1>5
  <2>2. 2 * k <= d
    BY <1>1, <1>3, <2>1
  <2>3. k <= 1 * d
    BY <1>1, <2>2
  <2>4. QED
    BY <2>1, <2>3 DEF k
<1>6. CASE ~(q < 1)
  <2>1. Side(k, d) = q
    BY <1>4, <1>6
  <2>2. QED
    BY <1>3, <1>6, <2>1 DEF k
<1>7. QED
  BY <1>5, <1>6

\* Images and bounds with pixels in them.
Sizes == [width : Nat \ {0}, height : Nat \ {0}]

\* What CalculateTargetSize makes of an image that does not fit.
LEMMA ScaledFits ==
    ASSUME NEW image \in Sizes, NEW bounds \in Sizes, ~FitsIn(image, bounds)
    PROVE  LET size == CalculateTargetSize(image, bounds)
           IN  /\ size \in Sizes /\ FitsIn(size, bounds) /\ FitsIn(size, image)
               /\ KeepsShape(size, image)
<1> DEFINE w  == image.width
           h  == image.height
           bw == bounds.width
           bh == bounds.height
           size == CalculateTargetSize(image, bounds)
<1>1. w \in Nat \ {0} /\ h \in Nat \ {0} /\ bw \in Nat \ {0} /\ bh \in Nat \ {0}
  BY DEF Sizes
<1>2. w > bw \/ h > bh
  BY <1>1 DEF FitsIn
<1>3. size = IF bw * h <= bh * w THEN [width |-> Side(w * bw, w), height |-> Side(h * bw, w)]
             ELSE [width |-> Side(w * bh, h), height |-> Side(h * bh, h)]
  BY DEF CalculateTargetSize, Scaled
<1>4. /\ FitsIn(size, bounds) <=> size.width <= bw /\ size.height <= bh
      /\ FitsIn(size, image) <=> size.width <= w /\ size.height <= h
  BY DEF FitsIn
<1>5. KeepsShape(size, image) <=>
        LET a == size.width * h
            b == size.height * w
        IN  \/ size.width = 1 /\ b <= a
            \/ size.height = 1 /\ a <= b
            \/ 2 * a <= 2 * b + h /\ 2 * b <= 2 * a + h
            \/ 2 * a <= 2 * b + w /\ 2 * b <= 2 * a + w
  BY DEF KeepsShape
<1> HIDE DEF size, w, h, bw, bh
<1>6. CASE bw * h <= bh * w
  <2>1. bw <= w
    <3>1. SUFFICES ASSUME w < bw, bh + 1 <= h PROVE FALSE
      BY <1>1, <1>2
    <3>2. (bh + 1) * w <= h * w /\ w * h <= bw * h
      BY <1>1, <3>1, Times
    <3>3. (bh + 1) * w = bh * w + w /\ bh * w \in Nat /\ h * w = w * h /\ bw * h \in Nat
      BY <1>1, SMT
    <3>4. QED
      BY <1>1, <1>6, <3>2, <3>3
  <2> DEFINE s == Side(h * bw, w)
  <2>2. h * bw = bw * h /\ w * bw = bw * w
    BY <1>1, Swap
  <2>3. /\ s \in Nat \ {0} /\ s <= bh /\ s <= h
        /\ \/ s = 1 /\ h * bw <= s * w
           \/ 2 * (s * w) <= 2 * (h * bw) + w /\ 2 * (h * bw) <= 2 * (s * w) + w
    BY <1>1, <1>6, <2>1, <2>2, OtherSide
  <2>4. Side(w * bw, w) = bw
    <3>1. Round(bw * w, w) = bw
      BY <1>1, RoundExact
    <3>2. Round(w * bw, w) = bw
      BY <2>2, <3>1
    <3>3. QED
      BY <1>1, <3>2 DEF Side
  <2>5. size = [width |-> bw, height |-> s]
    BY <1>3, <1>6, <2>4
  <2> HIDE DEF s
  <2>6. size.width = bw /\ size.height = s /\ size \in Sizes
    BY <1>1, <2>3, <2>5 DEF Sizes
  <2>7. FitsIn(size, bounds) /\ FitsIn(size, image)
    BY <1>1, <1>4, <2>1, <2>3, <2>6
  <2>8. KeepsShape(size, image)
    BY <1>5, <2>2, <2>3, <2>6
  <2>9. QED
    BY <2>6, <2>7, <2>8 DEF size
<1>7. CASE ~(bw * h <= bh * w)
  <2>0. bh * w <= bw * h
    <3>1. bw * h \in Nat /\ bh * w \in Nat
      BY <1>1, SMT
    <3>2. QED
      BY <1>7, <3>1
  <2>1. bh <= h
    <3>1. SUFFICES ASSUME h < bh, bw + 1 <= w PROVE FALSE
      BY <1>1, <1>2
    <3>2. (bw + 1) * h <= w * h /\ h * w <= bh * w
      BY <1>1, <3>1, Times
    <3>3. (bw + 1) * h = bw * h + h /\ bw * h \in Nat /\ h * w = w * h /\ bh * w \in Nat
      BY <1>1, SMT
    <3>4. QED
      BY <1>1, <2>0, <3>2, <3>3
  <2> DEFINE s == Side(w * bh, h)
  <2>2. w * bh = bh * w /\ h * bh = bh * h
    BY <1>1, Swap
  <2>3. /\ s \in Nat \ {0} /\ s <= bw /\ s <= w
        /\ \/ s = 1 /\ w * bh <= s * h
           \/ 2 * (s * h) <= 2 * (w * bh) + h /\ 2 * (w * bh) <= 2 * (s * h) + h
    BY <1>1, <2>0, <2>1, <2>2, OtherSide
  <2>4. Side(h * bh, h) = bh
    <3>1. Round(bh * h, h) = bh
      BY <1>1, RoundExact
    <3>2. Round(h * bh, h) = bh
      BY <2>2, <3>1
    <3>3. QED
      BY <1>1, <3>2 DEF Side
  <2>5. size = [width |-> s, height |-> bh]
    BY <1>3, <1>7, <2>4
  <2> HIDE DEF s
  <2>6. size.width = s /\ size.height = bh /\ size \in Sizes
    BY <1>1, <2>3, <2>5 DEF Sizes
  <2>7. FitsIn(size, bounds) /\ FitsIn(size, image)
    BY <1>1, <1>4, <2>1, <2>3, <2>6
  <2>8. KeepsShape(size, image)
    BY <1>5, <2>2, <2>3, <2>6
  <2>9. QED
    BY <2>6, <2>7, <2>8 DEF size
<1>8. QED
  BY <1>6, <1>7

\* What ResolveOutputSize makes of any image.
LEMMA OutputFits ==
    ASSUME NEW image \in Sizes, NEW bounds \in Sizes
    PROVE  LET size == ResolveOutputSize(image, bounds)
           IN  /\ size \in Sizes /\ FitsIn(size, bounds) /\ FitsIn(size, image)
               /\ KeepsShape(size, image)
<1>1. CASE FitsIn(image, bounds)
  <2>1. ResolveOutputSize(image, bounds) = image
    BY <1>1 DEF ResolveOutputSize
  <2>2. image.width \in Nat \ {0} /\ image.height \in Nat \ {0}
    BY DEF Sizes
  <2>3. FitsIn(image, image)
    BY <2>2 DEF FitsIn
  <2>4. image.width * image.height = image.height * image.width
        /\ image.width * image.height \in Nat
    BY <2>2, Swap
  <2>5. KeepsShape(image, image)
    BY <2>2, <2>4 DEF KeepsShape
  <2>6. QED
    BY <1>1, <2>1, <2>3, <2>5
<1>2. CASE ~FitsIn(image, bounds)
  BY <1>2, ScaledFits DEF ResolveOutputSize
<1>3. QED
  BY <1>1, <1>2

\* Whatever the size of an image and whatever the encoder makes of it, what the
\* processor answers is within the library's bounds, no larger than the image, of
\* its shape, and only too many bytes when the smaller size was tried.
THEOREM ProcessedFits ==
    ASSUME NEW image \in [width : Nat, height : Nat], HasPixels(image), NEW encoder,
           ProcessForManagedStorage(image, encoder).status = "Processed"
    PROVE  LET result == ProcessForManagedStorage(image, encoder)
           IN  /\ HasPixels(result.size)
               /\ FitsIn(result.size, ManagedBounds) /\ FitsIn(result.size, image)
               /\ KeepsShape(result.size, image)
               /\ result.inBudget \/ FitsIn(result.size, FallbackBounds)
<1> DEFINE primary  == ResolveOutputSize(image, ManagedBounds)
           fallback == ResolveOutputSize(image, FallbackBounds)
           sizes    == SizesTried(image)
           n        == IF TryCandidate(encoder[1]) = "fits" THEN 1 ELSE Len(sizes)
           bytes    == TryCandidate(encoder[n])
           result   == ProcessForManagedStorage(image, encoder)
<1>1. image \in Sizes /\ ManagedBounds \in Sizes /\ FallbackBounds \in Sizes
  BY DEF HasPixels, Sizes, ManagedBounds, FallbackBounds
<1>2. /\ primary \in Sizes /\ FitsIn(primary, ManagedBounds) /\ FitsIn(primary, image)
      /\ KeepsShape(primary, image)
      /\ fallback \in Sizes /\ FitsIn(fallback, FallbackBounds) /\ FitsIn(fallback, image)
      /\ KeepsShape(fallback, image)
  BY <1>1, OutputFits
<1>3. FitsIn(fallback, ManagedBounds)
  <2> HIDE DEF fallback
  <2>1. QED
    BY <1>2 DEF FitsIn, ManagedBounds, FallbackBounds, Sizes
<1>4. sizes = IF fallback = primary THEN <<primary>> ELSE <<primary, fallback>>
  BY DEF SizesTried
<1>5. result = IF bytes = "nothing" THEN [status |-> "Failed"]
               ELSE [status |-> "Processed", size |-> sizes[n], inBudget |-> bytes = "fits"]
  BY DEF ProcessForManagedStorage
<1> HIDE DEF primary, fallback, sizes, result
<1>6. bytes # "nothing"
  <2>1. result.status = "Processed"
    BY DEF result
  <2>2. QED
    BY <1>5, <2>1
<1>7. result.size = sizes[n] /\ result.inBudget = (bytes = "fits")
  BY <1>5, <1>6
<1>8. CASE TryCandidate(encoder[1]) = "fits"
  <2>1. n = 1 /\ bytes = "fits"
    BY <1>8
  <2>2. result.size = primary /\ result.inBudget
    BY <1>4, <1>7, <2>1
  <2>3. QED
    BY <1>2, <2>2 DEF HasPixels, Sizes, result
<1>9. CASE TryCandidate(encoder[1]) # "fits"
  <2>1. n = Len(sizes)
    BY <1>9
  <2>2. sizes[Len(sizes)] = fallback
    BY <1>4
  <2>3. result.size = fallback
    BY <1>7, <2>1, <2>2
  <2>4. QED
    BY <1>2, <1>3, <2>3 DEF HasPixels, Sizes, result
<1>10. QED
  BY <1>8, <1>9

-----------------------------------------------------------------------------
(* The cover.                                                              *)

\* A cover that is ready belongs to the book that is about to be stored.
CoverInv ==
    cover # NoCover =>
        /\ step = "store"
        /\ Candidate \in DOMAIN CoverOf
        /\ cover \in ManagedCovers[Candidate]

\* There is none at the start.
LEMMA CoverInvInit == Init => CoverInv
  BY DEF Init, CoverInv

\* Looking at the library does not touch the worker's search.
LEMMA BrowseKeepsSearch == ListBooks => search' = search
<1> SUFFICES ASSUME ListBooks PROVE search' = search
  OBVIOUS
<1>1. UNCHANGED searchVars
  <2>1. CASE AnswerList
    BY <2>1 DEF AnswerList
  <2>2. CASE \E q \in Queries : BeginList(q)
    BY <2>2 DEF BeginList
  <2>3. CASE Search
    BY <2>3 DEF Search
  <2>4. CASE ReadBooksById
    BY <2>4 DEF ReadBooksById, Learn
  <2>5. CASE CountSearchResults \/ ListAvailableLanguages \/ ListAvailableGenres
    BY <2>5 DEF CountSearchResults, ListAvailableLanguages, ListAvailableGenres, Learn
  <2>6. CASE ReadStamp \/ GetCoverDirectorySnapshot \/ QueryTotals
    BY <2>6 DEF ReadStamp, GetCoverDirectorySnapshot, QueryTotals, Learn
  <2>7. CASE LookUp \/ StoreTotals
    BY <2>7 DEF LookUp, StoreTotals
  <2>8. QED
    BY <2>1, <2>2, <2>3, <2>4, <2>5, <2>6, <2>7 DEF ListBooks
<1>2. QED
  BY <1>1 DEF searchVars

\* Every step keeps the cover of the book.
LEMMA CoverInvNext == CoverInv /\ [Next]_vars => CoverInv'
<1> SUFFICES ASSUME CoverInv, [Next]_vars PROVE CoverInv'
  OBVIOUS
<1>1. CASE Begin
  BY <1>1 DEF CoverInv, Begin, Statuses
<1>2. CASE LookForDuplicates
  BY <1>2 DEF CoverInv, LookForDuplicates, importer
<1>3. CASE Decide
  BY <1>3 DEF CoverInv, Decide
<1>4. CASE ConvertBook
  BY <1>4 DEF CoverInv, ConvertBook, importer
<1>5. CASE ResolveImportConversion
  BY <1>5 DEF CoverInv, ResolveImportConversion
<1>6. CASE ResolveCover
  <2>1. search' = search
    BY <1>6 DEF ResolveCover, queryVars, searchVars
  <2>2. QED
    BY <1>6, <2>1 DEF CoverInv, ResolveCover, Candidate
<1>7. CASE Store
  BY <1>7 DEF CoverInv, Store
<1>8. CASE Browse \/ OtherImports \/ OtherRollsBack \/ OtherCompacts \/ Cancel \/ KillHost
           \/ ConverterRuns
  <2>1. search' = search
    <3>1. CASE Browse
      BY <3>1, BrowseKeepsSearch DEF Browse
    <3>2. CASE OtherImports
      BY <3>2 DEF OtherImports, AddBook, Commit, queryVars, searchVars
    <3>3. CASE OtherRollsBack
      BY <3>3 DEF OtherRollsBack, RemoveBatch, Commit, queryVars, searchVars
    <3>4. CASE OtherCompacts
      BY <3>4 DEF OtherCompacts, Compact, WipeIndex, InsertBook, Vacuum, CompactFails, Commit,
                  queryVars, searchVars
    <3>5. CASE Cancel \/ KillHost \/ ConverterRuns
      BY <3>5 DEF Cancel, KillHost, ConverterRuns, queryVars, searchVars
    <3>6. QED
      BY <1>8, <3>1, <3>2, <3>3, <3>4, <3>5
  <2>2. step' = step /\ cover' = cover
    BY <1>8 DEF Browse, OtherImports, OtherRollsBack, OtherCompacts, Cancel, KillHost,
                ConverterRuns, importer
  <2>3. QED
    BY <2>1, <2>2 DEF CoverInv, Candidate
<1>9. CASE UNCHANGED vars
  BY <1>9 DEF CoverInv, vars, importer, queryVars, searchVars, Candidate
<1>10. QED
  BY <1>1, <1>2, <1>3, <1>4, <1>5, <1>6, <1>7, <1>8, <1>9 DEF Next, Worker

\* A cover that is stored as a JPEG of the library fits its bounds, is no larger than
\* the book's own, and looks like it, whatever the size of that and whatever the
\* encoder makes of it.
THEOREM CoversFit == Spec => []CoverFits
<1>1. CoverInv => CoverFits
  <2>1. SUFFICES ASSUME CoverInv, cover.made = "jpg" PROVE CoverFits
    BY DEF CoverFits
  <2> DEFINE image == CoverOf[Candidate]
  <2>2. cover # NoCover
    BY <2>1 DEF NoCover
  <2>3. Candidate \in DOMAIN CoverOf /\ cover \in ManagedCovers[Candidate]
    BY <2>1, <2>2 DEF CoverInv
  <2>4. PICK r \in ProcessingResults(image) : cover = ResolveManagedCoverData(r)
    BY <2>3 DEF ManagedCovers
  <2>5. r.status = "Processed" /\ cover.size = r.size /\ cover.inBudget = r.inBudget
    BY <2>1, <2>4 DEF ResolveManagedCoverData
  <2>6. HasPixels(image)
    BY <2>4, <2>5 DEF ProcessingResults
  <2>7. PICK e \in Encoders : r = ProcessForManagedStorage(image, e)
    BY <2>4, <2>6 DEF ProcessingResults
  <2>8. image \in [width : Nat, height : Nat]
    BY <2>3, CoversAssumption
  <2> HIDE DEF image
  <2>9. /\ HasPixels(r.size)
        /\ FitsIn(r.size, ManagedBounds) /\ FitsIn(r.size, image)
        /\ KeepsShape(r.size, image)
        /\ r.inBudget \/ FitsIn(r.size, FallbackBounds)
    BY <2>5, <2>6, <2>7, <2>8, ProcessedFits
  <2>10. QED
    BY <2>5, <2>9 DEF CoverFits, image
<1>2. QED
  BY CoverInvInit, CoverInvNext, <1>1, PTL DEF Spec
=============================================================================
