--------------------------- MODULE CatalogQueries ---------------------------
(***************************************************************************)
(* CSqliteBookQueryRepository with CLibraryCatalogFacade: the page of      *)
(* books a user looks at, the numbers beside it, and the duplicates of a   *)
(* file about to be imported.  Every statement is a transaction of its     *)
(* own, so imports and rollbacks of other threads commit between any two   *)
(* statements of one call.  The search index is a table beside the rows:   *)
(* imports keep it, while a rollback leaves it to Compact, which wipes it  *)
(* and fills it again one book at a time.                                  *)
(***************************************************************************)
EXTENDS Naturals, Sequences, SequencesExt, FiniteSetsExt

CONSTANTS
    Books,           \* every book there may be; ids are never used again
    IdOf,            \* their ids
    Meta,            \* the metadata of each book
    CoreOf,          \* titles without their annotations
    Absent,          \* a field that has no value
    Queries,         \* the pages that are asked for
    Shelf,           \* the books in the catalog before
    MaxCommits       \* bound: commits of other jobs

Filters == {"hasText", "words", "authors", "series", "tags", "formats", "languages", "genres"}

\* Every ORDER BY ends with the id, so that no two books have the same place.
ASSUME QueriesAssumption ==
    /\ IsFiniteSet(Books) /\ Shelf \subseteq Books
    /\ \A q \in Queries :
          /\ Filters \subseteq DOMAIN q
          /\ q.limit \in Nat \ {0} /\ q.offset \in Nat
          /\ q.place \in [Books -> Nat] /\ IsInjective(q.place)

VARIABLES
    rows,            \* the books of the catalog
    index,           \* the books search_index has a row for
    compact,         \* the Compact at work, and how many are due
    stamp,           \* times and sizes of the database's files, which a commit changes
    listing,         \* the current ListBooks
    cache,           \* m_statisticsCache: a key and its statistics
    during,          \* the catalogs there were while it ran, ...
    indexed,         \* ... and the search indexes
    search,          \* the current, or last, FindDuplicates
    met              \* the catalogs there were while that ran

catalogVars == <<rows, index, compact, stamp>>
listVars    == <<listing, cache, during, indexed>>
searchVars  == <<search, met>>
queryVars   == <<catalogVars, listVars, searchVars>>

Authors(b) == Range(Meta[b].authors)

-----------------------------------------------------------------------------
(* The filters.                                                            *)

\* BuildFtsQuery finds no word to look for: an empty MATCH is a syntax error.
Unsearchable(q) == q.hasText /\ q.words = {}

\* What every statement filters by: text by a join with search_index, in which the
\* words of a book are as they are in its row.
Filtered(q, b, I) ==
    /\ q.hasText => b \in I /\ q.words \subseteq Meta[b].words
    /\ q.authors \subseteq Authors(b)
    /\ q.series \subseteq {Meta[b].series}
    /\ q.tags \subseteq Meta[b].tags
    /\ q.formats \subseteq {Meta[b].format}

InLanguages(q, b) == q.languages = {} \/ Meta[b].language \in q.languages

InGenres(q, b) == q.genres = {} \/ q.genres \intersect Meta[b].genres # {}

Matches(q, S, I) == {b \in S : Filtered(q, b, I) /\ InLanguages(q, b) /\ InGenres(q, b)}

AvailableLanguages(q, S, I) ==
    LET found == {b \in S : Filtered(q, b, I) /\ InGenres(q, b) /\ Meta[b].language # Absent}
    IN  [l \in {Meta[b].language : b \in found} |->
            Cardinality({b \in found : Meta[b].language = l})]

AvailableGenres(q, S, I) ==
    LET found == {b \in S : Filtered(q, b, I) /\ InLanguages(q, b)}
    IN  [g \in UNION {Meta[b].genres : b \in found} |->
            Cardinality({b \in found : g \in Meta[b].genres})]

Rank(q, S, b) == Cardinality({c \in S : q.place[c] < q.place[b]})

\* BuildSearchSql: LIMIT and OFFSET, in the order asked for.
SearchPage(q, S, I) ==
    {b \in Matches(q, S, I) :
        Rank(q, Matches(q, S, I), b) \in q.offset..(q.offset + q.limit - 1)}

Totals(S) == [count |-> Cardinality(S),
              size  |-> FoldSet(LAMBDA b, n : n + Meta[b].size, 0, S)]

Covers(S) == {b \in S : Meta[b].cover}

-----------------------------------------------------------------------------
(* ListBooks, one statement after the other.                               *)

Relations == {"authors", "tags", "genres"}

\* Mutant: the rows of the books are read before what belongs to them.
BooksFirst == <<"books", "authors", "tags", "genres">>

ReadOrder == <<"authors", "tags", "genres", "books">>

AfterPage == <<"count", "languages", "genreFacet">>

\* Mutant: the key under which the statistics are kept is taken after them.
KeyLast == <<"covers", "query", "key", "lookup", "store">>

StatisticsOrder == <<"key", "covers", "lookup", "query", "store">>

Plan == <<"search">> \o ReadOrder \o AfterPage \o StatisticsOrder

NoListing ==
    [kind |-> "none", at |-> 0, query |-> {}, ids |-> {}, authors |-> {}, tags |-> {},
     genres |-> {}, books |-> {}, count |-> 0, languages |-> <<>>, genreFacet |-> <<>>,
     key |-> 0, covers |-> {}, stats |-> <<>>]

QueriesInit ==
    /\ rows = Shelf /\ index = Shelf /\ stamp = 0
    /\ compact = [step |-> "none", due |-> 0, todo |-> {}]
    /\ listing = NoListing /\ during = {} /\ indexed = {} /\ cache = [kind |-> "none"]
    /\ search = [todo |-> <<>>, kind |-> "none"] /\ met = {}

BeginList(q) ==
    /\ listing.kind = "none"
    /\ IF Unsearchable(q)
       THEN listing' = [NoListing EXCEPT !.kind = "failed"]
            /\ during' = {} /\ indexed' = {}
       ELSE /\ listing' = [NoListing EXCEPT !.kind = "page", !.at = 1, !.query = q]
            /\ during' = {rows} /\ indexed' = {index}
    /\ UNCHANGED <<catalogVars, cache, searchVars>>

Reading == listing.kind = "page" /\ listing.at <= Len(Plan)

Listed == listing.kind = "page" /\ listing.at > Len(Plan)

Doing(s) == Reading /\ Plan[listing.at] = s

\* The statement's result is kept, and the next one is due.
Learn(field, value) ==
    /\ listing' = [listing EXCEPT !.at = @ + 1, ![field] = value]
    /\ UNCHANGED <<catalogVars, cache, during, indexed, searchVars>>

\* Without a hit ReadBooksById has nothing to read.
Search ==
    /\ Doing("search")
    /\ LET ids == SearchPage(listing.query, rows, index)
       IN  listing' = [listing EXCEPT !.ids = ids,
                                      !.at = @ + (IF ids # {} THEN 1 ELSE 1 + Len(ReadOrder))]
    /\ UNCHANGED <<catalogVars, cache, during, indexed, searchVars>>

\* Each relation, and the rows, of those ids that are there.
ReadBooksById ==
    \E r \in Relations \union {"books"} : Doing(r) /\ Learn(r, listing.ids \intersect rows)

CountSearchResults ==
    Doing("count") /\ Learn("count", Cardinality(Matches(listing.query, rows, index)))

ListAvailableLanguages ==
    Doing("languages") /\ Learn("languages", AvailableLanguages(listing.query, rows, index))

ListAvailableGenres ==
    Doing("genreFacet") /\ Learn("genreFacet", AvailableGenres(listing.query, rows, index))

ReadStamp == Doing("key") /\ Learn("key", stamp)

GetCoverDirectorySnapshot == Doing("covers") /\ Learn("covers", Covers(rows))

Key == <<listing.key, listing.covers>>

\* The statistics kept under the same key are good enough.
LookUp ==
    /\ Doing("lookup")
    /\ IF cache.kind = "kept" /\ cache.key = Key
       THEN listing' = [listing EXCEPT !.at = Len(Plan) + 1, !.stats = cache.stats]
       ELSE listing' = [listing EXCEPT !.at = @ + 1]
    /\ UNCHANGED <<catalogVars, cache, during, indexed, searchVars>>

QueryTotals == Doing("query") /\ Learn("stats", Totals(rows))

\* (The second look under the lock finds what the first one did, since the host
\* serves one request after the other.)
StoreTotals ==
    /\ Doing("store")
    /\ listing' = [listing EXCEPT !.at = Len(Plan) + 1]
    /\ cache' = [kind |-> "kept", key |-> Key, stats |-> listing.stats]
    /\ UNCHANGED <<catalogVars, during, indexed, searchVars>>

\* The page is sent, or the error.
AnswerList ==
    /\ Listed \/ listing.kind = "failed"
    /\ listing' = NoListing /\ during' = {} /\ indexed' = {}
    /\ UNCHANGED <<catalogVars, cache, searchVars>>

ListBooks ==
    \/ AnswerList
    \/ \E q \in Queries : BeginList(q)
    \/ Search \/ ReadBooksById \/ CountSearchResults
    \/ ListAvailableLanguages \/ ListAvailableGenres
    \/ ReadStamp \/ GetCoverDirectorySnapshot \/ LookUp \/ QueryTotals \/ StoreTotals

-----------------------------------------------------------------------------
(* FindDuplicates.                                                         *)

SameHash(c, S) == {b \in S : Meta[c].hash # Absent /\ Meta[b].hash = Meta[c].hash}

\* IsIsbnMatchCredible: an anthology's ISBN is shared by all its stories.
Credible(c, b) ==
    \/ Meta[c].title = Meta[b].title
    \/ /\ CoreOf[Meta[c].title] = CoreOf[Meta[b].title]
       /\ Authors(c) \intersect Authors(b) # {}

SameIsbn(c, S) ==
    {b \in S : Meta[c].isbn # Absent /\ Meta[b].isbn = Meta[c].isbn /\ Credible(c, b)}

Differ(x, y) == x # Absent /\ y # Absent /\ x # y

\* IsEditionConflict: the ISBN decides where both have one.
IsEditionConflict(c, b) ==
    IF Meta[c].isbn # Absent /\ Meta[b].isbn # Absent THEN Meta[c].isbn # Meta[b].isbn
    ELSE Differ(Meta[c].series, Meta[b].series) \/ Differ(Meta[c].publisher, Meta[b].publisher)

\* FindProbableDuplicateCandidates: a candidate that names an author twice, or none,
\* has none.
SameTitleAndAuthors(c, S) ==
    IF Len(Meta[c].authors) # Cardinality(Authors(c)) THEN {}
    ELSE {b \in S : Meta[b].title = Meta[c].title /\ Authors(b) = Authors(c) /\ Authors(b) # {}}

ProbableMatches(c, S) == {b \in SameTitleAndAuthors(c, S) : ~IsEditionConflict(c, b)}

BeginSearch(c) ==
    /\ search.todo = <<>>
    /\ search' = [todo |-> <<"hash", "isbn", "title">>, kind |-> "search", book |-> c,
                  matches |-> {}]
    /\ met' = {rows}
    /\ UNCHANGED <<catalogVars, listVars>>

\* Mutant: what an earlier statement has found is found again.
EveryMatch(found) == found

Unseen(found) == {b \in found : \A m \in search.matches : m.book # b}

\* The matches of one statement.
Report(statement, found, severity) ==
    /\ search.todo # <<>> /\ Head(search.todo) = statement
    /\ search' = [search EXCEPT
                     !.todo = Tail(@),
                     !.matches = @ \union
                         {[book |-> b, severity |-> severity, reason |-> statement] :
                             b \in Unseen(found)}]
    /\ UNCHANGED <<catalogVars, listVars, met>>

FindDuplicates ==
    \/ Report("hash", SameHash(search.book, rows), "Strict")
    \/ Report("isbn", SameIsbn(search.book, rows), "Probable")
    \/ Report("title", ProbableMatches(search.book, rows), "Probable")

\* The caller takes the matches.
EndSearch ==
    /\ search.todo = <<>>
    /\ search' = [todo |-> <<>>, kind |-> "over", book |-> search.book]
    /\ met' = {}
    /\ UNCHANGED <<catalogVars, listVars>>

Found(severity) == \E m \in search.matches : m.severity = severity

-----------------------------------------------------------------------------
(* The repository of the writers.  Its lock keeps writers out of a Compact *)
(* but no reader, who has a connection of his own.                         *)

\* A transaction commits: seen by whoever is in a call.
Commit(S, I) ==
    /\ rows' = S /\ index' = I
    /\ stamp' = stamp + 1
    /\ during' = IF Reading THEN during \union {S} ELSE during
    /\ indexed' = IF Reading THEN indexed \union {I} ELSE indexed
    /\ met' = IF search.todo = <<>> THEN met ELSE met \union {S}
    /\ UNCHANGED <<listing, cache, search>>

Unlocked == compact.step = "none"

\* AddBatch: the row, and its row in the index.
AddBook(b) ==
    /\ Unlocked
    /\ Commit(rows \union {b}, index \union {b})
    /\ UNCHANGED compact

\* RemoveBatch leaves the index as it is, for the Compact of the rollback.
RemoveBatch(S) ==
    /\ Unlocked
    /\ Commit(rows \ S, index)
    /\ compact' = [compact EXCEPT !.due = @ + 1]

\* RebuildAll: the books are read, 'delete-all' is a transaction, ...
WipeIndex ==
    /\ Unlocked /\ compact.due > 0
    /\ Commit(rows, {})
    /\ compact' = [step |-> "refill", due |-> compact.due - 1, todo |-> rows]

\* ... and each book is one, in the order of the ids.
InsertBook ==
    /\ compact.step = "refill"
    /\ \E b \in compact.todo :
          /\ \A c \in compact.todo : IdOf[b] <= IdOf[c]
          /\ Commit(rows, index \union {b})
          /\ compact' = [compact EXCEPT !.todo = @ \ {b}]

\* VACUUM changes the files alone.
Vacuum ==
    /\ compact.step = "refill" /\ compact.todo = {}
    /\ Commit(rows, index)
    /\ compact' = [compact EXCEPT !.step = "none"]

\* Any statement may fail; the facade takes a warning of it.
CompactFails ==
    /\ \/ /\ Unlocked /\ compact.due > 0
          /\ compact' = [compact EXCEPT !.due = @ - 1]
       \/ /\ compact.step = "refill"
          /\ compact' = [compact EXCEPT !.step = "none", !.todo = {}]
    /\ UNCHANGED <<rows, index, stamp, listVars, searchVars>>

Compact == WipeIndex \/ InsertBook \/ Vacuum \/ CompactFails

-----------------------------------------------------------------------------
(* Properties.                                                             *)

Shown == listing.ids \intersect listing.books

Beside(facet, value) == IF value \in DOMAIN facet THEN facet[value] ELSE 0

\* Every book of a page has all its authors, tags and genres, whatever is rolled
\* back while the page is read; and when the catalog stayed as it was, and with it
\* the search index where a text is looked for, the total tells how long the page
\* is, and each number beside a language or a genre how many books choosing it
\* instead would show.
PageTrue ==
    Listed =>
        /\ \A b \in Shown, r \in Relations : b \in listing[r]
        /\ \A S \in during, I \in indexed :
              during = {S} /\ (listing.query.hasText => indexed = {I}) =>
              LET q == listing.query
                  rest == Max({listing.count, q.offset}) - q.offset
              IN  /\ Cardinality(Shown) = Min({rest, q.limit})
                  /\ \A l \in {Meta[b].language : b \in Books} \ {Absent} :
                        Beside(listing.languages, l)
                            = Cardinality(Matches([q EXCEPT !.languages = {l}], S, I))
                  /\ \A g \in UNION {Meta[b].genres : b \in Books} :
                        Beside(listing.genreFacet, g)
                            = Cardinality(Matches([q EXCEPT !.genres = {g}], S, I))

\* The statistics shown are those of the catalog at some moment of the request,
\* never of an earlier one, although they are cached.
StatisticsCurrent == Listed => \E S \in during : listing.stats = Totals(S)

\* A file is called a duplicate of a book once at most, and of books that were there
\* meanwhile; strictly of those and only those that have its hash; and never of one
\* that bears another ISBN, unless that has its hash.
DuplicatesTrue ==
    search.kind = "search" /\ search.todo = <<>> =>
        LET c == search.book
            matches == search.matches
        IN  /\ \A m, n \in matches : m.book = n.book => m = n
            /\ \A m \in matches : m.book \in UNION met
            /\ \A m \in matches : m.severity = "Strict" => SameHash(c, {m.book}) # {}
            /\ \A m \in matches : m.severity # "Strict" =>
                  ~Differ(Meta[c].isbn, Meta[m.book].isbn)
            /\ \A b \in Books : (\A S \in met : b \in S) /\ SameHash(c, {b}) # {} =>
                  \E m \in matches : m.book = b /\ m.severity = "Strict"
=============================================================================
