------------------------------ MODULE MCIntake ------------------------------
(* Intake with two books on the shelf and one of another job: a candidate   *)
(* that is another edition of the first and shares its ISBN under a title   *)
(* with an annotation, and one that is the other job's very file.           *)
EXTENDS Intake, TLC

CONSTANTS b1, b2, o1, c1, c2, none

Book(hash, title, isbn, language, genre, format) ==
    [hash |-> hash, title |-> title, authors |-> <<"bunin">>, isbn |-> isbn,
     series |-> none, publisher |-> none, language |-> language, tags |-> {},
     genres |-> {genre}, format |-> format, words |-> {title}, size |-> 1, cover |-> FALSE]

MCMeta ==
    (b1 :> [Book("h1", "alleys", "i1", "ru", "prose", "epub") EXCEPT !.cover = TRUE])
    @@ (b2 :> [Book(none, "village", none, "en", "prose", "epub") EXCEPT !.size = 2, !.series = "s1"])
    @@ (o1 :> Book("h3", "village", "i2", "ru", "poetry", "fb2"))
    @@ (c1 :> Book("h4", "alleys [litres]", "i1", "en", "poetry", "fb2"))
    @@ (c2 :> [Book("h3", "village", "i2", "ru", "poetry", "epub") EXCEPT !.tags = {"t"}])

MCIdOf == b1 :> 1 @@ b2 :> 2 @@ o1 :> 3 @@ c1 :> 4 @@ c2 :> 5

MCCoreOf == [t \in {"alleys", "alleys [litres]", "village"} |->
                IF t = "alleys [litres]" THEN "alleys" ELSE t]

All == [hasText |-> FALSE, words |-> {}, authors |-> {}, series |-> {}, tags |-> {},
        formats |-> {}, languages |-> {}, genres |-> {}, place |-> b1 :> 1 @@ c1 :> 2 @@ b2 :> 3 @@ o1 :> 4 @@ c2 :> 5,
        offset |-> 0, limit |-> 3]

Option(files, allow, force, converter, browse) ==
    [files |-> files, allowProbable |-> allow, forceEpub |-> force, converter |-> converter,
     browse |-> browse]

\* A wide stripe, and a cover larger than the bounds of the library.
MCCoverOf == (c1 :> [width |-> 3000, height |-> 2]) @@ (c2 :> [width |-> 1000, height |-> 1600])

\* Bound: while the user lists books, one file is imported, without a conversion.
MCOptions ==
    {Option({c1, c2}, TRUE, TRUE, TRUE, FALSE), Option({c1, c2}, TRUE, TRUE, FALSE, FALSE),
     Option({c1, c2}, FALSE, FALSE, TRUE, FALSE),
     Option({c1}, TRUE, FALSE, TRUE, TRUE), Option({c2}, TRUE, FALSE, TRUE, TRUE)}

MCQueries ==
    {[All EXCEPT !.languages = {"ru"}, !.authors = {"bunin"}],
     [All EXCEPT !.genres = {"prose"}, !.offset = 1, !.limit = 1],
     [All EXCEPT !.hasText = TRUE],
     [All EXCEPT !.hasText = TRUE, !.words = {"village"}, !.formats = {"epub"}]}
=============================================================================
