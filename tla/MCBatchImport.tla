--------------------------- MODULE MCBatchImport ---------------------------
(* BatchImport with four kinds of jobs: three files in parallel, an archive *)
(* of two entries followed by a lone file, one archive, one file.  Two of   *)
(* the files are the same.                                                  *)
EXTENDS BatchImport

CONSTANTS f1, f2, f3, z, h1, h2, none, o1

MCBooks     == {f1, f2, f3}
MCArchives  == {z}
MCEntriesOf == [a \in {z} |-> <<f1, f2>>]
MCHashOf    == [b \in MCBooks |-> IF b = f3 THEN h2 ELSE h1]
MCHashes    == {}

Job(candidates, one) == [candidates |-> candidates, oneSource |-> one]

MCWorkloads == {Job(<<f1, f2, f3>>, FALSE), Job(<<z, f3>>, FALSE),
                Job(<<z>>, TRUE), Job(<<f3>>, TRUE)}
=============================================================================
