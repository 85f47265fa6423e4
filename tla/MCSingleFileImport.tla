------------------------- MODULE MCSingleFileImport -------------------------
(* SingleFileImport with the worker of a batch job and a SingleFile job on *)
(* the same file (MCSameHash), or with two workers of one batch job on two *)
(* editions of a book (MCEditions).  Every book has a cover.               *)
EXTENDS SingleFileImport

CONSTANTS b1, b2, s1, h1, h2, t1, t2, none

MCTwoJobs    == {b1, s1}
MCTwoWorkers == {b1, b2}
MCAllow      == {s1}
MCNobody     == {}
MCSameHash   == [i \in MCTwoJobs |-> h1]
MCEditions   == [i \in MCTwoWorkers |-> IF i = b1 THEN h1 ELSE h2]
MCTitleOf    == [i \in Imports |-> t1]
MCTitles     == {t2}
=============================================================================
