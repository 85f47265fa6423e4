-------------------------- MODULE MCWriterDispatch --------------------------
(* WriterDispatch with five calls: two Adds and a ForceAdd of one file, an *)
(* Add of a file the catalog has, and an Add of a file with no known hash. *)
EXTENDS WriterDispatch

CONSTANTS a1, a2, f1, c1, n1, h1, h2, none

MCRequests      == {a1, a2, f1, c1, n1}
MCForced        == {f1}
MCHashOf        == [r \in MCRequests |-> CASE r = c1 -> h2
                                           [] r = n1 -> none
                                           [] OTHER  -> h1]
MCCatalogHashes == {h2}
=============================================================================
