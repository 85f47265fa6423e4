---------------------------- MODULE MCZipImport ----------------------------
(* ZipImport on an archive with two books of one directory and an entry     *)
(* whose path repeats one of them, and on one with two books of one name in *)
(* two directories, whose last entry's name makes the loop throw.           *)
EXTENDS ZipImport

CONSTANTS e1, e2, e3, e4, n1, u1, x1, d, dirA, dirB, nameX, nameY

MCArchives == {<<d, e1, n1, e2, e4>>, <<e1, u1, e3, x1>>}

MCKindOf == [e \in {e1, e2, e3, e4, n1, u1, x1, d} |->
                CASE e = d -> "directory" [] e = n1 -> "nested" [] e = u1 -> "unsafe"
                  [] e = x1 -> "unmappable" [] OTHER -> "book"]

MCPathOf == [e \in {e1, e2, e3, e4, n1, u1, x1, d} |->
                CASE e = e2 -> <<dirA, nameY>> [] e = e3 -> <<dirB, nameX>>
                  [] OTHER -> <<dirA, nameX>>]
=============================================================================
