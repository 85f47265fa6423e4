--------------------------- MODULE MCLibraryFiles ---------------------------
(* LibraryFiles with a plain book and compressed ones: two of every kind of *)
(* shape for the requests, and all shapes of up to five codes, so that two  *)
(* chunks of two units are needed and more, for the decoding.               *)
EXTENDS LibraryFiles

Compressed(codes, yields) ==
    {[encoding |-> "Compressed", stream |-> Append(s, 0)] :
        s \in UNION {[1..n -> yields] : n \in codes}}

Plain == [encoding |-> "Plain", stream |-> <<1, 0>>]

MCStored == {Plain} \union Compressed(1..2, 1..2)
MCShapes == {Plain} \union Compressed(1..4, 0..3)
=============================================================================
