------------------------- MODULE ManagedFileEncoding -------------------------
(***************************************************************************)
(* How a stored book is read back.  A compressed file is a sequence of     *)
(* codes, one unit of input each, the last of which ends the stream;       *)
(* stream[n] is what the n-th code adds to the output.  InflateFileToPath  *)
(* feeds it to zlib in chunks and takes the output in chunks.              *)
(***************************************************************************)
EXTENDS Naturals, Sequences, SequencesExt, FiniteSetsExt

CONSTANT GChunkSize

ASSUME ChunkAssumption == GChunkSize \in Nat \ {0}

\* The output of the first n codes.
Yield(stream, n) == FoldSeq(LAMBDA x, y : x + y, 0, SubSeq(stream, 1, n))

\* zlib's inflate(): with `have' units of input and room for one chunk it goes on
\* from `out' units written and `in' codes taken; a code is taken as soon as the
\* output is caught up with.  No progress is Z_BUF_ERROR.
inflate(stream, have, in, out) ==
    LET upTo  == Min({out + GChunkSize, Yield(stream, have)})
        taken == Min({n \in in..have : n = have \/ Yield(stream, n) > upTo})
    IN  [in |-> taken, out |-> upTo,
         code |-> IF taken = Len(stream) /\ upTo = Yield(stream, taken) THEN "Z_STREAM_END"
                  ELSE IF taken = in /\ upTo = out THEN "Z_BUF_ERROR" ELSE "Z_OK"]

\* The inner loop: until a call leaves room in the output buffer.
DrainChunk(stream, have) ==
    LET drain[in \in 0..have, out \in 0..Yield(stream, have)] ==
            LET r == inflate(stream, have, in, out)
            IN  IF r.code = "Z_BUF_ERROR" \/ r.out - out < GChunkSize THEN r
                ELSE drain[r.in, r.out]
    IN  drain

\* The outer loop: until the stream has ended; a file that is cut off is an error.
InflateFileToPath(stream) ==
    LET end == Len(stream)
        from[fed, in \in 0..end, out \in 0..Yield(stream, end)] ==
            IF fed = end THEN [ok |-> FALSE, size |-> out]
            ELSE LET have == Min({fed + GChunkSize, end})
                     r    == DrainChunk(stream, have)[in, out]
                 IN  IF r.code = "Z_STREAM_END" THEN [ok |-> TRUE, size |-> r.out]
                     ELSE IF r.code = "Z_BUF_ERROR" THEN [ok |-> FALSE, size |-> r.out]
                     ELSE from[have, r.in, r.out]
    IN  from[0, 0, 0]

\* DecodeFileToPath; a plain file is copied.
Decoded(file) ==
    IF file.encoding = "Plain" THEN [ok |-> TRUE, size |-> Yield(file.stream, Len(file.stream))]
    ELSE InflateFileToPath(file.stream)
=============================================================================
