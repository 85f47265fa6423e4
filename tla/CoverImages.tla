----------------------------- MODULE CoverImages -----------------------------
(***************************************************************************)
(* CStbCoverImageProcessor, and what an import makes of its answer: a      *)
(* cover is scaled down to the bounds of the library and encoded as JPEG,  *)
(* with less quality and then in a smaller size until it is small enough.  *)
(* Pixels and encoders are left out; sizes and the order of attempts are   *)
(* the code's.                                                             *)
(***************************************************************************)
EXTENDS Naturals, Sequences

CONSTANT CoverOf     \* the size of the cover of each book that has one; no
                     \* width or height: there are no pixels to be had

ASSUME CoversAssumption ==
    \A b \in DOMAIN CoverOf : CoverOf[b] \in [width : Nat, height : Nat]

VARIABLE cover       \* the cover of the book at work, when it is ready

NoCover == [made |-> "none"]

ManagedBounds  == [width |-> 456, height |-> 684]
FallbackBounds == [width |-> 400, height |-> 600]

GJpegQualityLadder == <<85, 78, 72>>

-----------------------------------------------------------------------------
(* Sizes.                                                                  *)

\* std::round of a fraction that is not negative.
Round(n, d) == (2 * n + d) \div (2 * d)

\* Not less than one pixel.
Side(n, d) == IF Round(n, d) < 1 THEN 1 ELSE Round(n, d)

Scaled(image, n, d) ==
    [width |-> Side(image.width * n, d), height |-> Side(image.height * n, d)]

\* Mutant: only the width is looked at.
CalculateFromWidth(image, bounds) == Scaled(image, bounds.width, image.width)

\* The smaller of both ratios, as a fraction where the code has doubles.
CalculateTargetSize(image, bounds) ==
    IF bounds.width * image.height <= bounds.height * image.width
    THEN Scaled(image, bounds.width, image.width)
    ELSE Scaled(image, bounds.height, image.height)

\* One side is exactly what the other scales to, but for rounding.
KeepsShape(size, image) ==
    LET a == size.width * image.height
        b == size.height * image.width
    IN  \/ size.width = 1 /\ b <= a
        \/ size.height = 1 /\ a <= b
        \/ 2 * a <= 2 * b + image.height /\ 2 * b <= 2 * a + image.height
        \/ 2 * a <= 2 * b + image.width /\ 2 * b <= 2 * a + image.width

FitsIn(size, bounds) == size.width <= bounds.width /\ size.height <= bounds.height

\* PreserveSmallerImages is what the import asks for.
ResolveOutputSize(image, bounds) ==
    IF FitsIn(image, bounds) THEN image ELSE CalculateTargetSize(image, bounds)

\* The fallback is tried when it is another size.
SizesTried(image) ==
    LET primary  == ResolveOutputSize(image, ManagedBounds)
        fallback == ResolveOutputSize(image, FallbackBounds)
    IN  IF fallback = primary THEN <<primary>> ELSE <<primary, fallback>>

-----------------------------------------------------------------------------
(* Attempts.                                                               *)

\* TryEncodeJpeg: nothing, or bytes that are within the budget or over it.
Encodings == {"nothing", "fits", "over"}

\* What the encoder makes of either size in each quality.
Encoders == [1..2 -> [DOMAIN GJpegQualityLadder -> Encodings]]

\* One size in less and less quality: the first bytes that fit end it, and so does
\* an encoder that fails; else the last attempt is over the budget.
TryCandidate(made) ==
    LET last == CHOOSE q \in DOMAIN made :
                    /\ made[q] # "over" \/ q = Len(GJpegQualityLadder)
                    /\ \A p \in DOMAIN made : p < q => made[p] = "over"
    IN  made[last]

ProcessForManagedStorage(image, encoder) ==
    LET sizes == SizesTried(image)
        n     == IF TryCandidate(encoder[1]) = "fits" THEN 1 ELSE Len(sizes)
        bytes == TryCandidate(encoder[n])
    IN  IF bytes = "nothing" THEN [status |-> "Failed"]
        ELSE [status |-> "Processed", size |-> sizes[n], inBudget |-> bytes = "fits"]

HasPixels(image) == image.width > 0 /\ image.height > 0

\* What the processor may answer about a cover.
ProcessingResults(image) ==
    IF HasPixels(image)
    THEN {ProcessForManagedStorage(image, e) : e \in Encoders}
    ELSE {[status |-> "Failed"]}

\* The original is stored when there is nothing else.
ResolveManagedCoverData(result) ==
    IF result.status = "Processed"
    THEN [made |-> "jpg", size |-> result.size, inBudget |-> result.inBudget]
    ELSE [made |-> "original"]

ManagedCovers ==
    [b \in DOMAIN CoverOf |->
        {ResolveManagedCoverData(r) : r \in ProcessingResults(CoverOf[b])}]
=============================================================================
