----------------------------- MODULE ImageResize -----------------------------
(***************************************************************************)
(* resizeMax of internal/handlers/media/image_processor.go: the size of an *)
(* image that must fit a square box, and the pixels it is sampled from.    *)
(* A size is a pair <<width, height>>.                                     *)
(*                                                                         *)
(* The code scales by ratio, a float64.  For sides that an image can have  *)
(* the rounding errors are far smaller than the distance of a quotient to  *)
(* the next integer above it, so int() gives the exact floor, or one less   *)
(* if the exact quotient is an integer.  Truncations allows both.          *)
(***************************************************************************)
EXTENDS Integers

\* int() of n / d as computed in floating point.
Truncations(n, d) ==
    {n \div d} \cup {q \in {(n \div d) - 1} : n % d = 0 /\ q >= 0}

Longest(size) == IF size[1] >= size[2] THEN size[1] ELSE size[2]

\* Mutant: a side that is scaled to nothing stays so.
Unclamped(n) == n

\* targetW < 1, targetH < 1
AtLeastOne(n) == IF n < 1 THEN 1 ELSE n

\* The smaller of the two ratios, max / Longest, applies to both sides.
Scaled(side, size, max) ==
    {AtLeastOne(n) : n \in Truncations(side * max, Longest(size))}

\* Mutant: each side is cut to the box by itself.
CutToBox(size, max) ==
    {<<IF size[1] > max THEN max ELSE size[1], IF size[2] > max THEN max ELSE size[2]>>}

\* An image that fits is copied.
resizeMax(size, max) ==
    IF size[1] <= max /\ size[2] <= max
    THEN {size}
    ELSE Scaled(size[1], size, max) \X Scaled(size[2], size, max)

\* Mutant: the pixel is looked up by the ratio instead of its inverse.
SamplesByRatio(x, side, size, max) == Truncations(x * max, Longest(size))

\* Where pixel x of a scaled side comes from: int(x / ratio), kept inside.
Samples(x, side, size, max) ==
    {IF n >= side THEN side - 1 ELSE n : n \in Truncations(x * Longest(size), max)}
=============================================================================
