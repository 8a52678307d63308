------------------------- MODULE MediaProcessorsProofs -------------------------
(***************************************************************************)
(* The sizes of the variants of an image and the pixels they are sampled   *)
(* from, for every size of the image and of the boxes and whatever the     *)
(* rounding of the quotients; the text of a PDF, for every document.       *)
(***************************************************************************)
EXTENDS MediaProcessors, SequenceTheorems, WellFoundedInduction, TLAPS

LEMMA Quotient ==
    ASSUME NEW n \in Nat, NEW d \in Nat \ {0}
    PROVE  /\ n \div d \in Nat
           /\ (n \div d) * d <= n
           /\ n < ((n \div d) + 1) * d
           /\ n % d = 0 => n = (n \div d) * d
<1> DEFINE q == n \div d
<1>1. n = d * q + (n % d) /\ q \in Int /\ n % d \in 0 .. d - 1
    OBVIOUS
<1> HIDE DEF q
<1>2. q >= 0
    <2>1. SUFFICES ASSUME q <= -1 PROVE FALSE
        BY <1>1
    <2>2. d * q <= -d
        BY <1>1, <2>1
    <2> QED BY <1>1, <2>2
<1>3. (q + 1) * d = d * q + d /\ q * d = d * q
    BY <1>1
<1> QED BY <1>1, <1>2, <1>3 DEF q

\* Multiplication by a positive number can be cancelled.
LEMMA Cancel ==
    ASSUME NEW m \in Nat, NEW n \in Nat, NEW d \in Nat \ {0}, m * d < n * d
    PROVE  m < n
<1>1. SUFFICES ASSUME n <= m PROVE FALSE
    OBVIOUS
<1>2. PICK e \in Nat : m = n + e
    BY <1>1
<1>3. m * d = n * d + e * d /\ e * d >= 0
    BY <1>2
<1> QED BY <1>3

LEMMA Truncation ==
    ASSUME NEW n \in Nat, NEW d \in Nat \ {0}, NEW q \in Truncations(n, d)
    PROVE  q \in Nat /\ q * d <= n /\ n <= (q + 1) * d
<1>1. CASE q = n \div d
    BY <1>1, Quotient
<1>2. CASE q = (n \div d) - 1 /\ n % d = 0 /\ q >= 0
    <2>1. q \in Nat /\ n \div d = q + 1 /\ n = (q + 1) * d
        BY <1>2, Quotient
    <2>2. (q + 1) * d = q * d + d
        BY <2>1
    <2> QED BY <2>1, <2>2
<1> QED BY <1>1, <1>2 DEF Truncations

\* A scaled side fits the box and the side, and is off by less than a pixel.
LEMMA ScaledSide ==
    ASSUME NEW size \in Sizes, NEW max \in Nat \ {0}, NEW side \in Nat \ {0},
           side <= Longest(size), max < Longest(size), NEW n \in Scaled(side, size, max)
    PROVE  /\ n \in 1 .. max /\ n <= side
           /\ side * max <= (n + 1) * Longest(size)
           /\ n * Longest(size) <= side * max + Longest(size)
<1> DEFINE l == Longest(size)
<1>1. l \in Nat \ {0}
    BY DEF Longest, Sizes
<1>2. PICK q \in Truncations(side * max, l) : n = AtLeastOne(q)
    BY DEF Scaled
<1> HIDE DEF l
<1>3. side * max \in Nat
    OBVIOUS
<1>4. q \in Nat /\ q * l <= side * max /\ side * max <= (q + 1) * l
    BY <1>1, <1>2, <1>3, Truncation
<1>5. q <= max
    <2>1. side * max <= l * max
        <3>1. PICK e \in Nat : l = side + e
            BY <1>1 DEF l
        <3>2. l * max = side * max + e * max /\ e * max >= 0
            BY <3>1
        <3> QED BY <3>2
    <2>2. l * max < (max + 1) * l
        BY <1>1
    <2>3. q * l < (max + 1) * l
        BY <1>1, <1>3, <1>4, <2>1, <2>2
    <2>4. q < max + 1
        BY <1>1, <1>4, <2>3, Cancel
    <2> QED BY <1>4, <2>4
<1>6. q <= side
    <2>1. side * max < side * l
        <3>1. PICK e \in Nat \ {0} : l = max + e
            BY <1>1 DEF l
        <3>2. side * l = side * max + side * e /\ side * e > 0
            BY <3>1
        <3> QED BY <3>2, <1>3
    <2>2. q * l < side * l
        BY <1>1, <1>3, <1>4, <2>1
    <2> QED BY <1>1, <1>4, <2>2, Cancel
<1>7. CASE q >= 1
    <2>1. n = q
        BY <1>2, <1>4, <1>7 DEF AtLeastOne
    <2> QED BY <1>1, <1>3, <1>4, <1>5, <1>6, <1>7, <2>1 DEF l
<1>8. CASE q = 0
    <2>1. n = 1
        BY <1>2, <1>8 DEF AtLeastOne
    <2>2. (q + 1) * l = l /\ (n + 1) * l = l + l /\ n * l = l
        BY <1>1, <1>8, <2>1
    <2> QED BY <1>1, <1>3, <1>4, <2>1, <2>2 DEF l
<1> QED BY <1>4, <1>7, <1>8

\* The skew of sides that are each off by less than a pixel.
LEMMA Skew ==
    ASSUME NEW w \in Nat, NEW h \in Nat, NEW l \in Nat \ {0}, NEW max \in Nat,
           NEW m \in Nat, NEW n \in Nat,
           m * l <= w * max + l, h * max <= (n + 1) * l
    PROVE  m * h - n * w <= w + h
<1>1. SUFFICES ASSUME m * h > n * w + w + h PROVE FALSE
    OBVIOUS
<1>2. (m * l) * h <= (w * max + l) * h
    OBVIOUS
<1>3. (h * max) * w <= ((n + 1) * l) * w
    OBVIOUS
<1>4. (w * max + l) * h = (h * max) * w + l * h
    OBVIOUS
<1>5. (m * h) * l <= (n * w + w + h) * l
    <2>1. (m * h) * l = (m * l) * h
        OBVIOUS
    <2>2. (n * w + w + h) * l = ((n + 1) * l) * w + l * h
        OBVIOUS
    <2> QED BY <1>2, <1>3, <1>4, <2>1, <2>2
<1>6. (n * w + w + h) * l < (m * h) * l
    <2>1. PICK e \in Nat \ {0} : m * h = (n * w + w + h) + e
        BY <1>1
    <2>2. (m * h) * l = (n * w + w + h) * l + e * l /\ e * l > 0
        BY <2>1
    <2> QED BY <2>2
<1> QED BY <1>5, <1>6

\* What resizeMax promises of a size.
Fine(size, max, new) ==
    /\ \A side \in {1, 2} : new[side] \in 1 .. max /\ new[side] <= size[side]
    /\ new[1] * size[2] - new[2] * size[1] <= size[1] + size[2]
    /\ -(new[1] * size[2] - new[2] * size[1]) <= size[1] + size[2]

LEMMA ResizeIsFine ==
    ASSUME NEW size \in Sizes, NEW max \in Nat \ {0}, NEW new \in resizeMax(size, max)
    PROVE  Fine(size, max, new)
<1> DEFINE w == size[1]
           h == size[2]
           l == Longest(size)
<1>1. w \in Nat \ {0} /\ h \in Nat \ {0} /\ l \in Nat \ {0} /\ w <= l /\ h <= l
    BY DEF Sizes, Longest
<1>2. CASE w <= max /\ h <= max
    <2>1. new = size
        BY <1>2 DEF resizeMax
    <2> QED BY <1>1, <1>2, <2>1 DEF Fine
<1>3. CASE ~(w <= max /\ h <= max)
    <2>1. max < l
        BY <1>1, <1>3 DEF Longest
    <2>2. new[1] \in Scaled(w, size, max) /\ new[2] \in Scaled(h, size, max)
        BY <1>3 DEF resizeMax
    <2>3. /\ new[1] \in 1 .. max /\ new[1] <= w
          /\ w * max <= (new[1] + 1) * l
          /\ new[1] * l <= w * max + l
        BY <1>1, <2>1, <2>2, ScaledSide
    <2>4. /\ new[2] \in 1 .. max /\ new[2] <= h
          /\ h * max <= (new[2] + 1) * l
          /\ new[2] * l <= h * max + l
        BY <1>1, <2>1, <2>2, ScaledSide
    <2>5. new[1] \in Nat /\ new[2] \in Nat
        BY <2>3, <2>4
    <2> HIDE DEF w, h, l
    <2>6. new[1] * h - new[2] * w <= w + h
        BY <1>1, <2>3, <2>4, <2>5, Skew
    <2>7. new[2] * w - new[1] * h <= h + w
        BY <1>1, <2>3, <2>4, <2>5, Skew
    <2>8. -(new[1] * h - new[2] * w) <= w + h
        <3>1. new[1] * h \in Int /\ new[2] * w \in Int
            BY <1>1, <2>5
        <3> QED BY <1>1, <2>7, <3>1
    <2> QED BY <2>3, <2>4, <2>6, <2>8 DEF Fine, w, h
<1> QED BY <1>2, <1>3

\* A larger box gives no smaller side.
LEMMA ScaledIsMonotone ==
    ASSUME NEW size \in Sizes, NEW side \in Nat \ {0},
           NEW max \in Nat \ {0}, NEW larger \in Nat, max < larger,
           NEW m \in Scaled(side, size, max), NEW n \in Scaled(side, size, larger)
    PROVE  m <= n
<1> DEFINE l == Longest(size)
<1>1. l \in Nat \ {0}
    BY DEF Longest, Sizes
<1>2. PICK p \in Truncations(side * max, l) : m = AtLeastOne(p)
    BY DEF Scaled
<1>3. PICK q \in Truncations(side * larger, l) : n = AtLeastOne(q)
    BY DEF Scaled
<1> HIDE DEF l
<1>4. p \in Nat /\ p * l <= side * max
    BY <1>1, <1>2, Truncation
<1>5. q \in Nat /\ side * larger <= (q + 1) * l
    BY <1>1, <1>3, Truncation
<1>6. side * max < side * larger
    <2>1. PICK e \in Nat \ {0} : larger = max + e
        OBVIOUS
    <2>2. side * larger = side * max + side * e /\ side * e > 0
        BY <2>1
    <2> QED BY <2>2
<1>7. p * l < (q + 1) * l
    BY <1>1, <1>4, <1>5, <1>6
<1>8. p < q + 1
    BY <1>1, <1>4, <1>5, <1>7, Cancel
<1> QED BY <1>2, <1>3, <1>4, <1>5, <1>8 DEF AtLeastOne

LEMMA ResizeNests ==
    ASSUME NEW size \in Sizes, NEW max \in Nat \ {0}, NEW larger \in Nat, max < larger,
           NEW small \in resizeMax(size, max), NEW new \in resizeMax(size, larger),
           NEW side \in {1, 2}
    PROVE  small[side] <= new[side]
<1>1. size[1] \in Nat \ {0} /\ size[2] \in Nat \ {0}
    BY DEF Sizes
<1>2. CASE size[1] <= larger /\ size[2] <= larger
    <2>1. new = size
        BY <1>2 DEF resizeMax
    <2> QED BY <2>1, ResizeIsFine DEF Fine
<1>3. CASE ~(size[1] <= larger /\ size[2] <= larger)
    <2>1. ~(size[1] <= max /\ size[2] <= max)
        BY <1>1, <1>3
    <2>2. new[side] \in Scaled(size[side], size, larger)
        BY <1>3 DEF resizeMax
    <2>3. small[side] \in Scaled(size[side], size, max)
        BY <2>1 DEF resizeMax
    <2> QED BY <1>1, <2>2, <2>3, ScaledIsMonotone
<1> QED BY <1>2, <1>3

-----------------------------------------------------------------------------
\* The artifacts of an image, in the order in which they are saved.
Variants ==
    isImage =>
        /\ upload \in Sizes
        /\ \/ made = <<>>
           \/ \E t \in resizeMax(upload, ThumbMax) : made = <<t>>
           \/ \E t \in resizeMax(upload, ThumbMax), m \in resizeMax(upload, MediumMax) :
                 made = <<t, m>> \/ made = <<t, m, m>>

LEMMA AppendToTuple ==
    ASSUME NEW t, NEW m, NEW n
    PROVE  Append(<<t>>, m) = <<t, m>> /\ Append(<<t, m>>, n) = <<t, m, n>>
<1> DEFINE S == {t, m, n}
<1>1. <<t>> \in Seq(S) /\ <<t, m>> \in Seq(S) /\ <<t, m, n>> \in Seq(S)
    OBVIOUS
<1>2. ASSUME NEW q \in Seq(S), NEW p \in Seq(S), Len(q) = 2, Len(p) = 2,
             q[1] = p[1], q[2] = p[2]
      PROVE  q = p
    <2>1. \A i \in 1 .. Len(q) : q[i] = p[i]
        BY <1>2
    <2> QED BY <1>2, <2>1, SeqEqual
<1>3. ASSUME NEW q \in Seq(S), NEW p \in Seq(S), Len(q) = 3, Len(p) = 3,
             q[1] = p[1], q[2] = p[2], q[3] = p[3]
      PROVE  q = p
    <2>1. \A i \in 1 .. Len(q) : q[i] = p[i]
        BY <1>3
    <2> QED BY <1>3, <2>1, SeqEqual
<1>4. /\ Append(<<t>>, m) \in Seq(S) /\ Len(Append(<<t>>, m)) = 2
      /\ Append(<<t>>, m)[1] = t /\ Append(<<t>>, m)[2] = m
    BY <1>1, AppendProperties
<1>5. /\ Append(<<t, m>>, n) \in Seq(S) /\ Len(Append(<<t, m>>, n)) = 3
      /\ Append(<<t, m>>, n)[1] = t /\ Append(<<t, m>>, n)[2] = m
      /\ Append(<<t, m>>, n)[3] = n
    BY <1>1, AppendProperties
<1> HIDE DEF S
<1>6. Len(<<t, m>>) = 2 /\ <<t, m>>[1] = t /\ <<t, m>>[2] = m
    OBVIOUS
<1>7. /\ Len(<<t, m, n>>) = 3 /\ <<t, m, n>>[1] = t /\ <<t, m, n>>[2] = m
      /\ <<t, m, n>>[3] = n
    OBVIOUS
<1>8. Append(<<t>>, m) = <<t, m>>
    BY <1>1, <1>2, <1>4, <1>6
<1>9. Append(<<t, m>>, n) = <<t, m, n>>
    BY <1>1, <1>3, <1>5, <1>7
<1> QED BY <1>8, <1>9

LEMMA VariantsInvariant == Spec => []Variants
<1>1. Init => Variants
    BY DEF Init, Variants
<1>2. Variants /\ [Next]_vars => Variants'
    <2> SUFFICES ASSUME Variants, [Next]_vars, isImage' PROVE Variants'
        BY DEF Variants
    <2>1. CASE UNCHANGED vars
        BY <2>1 DEF vars, Variants
    <2>2. CASE SaveThumbnail
        BY <2>2 DEF SaveThumbnail, Save, Variants
    <2>3. CASE SaveMedium
        <3>1. PICK t \in resizeMax(upload, ThumbMax) : made = <<t>>
            BY <2>3 DEF SaveMedium, Variants
        <3>2. PICK m \in resizeMax(upload, MediumMax) : Save(m)
            BY <2>3 DEF SaveMedium
        <3>3. made' = <<t, m>>
            BY <3>1, <3>2, AppendToTuple DEF Save
        <3> QED BY <2>3, <3>2, <3>3 DEF SaveMedium, Save, Variants
    <2>4. CASE SaveOptimized
        <3>1. PICK t \in resizeMax(upload, ThumbMax), m \in resizeMax(upload, MediumMax) :
                  made = <<t, m>>
            BY <2>4 DEF SaveOptimized, Variants
        <3>2. made' = <<t, m, m>>
            BY <2>4, <3>1, AppendToTuple DEF SaveOptimized, Save
        <3> QED BY <2>4, <3>2 DEF SaveOptimized, Save, Variants
    <2>5. CASE SaveText \/ SaveCover
        BY <2>5 DEF SaveText, SaveCover, Save
    <2> QED BY <2>1, <2>2, <2>3, <2>4, <2>5 DEF Next
<1> QED BY <1>1, <1>2, PTL DEF Spec

\* Of every image artifact, at its place in the order.
LEMMA VariantIsFine ==
    ASSUME Variants, isImage, NEW i \in DOMAIN made
    PROVE  /\ upload \in Sizes
           /\ i \in {1, 2, 3}
           /\ made[i] \in resizeMax(upload, BoxOf(i))
           /\ Fine(upload, BoxOf(i), made[i])
<1>1. /\ upload \in Sizes
      /\ i \in {1, 2, 3}
      /\ made[i] \in resizeMax(upload, BoxOf(i))
    BY DEF Variants, BoxOf
<1>2. BoxOf(i) \in Nat \ {0}
    BY ProcessorsAssumption DEF BoxOf
<1> QED BY <1>1, <1>2, ResizeIsFine

\* For every image and every box: at least a pixel, at most the box, at most
\* the upload.
THEOREM VariantsFit == Spec => []FitsTheBox
<1>1. Variants => FitsTheBox
    BY VariantIsFine DEF FitsTheBox, Fine
<1> QED BY <1>1, VariantsInvariant, PTL

\* For every image the aspect ratio is kept up to one pixel a side.
THEOREM AspectIsKept == Spec => []KeepsAspect
<1>1. Variants => KeepsAspect
    BY VariantIsFine DEF KeepsAspect, Fine
<1> QED BY <1>1, VariantsInvariant, PTL

\* For every image no variant has a longer side than a later one.
THEOREM VariantsAreNested == Spec => []VariantsNest
<1>1. Variants => VariantsNest
    <2> SUFFICES ASSUME Variants, isImage, NEW i \in DOMAIN made, NEW k \in DOMAIN made,
                        NEW side \in {1, 2}, i <= k
                 PROVE  made[i][side] <= made[k][side]
        BY DEF VariantsNest
    <2>1. /\ upload \in Sizes
          /\ i \in {1, 2, 3} /\ k \in {1, 2, 3}
          /\ made[i] \in resizeMax(upload, BoxOf(i))
          /\ made[k] \in resizeMax(upload, BoxOf(k))
          /\ made[i][side] \in Nat
        BY VariantIsFine DEF Fine
    <2>2. CASE i = 1 /\ k # 1
        BY <2>1, <2>2, ResizeNests, ProcessorsAssumption DEF BoxOf
    <2>3. CASE i # 1 \/ k = 1
        <3>1. made[i] = made[k]
            BY <2>1, <2>3 DEF Variants
        <3> QED BY <2>1, <3>1
    <2> QED BY <2>2, <2>3
<1> QED BY <1>1, VariantsInvariant, PTL

-----------------------------------------------------------------------------
\* The pixel of the upload that pixel x of a scaled side is sampled from.
LEMMA SampleIsNear ==
    ASSUME NEW side \in Nat \ {0}, NEW l \in Nat \ {0}, NEW max \in Nat \ {0}, max < l,
           NEW new \in Nat \ {0}, side * max <= (new + 1) * l,
           NEW x \in 0 .. new - 1, NEW q \in Truncations(x * l, max)
    PROVE  LET n == IF q >= side THEN side - 1 ELSE q
           IN  /\ n \in 0 .. side - 1
               /\ (side - n) * max <= (new - x + 2) * l
<1>1. x * l \in Nat /\ x \in Nat
    OBVIOUS
<1>2. q \in Nat /\ q * max <= x * l /\ x * l <= (q + 1) * max
    BY <1>1, Truncation
<1>3. (new - x + 2) * l = (new + 1) * l - x * l + l
    BY <1>1
<1>4. CASE q >= side
    <2>1. PICK e \in Nat : new = x + 1 + e
        BY <1>1
    <2>2. (new - x + 2) * l = 3 * l + e * l /\ e * l >= 0
        BY <2>1
    <2>3. (side - (side - 1)) * max = max
        OBVIOUS
    <2> QED BY <1>4, <2>2, <2>3
<1>5. CASE q < side
    <2>1. (side - q) * max = side * max - q * max /\ (q + 1) * max = q * max + max
        BY <1>2
    <2>2. side * max \in Nat /\ q * max \in Nat /\ (new + 1) * l \in Nat
        BY <1>2
    <2>3. (side - q) * max <= (new - x + 2) * l
        BY <1>1, <1>2, <1>3, <2>1, <2>2
    <2> QED BY <1>2, <1>5, <2>3
<1> QED BY <1>2, <1>4, <1>5

\* For every image and every box: no pixel is sampled from outside the upload,
\* and the last pixels come from its far side.
THEOREM SamplesReachFar == Spec => []SamplesSpread
<1>1. Variants => SamplesSpread
    <2> SUFFICES ASSUME Variants, isImage, NEW i \in DOMAIN made, NEW side \in {1, 2},
                        made[i] # upload, NEW x \in 0 .. made[i][side] - 1,
                        NEW n \in Samples(x, upload[side], upload, BoxOf(i))
                 PROVE  /\ n \in 0 .. upload[side] - 1
                        /\ (upload[side] - n) * BoxOf(i) <=
                               (made[i][side] - x + 2) * Longest(upload)
        BY DEF SamplesSpread
    <2> DEFINE max == BoxOf(i)
               l   == Longest(upload)
    <2>1. upload \in Sizes /\ made[i] \in resizeMax(upload, max)
        BY VariantIsFine
    <2>2. max \in Nat \ {0}
        BY ProcessorsAssumption DEF BoxOf
    <2>3. /\ upload[1] \in Nat \ {0} /\ upload[2] \in Nat \ {0} /\ l \in Nat \ {0}
          /\ upload[1] <= l /\ upload[2] <= l
        BY <2>1 DEF Sizes, Longest
    <2>4. ~(upload[1] <= max /\ upload[2] <= max)
        BY <2>1 DEF resizeMax
    <2>5. max < l
        BY <2>1, <2>2, <2>4 DEF Sizes, Longest
    <2>6. made[i][side] \in Scaled(upload[side], upload, max)
        BY <2>1, <2>4 DEF resizeMax
    <2>7. made[i][side] \in 1 .. max /\ upload[side] * max <= (made[i][side] + 1) * l
        BY <2>1, <2>2, <2>3, <2>5, <2>6, ScaledSide
    <2>8. PICK q \in Truncations(x * l, max) :
              n = IF q >= upload[side] THEN upload[side] - 1 ELSE q
        BY DEF Samples
    <2>9. made[i][side] \in Nat \ {0}
        BY <2>2, <2>7
    <2> QED BY <2>2, <2>3, <2>5, <2>7, <2>8, <2>9, SampleIsNear
<1> QED BY <1>1, VariantsInvariant, PTL

-----------------------------------------------------------------------------
(* Induction *)

\* Every non-empty set of numbers has a least one: with it, induction is a
\* statement about sets.
LEMMA Least ==
    ASSUME NEW T \in SUBSET Nat, T # {}
    PROVE  FirstOf(T) \in T /\ \A m \in T : FirstOf(T) <= m
<1>1. IsWellFoundedOn(OpToRel(<, Nat), Nat)
    BY NatLessThanWellFounded
<1>2. PICK n \in T : \A m \in T : <<m, n>> \notin OpToRel(<, Nat)
    BY <1>1, WFMin
<1>3. ASSUME NEW m \in T PROVE n <= m
  <2>1. <<m, n>> \in Nat \X Nat /\ ~(<<m, n>>[1] < <<m, n>>[2])
      BY <1>2 DEF OpToRel
  <2> QED BY <2>1
<1> QED BY <1>3 DEF FirstOf

\* Induction from the end of a sequence to its beginning.
LEMMA FromTheEnd ==
    ASSUME NEW n \in Nat, NEW T,
           n + 1 \in T,
           \A i \in 1 .. n : (\A k \in i + 1 .. n + 1 : k \in T) => i \in T
    PROVE  \A i \in 1 .. n + 1 : i \in T
<1> DEFINE U == {k \in 0 .. n : n + 1 - k \notin T}
<1>1. SUFFICES ASSUME U # {} PROVE FALSE
  <2>1. ASSUME NEW i \in 1 .. n + 1, U = {} PROVE i \in T
    <3>1. n + 1 - i \in 0 .. n /\ n + 1 - (n + 1 - i) = i
        OBVIOUS
    <3> QED BY <3>1, <2>1
  <2> QED BY <2>1
<1>2. U \in SUBSET Nat
    OBVIOUS
<1>3. PICK k \in U : \A m \in U : k <= m
    BY <1>1, <1>2, Least
<1>4. k \in 1 .. n /\ n + 1 - k \in 1 .. n
    BY <1>3
<1>5. ASSUME NEW i \in n + 1 - k + 1 .. n + 1 PROVE i \in T
  <2>1. n + 1 - i \in 0 .. n /\ n + 1 - i < k /\ n + 1 - (n + 1 - i) = i
      BY <1>4
  <2> QED BY <1>3, <2>1
<1> QED BY <1>3, <1>4, <1>5

\* Induction from the beginning of a sequence to its end.
LEMMA FromTheStart ==
    ASSUME NEW n \in Nat, NEW T,
           1 \in T,
           \A i \in 1 .. n : i \in T => i + 1 \in T
    PROVE  \A i \in 1 .. n + 1 : i \in T
<1> DEFINE U == {i \in 1 .. n + 1 : i \notin T}
<1>1. SUFFICES ASSUME U # {} PROVE FALSE
    OBVIOUS
<1>2. U \in SUBSET Nat
    OBVIOUS
<1>3. FirstOf(U) \in U /\ \A m \in U : FirstOf(U) <= m
    BY <1>1, <1>2, Least
<1>4. PICK i \in U : \A m \in U : i <= m
    BY <1>3
<1>5. i - 1 \in 1 .. n /\ i - 1 \notin U /\ i - 1 + 1 = i
    BY <1>4
<1> QED BY <1>4, <1>5

\* f takes pre[i] at position i >= m and goes on at a later one, nxt[i]; at the
\* end there is nothing.
Solves(f, pre, nxt, m, n) ==
    /\ f[n + 1] = <<>>
    /\ \A i \in m .. n : f[i] = pre[i] \o f[nxt[i]]

Solvable(S, pre, nxt, m, n) ==
    \E f \in [m .. n + 1 -> Seq(S)] : Solves(f, pre, nxt, m, n)

\* Such a function exists.
LEMMA Recursion ==
    ASSUME NEW n \in Nat, NEW S,
           NEW pre \in [1 .. n -> Seq(S)],
           NEW nxt \in [1 .. n -> Nat],
           \A i \in 1 .. n : nxt[i] \in i + 1 .. n + 1
    PROVE  Solvable(S, pre, nxt, 1, n)
<1>1. Solvable(S, pre, nxt, n + 1, n)
  <2> DEFINE g == [i \in n + 1 .. n + 1 |-> <<>>]
  <2>1. <<>> \in Seq(S)
      BY EmptySeq
  <2>2. g \in [n + 1 .. n + 1 -> Seq(S)] /\ g[n + 1] = <<>>
      BY <2>1
  <2> HIDE DEF g
  <2>3. \A i \in n + 1 .. n : FALSE
      OBVIOUS
  <2>4. Solves(g, pre, nxt, n + 1, n)
      BY <2>2, <2>3 DEF Solves
  <2> QED BY <2>2, <2>4 DEF Solvable
<1>2. ASSUME NEW m \in 1 .. n, Solvable(S, pre, nxt, m + 1, n)
      PROVE  Solvable(S, pre, nxt, m, n)
  <2>1. PICK f \in [m + 1 .. n + 1 -> Seq(S)] : Solves(f, pre, nxt, m + 1, n)
      BY <1>2 DEF Solvable
  <2> DEFINE g == [i \in m .. n + 1 |-> IF i = m THEN pre[m] \o f[nxt[m]] ELSE f[i]]
  <2>2. pre[m] \o f[nxt[m]] \in Seq(S)
    <3>1. pre[m] \in Seq(S) /\ f[nxt[m]] \in Seq(S)
        OBVIOUS
    <3> QED BY <3>1, ConcatProperties
  <2>3. g \in [m .. n + 1 -> Seq(S)]
    <3>1. ASSUME NEW i \in m .. n + 1, i # m PROVE f[i] \in Seq(S)
      <4>1. i \in m + 1 .. n + 1
          BY <3>1
      <4> QED BY <4>1
    <3> QED BY <2>2, <3>1
  <2>4. /\ \A i \in m + 1 .. n + 1 : g[i] = f[i]
        /\ g[m] = pre[m] \o f[nxt[m]]
    <3>1. m \in m .. n + 1 /\ \A i \in m + 1 .. n + 1 : i \in m .. n + 1 /\ i # m
        OBVIOUS
    <3> QED BY <3>1
  <2> HIDE DEF g
  <2>5. ASSUME NEW i \in m .. n PROVE g[i] = pre[i] \o g[nxt[i]]
    <3>1. i \in 1 .. n /\ nxt[i] \in m + 1 .. n + 1
      <4>1. i \in 1 .. n
          OBVIOUS
      <4>2. nxt[i] \in i + 1 .. n + 1
          BY <4>1
      <4> QED BY <4>1, <4>2
    <3>2. g[nxt[i]] = f[nxt[i]]
        BY <3>1, <2>4
    <3>3. CASE i = m
        BY <3>2, <3>3, <2>4
    <3>4. CASE i # m
      <4>1. i \in m + 1 .. n /\ i \in m + 1 .. n + 1
          BY <3>4
      <4>2. f[i] = pre[i] \o f[nxt[i]]
          BY <4>1, <2>1 DEF Solves
      <4> QED BY <4>1, <4>2, <3>2, <2>4
    <3> QED BY <3>3, <3>4
  <2>6. Solves(g, pre, nxt, m, n)
    <3>1. n + 1 \in m + 1 .. n + 1
        OBVIOUS
    <3> QED BY <2>1, <2>4, <2>5, <3>1 DEF Solves
  <2> QED BY <2>3, <2>6 DEF Solvable
<1> DEFINE T == {m \in 1 .. n + 1 : Solvable(S, pre, nxt, m, n)}
<1>3. n + 1 \in T
    BY <1>1
<1>4. ASSUME NEW i \in 1 .. n, \A k \in i + 1 .. n + 1 : k \in T PROVE i \in T
  <2>1. i + 1 \in i + 1 .. n + 1
      OBVIOUS
  <2>2. i + 1 \in T
      BY <2>1, <1>4
  <2> QED BY <2>2, <1>2
<1> HIDE DEF T
<1>5. \A i \in 1 .. n + 1 : i \in T
    BY <1>3, <1>4, FromTheEnd
<1>6. 1 \in 1 .. n + 1
    OBVIOUS
<1> QED BY <1>5, <1>6 DEF T

-----------------------------------------------------------------------------
(* Where the commands of a PDF are in its content stream *)

Tokens == Strings \cup Punctuation

\* w is what s says from position p on.
At(s, p, w) == \A k \in 1 .. Len(w) : s[p + k - 1] = w[k]

\* Two sequences, joined.
LEMMA Joined ==
    ASSUME NEW S, NEW v \in Seq(S), NEW e \in Seq(S)
    PROVE  /\ v \o e \in Seq(S)
           /\ Len(v) \in Nat /\ Len(e) \in Nat
           /\ Len(v \o e) = Len(v) + Len(e)
           /\ \A k \in 1 .. Len(v) : (v \o e)[k] = v[k]
           /\ \A k \in 1 .. Len(e) : (v \o e)[Len(v) + k] = e[k]
<1>1. Len(v) \in Nat /\ Len(e) \in Nat
    BY LenProperties
<1>2. ASSUME NEW k \in 1 .. Len(e) PROVE (v \o e)[Len(v) + k] = e[k]
  <2>1. Len(v) + k \in 1 .. Len(v) + Len(e) /\ ~(Len(v) + k <= Len(v)) /\ Len(v) + k - Len(v) = k
      BY <1>1
  <2> QED BY <2>1, ConcatProperties
<1>3. ASSUME NEW k \in 1 .. Len(v) PROVE (v \o e)[k] = v[k]
  <2>1. k \in 1 .. Len(v) + Len(e) /\ k <= Len(v)
      BY <1>1
  <2> QED BY <2>1, ConcatProperties
<1> QED BY <1>1, <1>2, <1>3, ConcatProperties

\* The end of the line, if any.
LEMMA LineEnd ==
    ASSUME NEW ends \in BOOLEAN
    PROVE  LET e == IF ends THEN <<"newline">> ELSE <<>>
           IN  /\ e \in Seq(Tokens)
               /\ Len(e) = IF ends THEN 1 ELSE 0
               /\ ends => e[1] = "newline"
<1>1. "newline" \in Tokens
    BY DEF Tokens, Punctuation
<1>2. CASE ends
    BY <1>1, <1>2
<1>3. CASE ~ends
    BY <1>1, <1>3
<1> QED BY <1>2, <1>3

LEMMA WrittenTj ==
    ASSUME NEW c \in Commands, c.op = "Tj"
    PROVE  LET w == Written(c)
           IN  /\ w \in Seq(Tokens)
               /\ Len(w) = IF c.ends THEN 3 ELSE 2
               /\ w[1] \in Strings /\ c.shows = <<w[1]>>
               /\ w[2] = "Tj"
               /\ c.ends => w[3] = "newline"
<1>1. PICK t \in Strings : c.shows = <<t>>
    BY DEF Commands
<1>2. c.ends \in BOOLEAN /\ "Tj" \in Tokens /\ t \in Tokens
    BY DEF Commands, Tokens, Punctuation
<1> DEFINE v == <<t>> \o <<"Tj">>
           e == IF c.ends THEN <<"newline">> ELSE <<>>
           w == v \o e
<1>3. v \in Seq(Tokens) /\ Len(v) = 2 /\ v[1] = t /\ v[2] = "Tj"
  <2>1. /\ <<t>> \in Seq(Tokens) /\ Len(<<t>>) = 1 /\ <<t>>[1] = t
        /\ <<"Tj">> \in Seq(Tokens) /\ Len(<<"Tj">>) = 1 /\ <<"Tj">>[1] = "Tj"
      BY <1>2
  <2> QED BY <2>1, Joined
<1> HIDE DEF v
<1>4. e \in Seq(Tokens) /\ Len(e) = (IF c.ends THEN 1 ELSE 0) /\ (c.ends => e[1] = "newline")
    BY <1>2, LineEnd
<1> HIDE DEF e
<1>5. /\ w \in Seq(Tokens)
      /\ Len(w) = Len(v) + Len(e)
      /\ \A k \in 1 .. Len(v) : w[k] = v[k]
      /\ \A k \in 1 .. Len(e) : w[Len(v) + k] = e[k]
    BY <1>3, <1>4, Joined
<1>6. Written(c) = w
    BY <1>1 DEF Written, v, e
<1> HIDE DEF w
<1>7. Len(w) = IF c.ends THEN 3 ELSE 2
    BY <1>2, <1>3, <1>4, <1>5
<1>8. w[1] = t /\ w[2] = "Tj"
    BY <1>3, <1>5
<1>9. ASSUME c.ends PROVE w[3] = "newline"
    BY <1>3, <1>4, <1>5, <1>9
<1> QED BY <1>1, <1>5, <1>6, <1>7, <1>8, <1>9

LEMMA WrittenTJ ==
    ASSUME NEW c \in Commands, c.op = "TJ"
    PROVE  LET m == Len(c.shows)
               w == Written(c)
           IN  /\ c.shows \in Seq(Strings) /\ m \in Nat
               /\ w \in Seq(Tokens)
               /\ Len(w) = IF c.ends THEN m + 4 ELSE m + 3
               /\ w[1] = "["
               /\ \A k \in 1 .. m : w[k + 1] = c.shows[k]
               /\ w[m + 2] = "]"
               /\ w[m + 3] = "TJ"
               /\ c.ends => w[m + 4] = "newline"
<1> DEFINE m == Len(c.shows)
<1>1. c.shows \in Seq(Strings) /\ c.ends \in BOOLEAN
    BY DEF Commands
<1>2. c.shows \in Seq(Tokens) /\ m \in Nat
    BY <1>1, SeqMonotonic, LenProperties DEF Tokens
<1> HIDE DEF m
<1>3. /\ <<"[">> \in Seq(Tokens) /\ Len(<<"[">>) = 1 /\ <<"[">>[1] = "["
      /\ <<"]", "TJ">> \in Seq(Tokens) /\ Len(<<"]", "TJ">>) = 2
      /\ <<"]", "TJ">>[1] = "]" /\ <<"]", "TJ">>[2] = "TJ"
    BY DEF Tokens, Punctuation
<1> DEFINE u == <<"[">> \o c.shows
           v == u \o <<"]", "TJ">>
           e == IF c.ends THEN <<"newline">> ELSE <<>>
           w == v \o e
<1>4. /\ u \in Seq(Tokens) /\ Len(u) = 1 + m
      /\ \A k \in 1 .. 1 : u[k] = "["
      /\ \A k \in 1 .. m : u[1 + k] = c.shows[k]
    BY <1>2, <1>3, Joined DEF m
<1> HIDE DEF u
<1>5. /\ v \in Seq(Tokens) /\ Len(v) = Len(u) + 2
      /\ \A k \in 1 .. Len(u) : v[k] = u[k]
      /\ \A k \in 1 .. 2 : v[Len(u) + k] = <<"]", "TJ">>[k]
    BY <1>3, <1>4, Joined
<1> HIDE DEF v
<1>6. e \in Seq(Tokens) /\ Len(e) = (IF c.ends THEN 1 ELSE 0) /\ (c.ends => e[1] = "newline")
    BY <1>1, LineEnd
<1> HIDE DEF e
<1>7. /\ w \in Seq(Tokens) /\ Len(w) = Len(v) + Len(e)
      /\ \A k \in 1 .. Len(v) : w[k] = v[k]
      /\ \A k \in 1 .. Len(e) : w[Len(v) + k] = e[k]
    BY <1>5, <1>6, Joined
<1>8. Written(c) = w
    BY DEF Written, u, v, e
<1> HIDE DEF w
<1>9. Len(v) = m + 3 /\ Len(w) = IF c.ends THEN m + 4 ELSE m + 3
    BY <1>1, <1>2, <1>4, <1>5, <1>6, <1>7
<1>10. w[1] = "["
    BY <1>2, <1>4, <1>5, <1>7
<1>11. ASSUME NEW k \in 1 .. m PROVE w[k + 1] = c.shows[k]
  <2>1. k + 1 \in 1 .. Len(u) /\ k + 1 \in 1 .. Len(v) /\ k + 1 = 1 + k
      BY <1>2, <1>4, <1>9
  <2> QED BY <2>1, <1>4, <1>5, <1>7
<1>12. w[m + 2] = "]" /\ w[m + 3] = "TJ"
  <2>1. m + 2 = Len(u) + 1 /\ m + 3 = Len(u) + 2 /\ m + 2 \in 1 .. Len(v) /\ m + 3 \in 1 .. Len(v)
      BY <1>2, <1>4, <1>9
  <2>2. v[Len(u) + 1] = "]" /\ v[Len(u) + 2] = "TJ"
      BY <1>3, <1>5
  <2> QED BY <2>1, <2>2, <1>7
<1>13. ASSUME c.ends PROVE w[m + 4] = "newline"
  <2>1. m + 4 = Len(v) + 1
      BY <1>2, <1>9
  <2> QED BY <2>1, <1>6, <1>7, <1>13
<1> QED BY <1>1, <1>2, <1>7, <1>8, <1>9, <1>10, <1>11, <1>12, <1>13 DEF m

LEMMA WrittenType ==
    ASSUME NEW c \in Commands
    PROVE  Written(c) \in Seq(Tokens)
  BY WrittenTj, WrittenTJ DEF Commands

\* p[i] is where command i of d starts in s.
IsLayout(s, d, p) ==
    /\ s \in Seq(Tokens)
    /\ p \in [1 .. Len(d) + 1 -> 1 .. Len(s) + 1]
    /\ p[1] = 1
    /\ p[Len(d) + 1] = Len(s) + 1
    /\ \A i \in 1 .. Len(d) : /\ p[i + 1] = p[i] + Len(Written(d[i]))
                              /\ At(s, p[i], Written(d[i]))

\* H[i] is what is before element i in the sequence that joins those of q.
Builds(H, q, S) ==
    /\ H \in [1 .. Len(q) + 1 -> Seq(S)]
    /\ H[1] = <<>>
    /\ \A i \in 1 .. Len(q) : H[i + 1] = H[i] \o q[i]
    /\ FlattenSeq(q) = H[Len(q) + 1]

\* The function in FlattenSeq, as far as m.
Flattens(f, q, m) == \A i \in 1 .. m : f[i] = IF i = 1 THEN q[i] ELSE f[i - 1] \o q[i]

LEMMA FlattenExists ==
    ASSUME NEW S, NEW q \in Seq(Seq(S)), Len(q) # 0
    PROVE  \E f \in [1 .. Len(q) -> Seq(S)] : Flattens(f, q, Len(q))
<1> DEFINE n == Len(q) - 1
           Has(m) == \E f \in [1 .. m -> Seq(S)] : Flattens(f, q, m)
           T == {m \in 1 .. n + 1 : Has(m)}
<1>1. Len(q) \in Nat \ {0} /\ n \in Nat /\ Len(q) = n + 1 /\ \A i \in 1 .. n + 1 : q[i] \in Seq(S)
    BY LenProperties, ElementOfSeq
<1> HIDE DEF n
<1>2. Has(1)
  <2> DEFINE g == [i \in 1 .. 1 |-> q[1]]
  <2>1. 1 \in 1 .. n + 1 /\ q[1] \in Seq(S)
      BY <1>1
  <2>2. g \in [1 .. 1 -> Seq(S)] /\ g[1] = q[1]
      BY <2>1
  <2> HIDE DEF g
  <2>3. Flattens(g, q, 1)
      BY <2>2 DEF Flattens
  <2> QED BY <2>2, <2>3
<1>3. ASSUME NEW m \in 1 .. n, Has(m) PROVE Has(m + 1)
  <2>1. PICK f \in [1 .. m -> Seq(S)] : Flattens(f, q, m)
      BY <1>3
  <2> DEFINE g == [i \in 1 .. m + 1 |-> IF i = m + 1 THEN f[m] \o q[m + 1] ELSE f[i]]
  <2>2. m + 1 \in 1 .. n + 1 /\ m \in 1 .. m /\ \A i \in 1 .. m + 1 : i # m + 1 => i \in 1 .. m
      BY <1>1
  <2>3. f[m] \o q[m + 1] \in Seq(S)
    <3>1. f[m] \in Seq(S) /\ q[m + 1] \in Seq(S)
        BY <1>1, <2>2
    <3> QED BY <3>1, ConcatProperties
  <2>4. g \in [1 .. m + 1 -> Seq(S)]
      BY <2>2, <2>3
  <2>5. g[m + 1] = f[m] \o q[m + 1] /\ \A i \in 1 .. m : g[i] = f[i]
    <3>1. m + 1 \in 1 .. m + 1 /\ \A i \in 1 .. m : i \in 1 .. m + 1 /\ i # m + 1
        BY <2>2
    <3> QED BY <3>1
  <2> HIDE DEF g
  <2>6. ASSUME NEW i \in 1 .. m + 1
        PROVE  g[i] = IF i = 1 THEN q[i] ELSE g[i - 1] \o q[i]
    <3>1. CASE i = m + 1
      <4>1. i - 1 = m /\ i # 1
          BY <3>1
      <4> QED BY <2>2, <2>5, <3>1, <4>1
    <3>2. CASE i # m + 1
      <4>1. i \in 1 .. m /\ (i # 1 => i - 1 \in 1 .. m)
          BY <3>2
      <4>2. f[i] = IF i = 1 THEN q[i] ELSE f[i - 1] \o q[i]
          BY <2>1, <4>1 DEF Flattens
      <4> QED BY <2>5, <4>1, <4>2
    <3> QED BY <3>1, <3>2
  <2>7. Flattens(g, q, m + 1)
      BY <2>6 DEF Flattens
  <2> QED BY <2>4, <2>7
<1> HIDE DEF Has
<1>4. 1 \in T
    BY <1>1, <1>2
<1>5. ASSUME NEW i \in 1 .. n, i \in T PROVE i + 1 \in T
  <2>1. i + 1 \in 1 .. n + 1
      BY <1>1
  <2> QED BY <1>3, <1>5, <2>1
<1> HIDE DEF T
<1>6. \A i \in 1 .. n + 1 : i \in T
    BY <1>1, <1>4, <1>5, FromTheStart
<1>7. n + 1 \in T
    BY <1>1, <1>6
<1>8. Has(n + 1)
    BY <1>7 DEF T
<1> QED BY <1>1, <1>8 DEF Has

LEMMA Flattened ==
    ASSUME NEW S, NEW q \in Seq(Seq(S))
    PROVE  \E H : Builds(H, q, S)
<1> DEFINE n == Len(q)
<1>1. n \in Nat /\ \A i \in 1 .. n : q[i] \in Seq(S)
    BY LenProperties, ElementOfSeq
<1>2. <<>> \in Seq(S)
    BY EmptySeq
<1>3. CASE n = 0
  <2> DEFINE H == [i \in 1 .. 1 |-> <<>>]
  <2>1. q = <<>> /\ FlattenSeq(q) = q
      BY <1>3, EmptySeq DEF FlattenSeq
  <2>2. H \in [1 .. 1 -> Seq(S)] /\ H[1] = <<>>
      BY <1>2
  <2> HIDE DEF H
  <2>3. n + 1 = 1 /\ \A i \in 1 .. n : FALSE
      BY <1>3
  <2>4. Builds(H, q, S)
      BY <2>1, <2>2, <2>3 DEF Builds
  <2> QED BY <2>4
<1>4. CASE n # 0
  <2> DEFINE Eq(f) == f = [i \in 1 .. n |-> IF i = 1 THEN q[i] ELSE f[i - 1] \o q[i]]
             F == CHOOSE f : Eq(f)
  <2>1. FlattenSeq(q) = F[n]
      BY <1>4 DEF FlattenSeq
  <2>2. PICK g \in [1 .. n -> Seq(S)] : Flattens(g, q, n)
      BY <1>4, FlattenExists
  <2>3. Eq(g)
      BY <2>2 DEF Flattens
  <2>4. Eq(F)
      BY <2>3
  <2> HIDE DEF F, n
  <2>5. \A i \in 1 .. n : F[i] = IF i = 1 THEN q[i] ELSE F[i - 1] \o q[i]
      BY <2>4
  <2> DEFINE T == {i \in 1 .. n : F[i] = g[i]}
             m == n - 1
  <2>6. m \in Nat /\ n = m + 1
      BY <1>1, <1>4
  <2> HIDE DEF m
  <2>7. 1 \in T
    <3>1. 1 \in 1 .. n
        BY <2>6
    <3> QED BY <2>2, <2>5, <3>1 DEF Flattens
  <2>8. ASSUME NEW i \in 1 .. m, i \in T PROVE i + 1 \in T
    <3>1. i + 1 \in 1 .. n /\ i + 1 # 1 /\ i + 1 - 1 = i
        BY <2>6
    <3>2. F[i + 1] = F[i] \o q[i + 1]
      <4> DEFINE k == i + 1
      <4>1. k \in 1 .. n /\ k # 1 /\ k - 1 = i
          BY <3>1
      <4> HIDE DEF k
      <4>2. F[k] = F[i] \o q[k]
          BY <2>5, <4>1
      <4> QED BY <4>2 DEF k
    <3>3. g[i + 1] = g[i] \o q[i + 1]
      <4> DEFINE k == i + 1
      <4>1. k \in 1 .. n /\ k # 1 /\ k - 1 = i
          BY <3>1
      <4> HIDE DEF k
      <4>2. g[k] = g[i] \o q[k]
          BY <2>2, <4>1 DEF Flattens
      <4> QED BY <4>2 DEF k
    <3> QED BY <2>8, <3>1, <3>2, <3>3
  <2> HIDE DEF T
  <2>9. \A i \in 1 .. m + 1 : i \in T
      BY <2>6, <2>7, <2>8, FromTheStart
  <2>10. F[n] = g[n]
    <3>1. n \in 1 .. m + 1
        BY <2>6
    <3> QED BY <2>9, <3>1 DEF T
  <2> DEFINE H == [i \in 1 .. n + 1 |-> IF i = 1 THEN <<>> ELSE g[i - 1]]
  <2>11. \A i \in 1 .. n : H[i + 1] = g[i] /\ g[i] \in Seq(S)
    <3> TAKE i \in 1 .. n
    <3>1. i + 1 \in 1 .. n + 1 /\ i + 1 # 1 /\ i + 1 - 1 = i
        BY <2>6
    <3>2. H[i + 1] = g[i]
        BY <3>1
    <3>3. g[i] \in Seq(S)
        BY <2>2
    <3> QED BY <3>2, <3>3
  <2>12. H \in [1 .. n + 1 -> Seq(S)] /\ H[1] = <<>>
    <3>1. \A i \in 1 .. n + 1 : i # 1 => i - 1 \in 1 .. n
        BY <2>6
    <3>2. 1 \in 1 .. n + 1
        BY <2>6
    <3> QED BY <1>2, <2>2, <3>1, <3>2
  <2> HIDE DEF H
  <2>13. ASSUME NEW i \in 1 .. n PROVE H[i + 1] = H[i] \o q[i]
    <3>1. CASE i = 1
      <4>1. H[i + 1] = q[i] /\ q[i] \in Seq(S)
          BY <1>1, <2>2, <2>11, <3>1 DEF Flattens, n
      <4> QED BY <2>12, <3>1, <4>1, ConcatEmptySeq
    <3>2. CASE i # 1
      <4>1. i - 1 \in 1 .. n /\ i - 1 + 1 = i
          BY <2>6, <3>2
      <4>2. H[i] = g[i - 1]
          BY <2>11, <4>1
      <4> QED BY <2>2, <2>11, <3>2, <4>2 DEF Flattens
    <3> QED BY <3>1, <3>2
  <2>14. n \in 1 .. n /\ FlattenSeq(q) = H[n + 1]
      BY <2>1, <2>6, <2>10, <2>11
  <2>15. Builds(H, q, S)
      BY <2>12, <2>13, <2>14 DEF Builds, n
  <2> QED BY <2>15
<1> QED BY <1>3, <1>4

LEMMA StreamLayout ==
    ASSUME NEW d \in Seq(Commands)
    PROVE  \E p : IsLayout(Stream(d), d, p)
<1> DEFINE n == Len(d)
           q == [i \in DOMAIN d |-> Written(d[i])]
           s == Stream(d)
<1>1. n \in Nat /\ DOMAIN d = 1 .. n /\ \A i \in 1 .. n : Written(d[i]) \in Seq(Tokens)
    BY LenProperties, ElementOfSeq, WrittenType
<1>2. q \in Seq(Seq(Tokens)) /\ Len(q) = n
    BY <1>1, LenProperties
<1>3. s = FlattenSeq(q) /\ \A i \in 1 .. n : q[i] = Written(d[i])
    BY <1>1 DEF Stream
<1> HIDE DEF n, q, s
<1>4. PICK H : Builds(H, q, Tokens)
    BY <1>2, Flattened
<1>5. /\ H \in [1 .. n + 1 -> Seq(Tokens)] /\ H[1] = <<>> /\ s = H[n + 1]
      /\ \A i \in 1 .. n : H[i + 1] = H[i] \o Written(d[i])
    BY <1>2, <1>3, <1>4 DEF Builds
<1>6. \A i \in 1 .. n :
         /\ Len(H[i]) \in Nat /\ Len(Written(d[i])) \in Nat
         /\ Len(H[i + 1]) = Len(H[i]) + Len(Written(d[i]))
         /\ \A k \in 1 .. Len(H[i]) : H[i + 1][k] = H[i][k]
         /\ \A k \in 1 .. Len(Written(d[i])) : H[i + 1][Len(H[i]) + k] = Written(d[i])[k]
  <2> TAKE i \in 1 .. n
  <2>1. i \in 1 .. n + 1
      BY <1>1
  <2>2. Written(d[i]) \in Seq(Tokens) /\ H[i] \in Seq(Tokens) /\ H[i + 1] = H[i] \o Written(d[i])
      BY <1>1, <1>5, <2>1
  <2> DEFINE v == H[i]
             w == Written(d[i])
  <2> HIDE DEF v, w
  <2>3. /\ Len(v) \in Nat /\ Len(w) \in Nat /\ Len(v \o w) = Len(v) + Len(w)
        /\ \A k \in 1 .. Len(v) : (v \o w)[k] = v[k]
        /\ \A k \in 1 .. Len(w) : (v \o w)[Len(v) + k] = w[k]
    <3>1. v \in Seq(Tokens) /\ w \in Seq(Tokens)
        BY <2>2 DEF v, w
    <3> QED BY <3>1, Joined
  <2>4. H[i + 1] = v \o w
      BY <2>2 DEF v, w
  <2> QED BY <2>3, <2>4 DEF v, w
<1>7. s \in Seq(Tokens) /\ Len(s) \in Nat /\ n + 1 \in 1 .. n + 1 /\ 1 \in 1 .. n + 1
    BY <1>1, <1>5, LenProperties
<1> DEFINE T == {i \in 1 .. n + 1 : /\ Len(H[i]) \in 0 .. Len(s)
                                    /\ \A k \in 1 .. Len(H[i]) : s[k] = H[i][k]}
<1>8. n + 1 \in T
    BY <1>5, <1>7
<1>9. ASSUME NEW i \in 1 .. n, \A k \in i + 1 .. n + 1 : k \in T PROVE i \in T
  <2>1. i + 1 \in T /\ i \in 1 .. n + 1
      BY <1>1, <1>9
  <2>2. Len(H[i + 1]) \in 0 .. Len(s) /\ \A k \in 1 .. Len(H[i + 1]) : s[k] = H[i + 1][k]
      BY <2>1
  <2>3. /\ Len(H[i]) \in Nat /\ Len(Written(d[i])) \in Nat
        /\ Len(H[i + 1]) = Len(H[i]) + Len(Written(d[i]))
        /\ \A k \in 1 .. Len(H[i]) : H[i + 1][k] = H[i][k]
      BY <1>6
  <2>4. Len(H[i]) \in 0 .. Len(s) /\ \A k \in 1 .. Len(H[i]) : k \in 1 .. Len(H[i + 1])
    <3> DEFINE a == Len(H[i])
               b == Len(H[i + 1])
               m == Len(Written(d[i]))
    <3>1. a \in Nat /\ m \in Nat /\ b = a + m /\ b \in 0 .. Len(s)
        BY <2>2, <2>3
    <3> HIDE DEF a, b, m
    <3>2. a \in 0 .. Len(s) /\ \A k \in 1 .. a : k \in 1 .. b
        BY <1>7, <3>1
    <3> QED BY <3>2 DEF a, b
  <2>5. \A k \in 1 .. Len(H[i]) : s[k] = H[i][k]
      BY <2>2, <2>3, <2>4
  <2> QED BY <2>1, <2>4, <2>5
<1> HIDE DEF T
<1>10. \A i \in 1 .. n + 1 : i \in T
    BY <1>1, <1>8, <1>9, FromTheEnd
<1> DEFINE p == [i \in 1 .. n + 1 |-> Len(H[i]) + 1]
<1>11. \A i \in 1 .. n + 1 : /\ Len(H[i]) \in 0 .. Len(s)
                              /\ p[i] = Len(H[i]) + 1 /\ p[i] \in 1 .. Len(s) + 1
    BY <1>7, <1>10 DEF T
<1>12. p \in [1 .. n + 1 -> 1 .. Len(s) + 1]
    BY <1>11
<1> HIDE DEF p
<1>13. p[1] = 1 /\ p[n + 1] = Len(s) + 1
  <2>1. Len(H[1]) = 0
      BY <1>5
  <2> QED BY <1>5, <1>7, <1>11, <2>1
<1>14. ASSUME NEW i \in 1 .. n
       PROVE  p[i + 1] = p[i] + Len(Written(d[i])) /\ At(s, p[i], Written(d[i]))
  <2> DEFINE m == Len(Written(d[i]))
             a == Len(H[i])
  <2>1. i \in 1 .. n + 1 /\ i + 1 \in 1 .. n + 1
      BY <1>1
  <2>2. /\ a \in Nat /\ m \in Nat /\ Len(H[i + 1]) = a + m
        /\ \A k \in 1 .. m : H[i + 1][a + k] = Written(d[i])[k]
      BY <1>6
  <2>3. p[i] = a + 1 /\ p[i + 1] = Len(H[i + 1]) + 1
      BY <1>11, <2>1
  <2>4. \A k \in 1 .. Len(H[i + 1]) : s[k] = H[i + 1][k]
      BY <1>10, <2>1 DEF T
  <2> HIDE DEF m, a
  <2>5. ASSUME NEW k \in 1 .. m PROVE s[p[i] + k - 1] = Written(d[i])[k]
    <3>1. p[i] + k - 1 = a + k /\ a + k \in 1 .. Len(H[i + 1])
        BY <2>2, <2>3
    <3> QED BY <2>2, <2>4, <3>1
  <2>6. p[i + 1] = p[i] + m
      BY <2>2, <2>3
  <2> QED BY <2>5, <2>6 DEF At, m
<1> QED BY <1>7, <1>12, <1>13, <1>14 DEF IsLayout, n, s

-----------------------------------------------------------------------------
(* The two loops, position by position *)

\* What the first loop does at position i, and where it goes on.
Capture(s, i) == SubSeq(s, i, FirstOf(TextEnds(s, i)))
Taken(s, i) == IF TextEnds(s, i) = {} THEN <<>>
               ELSE IF Capture(s, i) = <<Blank>> THEN <<>> ELSE <<Capture(s, i)>>
Onward(s, i) == IF TextEnds(s, i) = {} THEN i + 1
                ELSE FirstOf(AfterOp(s, FirstOf(TextEnds(s, i)), "Tj"))

LEMMA AfterOpType ==
    ASSUME NEW s \in Seq(Tokens), NEW j \in 1 .. Len(s), NEW op, AfterOp(s, j, op) # {}
    PROVE  FirstOf(AfterOp(s, j, op)) \in j + 2 .. Len(s) + 1
<1>1. Len(s) \in Nat
    BY LenProperties
<1>2. \A n \in AfterOp(s, j, op) : n \in j + 2 .. Len(s) + 1
    BY <1>1 DEF AfterOp
<1>3. AfterOp(s, j, op) \in SUBSET Nat
    BY <1>1, <1>2
<1> QED BY <1>2, <1>3, Least

LEMMA TextEndsType ==
    ASSUME NEW s \in Seq(Tokens), NEW i \in 1 .. Len(s), TextEnds(s, i) # {}
    PROVE  /\ FirstOf(TextEnds(s, i)) \in TextEnds(s, i)
           /\ FirstOf(TextEnds(s, i)) \in i .. Len(s)
           /\ AfterOp(s, FirstOf(TextEnds(s, i)), "Tj") # {}
<1>1. Len(s) \in Nat
    BY LenProperties
<1>2. TextEnds(s, i) \in SUBSET Nat
    BY <1>1 DEF TextEnds
<1>3. FirstOf(TextEnds(s, i)) \in TextEnds(s, i)
    BY <1>2, Least
<1> HIDE DEF FirstOf
<1> QED BY <1>3 DEF TextEnds

LEMMA StepTypes ==
    ASSUME NEW s \in Seq(Tokens), NEW i \in 1 .. Len(s)
    PROVE  Taken(s, i) \in Seq(Seq(Tokens)) /\ Onward(s, i) \in i + 1 .. Len(s) + 1
<1>1. Len(s) \in Nat /\ \A k \in 1 .. Len(s) : s[k] \in Tokens
    BY LenProperties, ElementOfSeq
<1>2. CASE TextEnds(s, i) = {}
  <2>1. <<>> \in Seq(Seq(Tokens))
      BY EmptySeq
  <2> QED BY <1>1, <1>2, <2>1 DEF Taken, Onward
<1>3. CASE TextEnds(s, i) # {}
  <2> DEFINE j == FirstOf(TextEnds(s, i))
  <2>1. j \in i .. Len(s) /\ AfterOp(s, j, "Tj") # {}
      BY <1>3, TextEndsType
  <2> HIDE DEF j
  <2>2. j \in 1 .. Len(s) /\ \A k \in i .. j : s[k] \in Tokens
      BY <1>1, <2>1
  <2>3. SubSeq(s, i, j) \in Seq(Tokens)
      BY <2>1, <2>2, SubSeqProperties
  <2>4. FirstOf(AfterOp(s, j, "Tj")) \in j + 2 .. Len(s) + 1
      BY <2>1, <2>2, AfterOpType
  <2>5. <<Capture(s, i)>> \in Seq(Seq(Tokens)) /\ <<>> \in Seq(Seq(Tokens))
      BY <2>3 DEF Capture, j
  <2>6. Onward(s, i) = FirstOf(AfterOp(s, j, "Tj"))
      BY <1>3 DEF Onward, j
  <2>7. Onward(s, i) \in i + 1 .. Len(s) + 1
      BY <1>1, <2>1, <2>4, <2>6
  <2> QED BY <2>5, <2>7 DEF Taken
<1> QED BY <1>2, <1>3

\* f is the function that Texts(s) is the first value of.
Scans(f, s) ==
    /\ f \in [1 .. Len(s) + 1 -> Seq(Seq(Tokens))]
    /\ f[Len(s) + 1] = <<>>
    /\ \A i \in 1 .. Len(s) : f[i] = Taken(s, i) \o f[Onward(s, i)]

TextsAt(s, f, i) ==
    IF i > Len(s) THEN <<>>
    ELSE IF TextEnds(s, i) = {} THEN f[i + 1]
    ELSE LET j == FirstOf(TextEnds(s, i))
             capture == SubSeq(s, i, j)
         IN  (IF capture = <<Blank>> THEN <<>> ELSE <<capture>>)
                 \o f[FirstOf(AfterOp(s, j, "Tj"))]

LEMMA TextsSolved ==
    ASSUME NEW s \in Seq(Tokens)
    PROVE  \E f : Scans(f, s) /\ Texts(s) = f[1]
<1> DEFINE n == Len(s)
           pre == [i \in 1 .. n |-> Taken(s, i)]
           nxt == [i \in 1 .. n |-> Onward(s, i)]
           Eq(f) == f = [i \in 1 .. n + 1 |-> TextsAt(s, f, i)]
           F == CHOOSE f : Eq(f)
<1>1. n \in Nat
    BY LenProperties
<1>2. \A i \in 1 .. n : Taken(s, i) \in Seq(Seq(Tokens)) /\ Onward(s, i) \in i + 1 .. n + 1
    BY StepTypes
<1>3. Texts(s) = F[1]
    BY DEF Texts, TextsAt
<1> HIDE DEF n
<1>4. /\ pre \in [1 .. n -> Seq(Seq(Tokens))] /\ nxt \in [1 .. n -> Nat]
      /\ \A i \in 1 .. n : pre[i] = Taken(s, i) /\ nxt[i] = Onward(s, i)
    BY <1>1, <1>2
<1> HIDE DEF pre, nxt
<1>5. \A i \in 1 .. n : nxt[i] \in i + 1 .. n + 1
    BY <1>2, <1>4
<1>6. Solvable(Seq(Tokens), pre, nxt, 1, n)
    BY <1>1, <1>4, <1>5, Recursion
<1>7. PICK g \in [1 .. n + 1 -> Seq(Seq(Tokens))] : Solves(g, pre, nxt, 1, n)
    BY <1>6 DEF Solvable
<1>8. g[n + 1] = <<>> /\ \A i \in 1 .. n : g[i] = Taken(s, i) \o g[Onward(s, i)]
    BY <1>4, <1>7 DEF Solves
<1>9. \A i \in 1 .. n + 1 : g[i] = TextsAt(s, g, i)
  <2> TAKE i \in 1 .. n + 1
  <2>1. CASE i > n
    <3>1. i = n + 1
        BY <1>1, <2>1
    <3> QED BY <1>8, <2>1, <3>1 DEF TextsAt, n
  <2>2. CASE ~(i > n) /\ TextEnds(s, i) = {}
    <3>1. i \in 1 .. n /\ i + 1 \in 1 .. n + 1
        BY <1>1, <2>2
    <3>2. g[i] = <<>> \o g[i + 1] /\ g[i + 1] \in Seq(Seq(Tokens))
        BY <1>8, <2>2, <3>1 DEF Taken, Onward
    <3>3. g[i] = g[i + 1]
        BY <3>2, ConcatEmptySeq
    <3> QED BY <2>2, <3>3 DEF TextsAt, n
  <2>3. CASE ~(i > n) /\ TextEnds(s, i) # {}
    <3>1. i \in 1 .. n
        BY <1>1, <2>3
    <3> QED BY <1>8, <2>3, <3>1 DEF TextsAt, Taken, Onward, Capture, n
  <2> QED BY <2>1, <2>2, <2>3
<1>10. Eq(g)
    BY <1>9
<1>11. Eq(F)
    BY <1>10
<1> HIDE DEF F
<1>12. \A i \in 1 .. n + 1 : F[i] = TextsAt(s, F, i)
    BY <1>11
<1> DEFINE T == {i \in 1 .. n + 1 : F[i] = g[i]}
<1>13. n + 1 \in T
  <2>1. n + 1 \in 1 .. n + 1 /\ n + 1 > n
      BY <1>1
  <2> QED BY <1>8, <1>12, <2>1 DEF TextsAt, n
<1>14. ASSUME NEW i \in 1 .. n, \A k \in i + 1 .. n + 1 : k \in T PROVE i \in T
  <2>1. i \in 1 .. n + 1 /\ ~(i > n) /\ i + 1 \in i + 1 .. n + 1
      BY <1>1
  <2>2. \A k \in i + 1 .. n + 1 : F[k] = g[k]
      BY <1>14
  <2>3. CASE TextEnds(s, i) = {}
      BY <1>9, <1>12, <2>1, <2>2, <2>3 DEF TextsAt, n
  <2>4. CASE TextEnds(s, i) # {}
    <3>1. FirstOf(AfterOp(s, FirstOf(TextEnds(s, i)), "Tj")) \in i + 1 .. n + 1
        BY <1>2, <2>4 DEF Onward
    <3> QED BY <1>9, <1>12, <2>1, <2>2, <2>4, <3>1 DEF TextsAt, n
  <2> QED BY <2>1, <2>3, <2>4
<1> HIDE DEF T
<1>15. \A i \in 1 .. n + 1 : i \in T
    BY <1>1, <1>13, <1>14, FromTheEnd
<1>16. F[1] = g[1]
  <2>1. 1 \in 1 .. n + 1
      BY <1>1
  <2> QED BY <1>15, <2>1 DEF T
<1>17. Scans(g, s)
    BY <1>8 DEF Scans, n
<1> QED BY <1>3, <1>16, <1>17

LEMMA TextsType ==
    ASSUME NEW s \in Seq(Tokens)
    PROVE  Texts(s) \in Seq(Seq(Tokens))
<1>1. PICK f : Scans(f, s) /\ Texts(s) = f[1]
    BY TextsSolved
<1>2. 1 \in 1 .. Len(s) + 1
    BY LenProperties
<1> QED BY <1>1, <1>2 DEF Scans

\* Nothing is taken between positions a and b.
LEMMA Skipped ==
    ASSUME NEW s \in Seq(Tokens), NEW f, Scans(f, s),
           NEW a \in 1 .. Len(s) + 1, NEW b \in 1 .. Len(s) + 1, a <= b,
           \A i \in a .. b - 1 : TextEnds(s, i) = {}
    PROVE  f[a] = f[b]
<1> DEFINE n == b - 1
           T == {i \in 1 .. n + 1 : i >= a => f[i] = f[b]}
<1>1. n \in Nat /\ Len(s) \in Nat /\ b = n + 1
    BY LenProperties
<1>2. n + 1 \in T
    BY <1>1
<1>3. ASSUME NEW i \in 1 .. n, \A k \in i + 1 .. n + 1 : k \in T PROVE i \in T
  <2>1. CASE i < a
      BY <1>1, <2>1
  <2>2. CASE i >= a
    <3>1. i \in a .. b - 1 /\ i \in 1 .. Len(s) /\ i + 1 \in 1 .. Len(s) + 1 /\ i + 1 \in i + 1 .. n + 1
        BY <1>1, <2>2
    <3>2. f[i] = <<>> \o f[i + 1] /\ f[i + 1] \in Seq(Seq(Tokens))
        BY <3>1 DEF Scans, Taken, Onward
    <3>3. f[i] = f[i + 1]
        BY <3>2, ConcatEmptySeq
    <3>4. f[i + 1] = f[b]
        BY <1>3, <2>2, <3>1
    <3> QED BY <1>1, <3>3, <3>4
  <2> QED BY <1>1, <2>1, <2>2
<1> HIDE DEF T
<1>4. \A i \in 1 .. n + 1 : i \in T
    BY <1>1, <1>2, <1>3, FromTheEnd
<1>5. a \in 1 .. n + 1 /\ a >= a
    BY <1>1
<1> QED BY <1>4, <1>5 DEF T

\* The text of a literal string is no operator, bracket or line end.
LEMMA StringsApart ==
    /\ \A t \in Strings : IsString(t) /\ t \notin Punctuation
    /\ \A t \in Punctuation : ~IsString(t)
  BY TextAssumption DEF Strings, IsString, Punctuation, Blank, Placeholder

LEMMA OneToken ==
    ASSUME NEW s, NEW i \in Nat
    PROVE  SubSeq(s, i, i) = <<s[i]>>
<1> DEFINE S == {s[i]}
<1>1. /\ SubSeq(s, i, i) \in Seq(S) /\ Len(SubSeq(s, i, i)) = 1
      /\ SubSeq(s, i, i)[1] = s[i]
    BY SubSeqProperties
<1>2. <<s[i]>> \in Seq(S) /\ Len(<<s[i]>>) = 1 /\ <<s[i]>>[1] = s[i]
    OBVIOUS
<1>3. \A k \in 1 .. Len(SubSeq(s, i, i)) : SubSeq(s, i, i)[k] = <<s[i]>>[k]
    BY <1>1, <1>2
<1> HIDE DEF S
<1> QED BY <1>1, <1>2, <1>3, SeqEqual

\* An operator right behind position j.
LEMMA RightAfter ==
    ASSUME NEW s \in Seq(Tokens), NEW j \in 1 .. Len(s), NEW op \in Punctuation \ {"newline"},
           j + 1 <= Len(s), s[j + 1] = op
    PROVE  FirstOf(AfterOp(s, j, op)) = j + 2 /\ AfterOp(s, j, op) # {}
<1>1. Len(s) \in Nat
    BY LenProperties
<1>2. j + 1 \in {m \in j + 1 .. Len(s) :
                        s[m] = op /\ \A k \in j + 1 .. m - 1 : s[k] = "newline"}
    BY <1>1
<1>3. j + 2 \in AfterOp(s, j, op)
    BY <1>2, <1>1 DEF AfterOp
<1>4. FirstOf(AfterOp(s, j, op)) \in j + 2 .. Len(s) + 1
    BY <1>3, AfterOpType
<1>5. AfterOp(s, j, op) \in SUBSET Nat
    BY <1>1 DEF AfterOp
<1>6. FirstOf(AfterOp(s, j, op)) <= j + 2
    BY <1>3, <1>5, Least
<1> QED BY <1>1, <1>3, <1>4, <1>6

\* No operator behind position j, if something else is there.
LEMMA NotAfter ==
    ASSUME NEW s \in Seq(Tokens), NEW j \in 1 .. Len(s), NEW op,
           j + 1 <= Len(s), s[j + 1] # op, s[j + 1] # "newline"
    PROVE  AfterOp(s, j, op) = {}
<1>1. Len(s) \in Nat
    BY LenProperties
<1>2. ASSUME NEW m \in j + 1 .. Len(s),
             s[m] = op, \A k \in j + 1 .. m - 1 : s[k] = "newline"
      PROVE  FALSE
  <2>1. m # j + 1
      BY <1>2
  <2>2. j + 1 \in j + 1 .. m - 1
      BY <2>1, <1>1
  <2> QED BY <1>2, <2>2
<1> QED BY <1>2 DEF AfterOp

\* The first loop takes the string of a Tj command, and goes on behind it.
LEMMA TextOfTj ==
    ASSUME NEW s \in Seq(Tokens), NEW f, Scans(f, s),
           NEW c \in Commands, c.op = "Tj",
           NEW a \in 1 .. Len(s), NEW b \in 1 .. Len(s) + 1,
           At(s, a, Written(c)), b = a + Len(Written(c))
    PROVE  f[a] = (IF c.shows = <<Blank>> THEN <<>> ELSE <<c.shows>>) \o f[b]
<1> DEFINE w == Written(c)
<1>1. Len(s) \in Nat /\ c.ends \in BOOLEAN
    BY LenProperties DEF Commands
<1>2. /\ Len(w) = IF c.ends THEN 3 ELSE 2
      /\ w[1] \in Strings /\ c.shows = <<w[1]>>
      /\ w[2] = "Tj"
      /\ c.ends => w[3] = "newline"
    BY WrittenTj
<1>3. \A k \in 1 .. Len(w) : s[a + k - 1] = w[k]
    BY DEF At
<1> HIDE DEF w
<1>4. s[a] \in Strings /\ c.shows = <<s[a]>> /\ s[a + 1] = "Tj"
  <2>1. 1 \in 1 .. Len(w) /\ 2 \in 1 .. Len(w) /\ a + 1 - 1 = a /\ a + 2 - 1 = a + 1
      BY <1>1, <1>2
  <2> QED BY <1>2, <1>3, <2>1
<1>5. a + 2 <= Len(s) + 1 /\ b \in {a + 2, a + 3}
    BY <1>1, <1>2 DEF w
<1>6. FirstOf(AfterOp(s, a, "Tj")) = a + 2 /\ AfterOp(s, a, "Tj") # {}
    BY <1>1, <1>4, <1>5, RightAfter DEF Punctuation
<1>7. a \in TextEnds(s, a)
    BY <1>1, <1>4, <1>6, StringsApart DEF TextEnds, OneLine, Punctuation
<1>8. FirstOf(TextEnds(s, a)) = a
  <2>1. TextEnds(s, a) \in SUBSET Nat /\ \A m \in TextEnds(s, a) : a <= m
      BY <1>1 DEF TextEnds
  <2>2. FirstOf(TextEnds(s, a)) \in TextEnds(s, a) /\ FirstOf(TextEnds(s, a)) <= a
      BY <1>7, <2>1, Least
  <2> QED BY <2>1, <2>2
<1>9. Capture(s, a) = c.shows
    BY <1>4, <1>8, OneToken DEF Capture
<1>10. Taken(s, a) = (IF c.shows = <<Blank>> THEN <<>> ELSE <<c.shows>>) /\ Onward(s, a) = a + 2
    BY <1>6, <1>7, <1>8, <1>9 DEF Taken, Onward
<1>11. f[a + 2] = f[b]
  <2>1. CASE c.ends
    <3>1. 3 \in 1 .. Len(w) /\ a + 3 - 1 = a + 2 /\ b = a + 3
        BY <1>1, <1>2, <2>1 DEF w
    <3>2. s[a + 2] = "newline"
        BY <1>2, <1>3, <2>1, <3>1
    <3>3. TextEnds(s, a + 2) = {}
        BY <3>2, StringsApart DEF TextEnds, Punctuation
    <3>4. a + 2 \in 1 .. Len(s) + 1 /\ a + 2 <= b /\ \A i \in a + 2 .. b - 1 : i = a + 2
        BY <1>1, <1>5, <3>1
    <3>5. \A i \in a + 2 .. b - 1 : TextEnds(s, i) = {}
        BY <3>3, <3>4
    <3> QED BY <3>4, <3>5, Skipped
  <2>2. CASE ~c.ends
      BY <1>1, <1>2, <2>2 DEF w
  <2> QED BY <1>1, <2>1, <2>2
<1> QED BY <1>10, <1>11 DEF Scans

\* A TJ command in the content stream, from position a to b.
LEMMA PlaceOfTJ ==
    ASSUME NEW s \in Seq(Tokens), NEW c \in Commands, c.op = "TJ",
           NEW a \in 1 .. Len(s), NEW b \in 1 .. Len(s) + 1,
           At(s, a, Written(c)), b = a + Len(Written(c))
    PROVE  LET e == a + Len(c.shows) + 1
           IN  /\ Len(s) \in Nat
               /\ e \in a + 1 .. Len(s) /\ e + 1 <= Len(s)
               /\ s[a] = "["
               /\ \A k \in a + 1 .. e - 1 : s[k] \in Strings
               /\ s[e] = "]" /\ s[e + 1] = "TJ"
               /\ b = IF c.ends THEN e + 3 ELSE e + 2
               /\ c.ends => s[e + 2] = "newline"
<1> DEFINE m == Len(c.shows)
           w == Written(c)
           e == a + m + 1
<1>1. Len(s) \in Nat /\ c.ends \in BOOLEAN
    BY LenProperties DEF Commands
<1>2. /\ c.shows \in Seq(Strings) /\ m \in Nat
      /\ Len(w) = IF c.ends THEN m + 4 ELSE m + 3
      /\ w[1] = "["
      /\ \A k \in 1 .. m : w[k + 1] = c.shows[k]
      /\ w[m + 2] = "]"
      /\ w[m + 3] = "TJ"
      /\ c.ends => w[m + 4] = "newline"
    BY WrittenTJ
<1>3. b = a + Len(w) /\ \A k \in 1 .. Len(w) : s[a + k - 1] = w[k]
    BY DEF At
<1>4. \A k \in 1 .. m : c.shows[k] \in Strings
    BY <1>2, ElementOfSeq
<1> HIDE DEF m, w
<1>5. e \in a + 1 .. Len(s) /\ e + 1 <= Len(s) /\ b = IF c.ends THEN e + 3 ELSE e + 2
    BY <1>1, <1>2, <1>3
<1>6. s[a] = "["
  <2>1. 1 \in 1 .. Len(w) /\ a + 1 - 1 = a
      BY <1>1, <1>2
  <2> QED BY <1>2, <1>3, <2>1
<1>7. ASSUME NEW k \in a + 1 .. e - 1 PROVE s[k] \in Strings
  <2> DEFINE l == k - a
  <2>1. l \in 1 .. m /\ l + 1 \in 1 .. Len(w) /\ a + (l + 1) - 1 = k
    <3>1. Len(w) \in {m + 3, m + 4} /\ m \in Nat
        BY <1>2
    <3>2. k \in a + 1 .. a + m
        BY <3>1
    <3> QED BY <3>1, <3>2
  <2> HIDE DEF l
  <2>2. s[a + (l + 1) - 1] = w[l + 1] /\ w[l + 1] = c.shows[l]
      BY <1>2, <1>3, <2>1
  <2> QED BY <1>4, <2>1, <2>2
<1>8. s[e] = "]" /\ s[e + 1] = "TJ"
  <2>1. /\ m + 2 \in 1 .. Len(w) /\ a + (m + 2) - 1 = e
        /\ m + 3 \in 1 .. Len(w) /\ a + (m + 3) - 1 = e + 1
      BY <1>1, <1>2
  <2> QED BY <1>2, <1>3, <2>1
<1>9. ASSUME c.ends PROVE s[e + 2] = "newline"
  <2>1. m + 4 \in 1 .. Len(w) /\ a + (m + 4) - 1 = e + 2
      BY <1>1, <1>2, <1>9
  <2> QED BY <1>2, <1>3, <1>9, <2>1
<1> QED BY <1>1, <1>5, <1>6, <1>7, <1>8, <1>9 DEF m

\* The first loop takes nothing of a TJ command that ends its line.
LEMMA TextOfTJ ==
    ASSUME NEW s \in Seq(Tokens), NEW f, Scans(f, s),
           NEW c \in Commands, c.op = "TJ", c.ends,
           NEW a \in 1 .. Len(s), NEW b \in 1 .. Len(s) + 1,
           At(s, a, Written(c)), b = a + Len(Written(c))
    PROVE  f[a] = f[b]
<1> DEFINE e == a + Len(c.shows) + 1
<1>1. /\ Len(s) \in Nat
      /\ e \in a + 1 .. Len(s) /\ e + 1 <= Len(s)
      /\ s[a] = "["
      /\ \A k \in a + 1 .. e - 1 : s[k] \in Strings
      /\ s[e] = "]" /\ s[e + 1] = "TJ"
      /\ b = e + 3
      /\ s[e + 2] = "newline"
    BY PlaceOfTJ
<1> HIDE DEF e
<1>2. ASSUME NEW i \in a .. b - 1 PROVE TextEnds(s, i) = {}
  <2>1. CASE i \in {a, e, e + 1, e + 2}
    <3>1. ~IsString(s[i])
        BY <1>1, <2>1, StringsApart DEF Punctuation
    <3> QED BY <3>1 DEF TextEnds
  <2>2. CASE i \notin {a, e, e + 1, e + 2}
    <3>1. i \in a + 1 .. e - 1
        BY <1>1, <2>2
    <3>2. SUFFICES ASSUME NEW j \in TextEnds(s, i) PROVE FALSE
        OBVIOUS
    <3>3. /\ j \in i .. Len(s) /\ IsString(s[j]) /\ AfterOp(s, j, "Tj") # {}
          /\ \A k \in i .. j : s[k] # "newline"
        BY <3>2 DEF TextEnds, OneLine
    <3>4. j < e + 2
        BY <1>1, <3>1, <3>3
    <3>5. j # e /\ j # e + 1
        BY <1>1, <3>3, StringsApart DEF Punctuation
    <3>6. j \in a + 1 .. e - 1 /\ j \in 1 .. Len(s) /\ j + 1 <= Len(s)
        BY <1>1, <3>1, <3>3, <3>4, <3>5
    <3>7. s[j + 1] # "Tj" /\ s[j + 1] # "newline"
      <4>1. CASE j = e - 1
          BY <1>1, <4>1
      <4>2. CASE j # e - 1
        <5>1. j + 1 \in a + 1 .. e - 1
            BY <1>1, <3>6, <4>2
        <5> QED BY <1>1, <5>1, StringsApart DEF Punctuation
      <4> QED BY <4>1, <4>2
    <3>8. AfterOp(s, j, "Tj") = {}
        BY <3>6, <3>7, NotAfter
    <3> QED BY <3>3, <3>8
  <2> QED BY <2>1, <2>2
<1>3. a <= b /\ a \in 1 .. Len(s) + 1
    BY <1>1
<1> QED BY <1>2, <1>3, Skipped

-----------------------------------------------------------------------------
(* The second loop finds nothing *)

\* Strings without an operator between them.
LEMMA NoOperator ==
    ASSUME NEW q \in Seq(Tokens), \A k \in 1 .. Len(q) : q[k] \in Strings
    PROVE  Texts(q) = <<>>
<1>1. PICK f : Scans(f, q) /\ Texts(q) = f[1]
    BY TextsSolved
<1>2. Len(q) \in Nat
    BY LenProperties
<1>3. ASSUME NEW i \in 1 .. Len(q) PROVE TextEnds(q, i) = {}
  <2>1. SUFFICES ASSUME NEW j \in i .. Len(q), AfterOp(q, j, "Tj") # {} PROVE FALSE
      BY DEF TextEnds
  <2>2. PICK m \in j + 1 .. Len(q) : q[m] = "Tj"
      BY <2>1 DEF AfterOp
  <2>3. q[m] \in Strings
      BY <1>2, <2>1, <2>2
  <2> QED BY <2>2, <2>3, StringsApart DEF Punctuation
<1>4. /\ 1 \in 1 .. Len(q) + 1 /\ Len(q) + 1 \in 1 .. Len(q) + 1 /\ 1 <= Len(q) + 1
      /\ Len(q) + 1 - 1 = Len(q)
    BY <1>2
<1>5. \A i \in 1 .. Len(q) + 1 - 1 : TextEnds(q, i) = {}
    BY <1>3, <1>4
<1>6. f[1] = f[Len(q) + 1]
    BY <1>1, <1>4, <1>5, Skipped
<1> QED BY <1>1, <1>6 DEF Scans

\* Whatever the second loop matches at position k has no text in it.
NoText(s, k) ==
    ArrayEnds(s, k) # {} =>
        Texts(SubSeq(s, k + 1, FirstOf(ArrayEnds(s, k)) - 1)) = <<>>

LEMMA ArrayOfTj ==
    ASSUME NEW s \in Seq(Tokens), NEW c \in Commands, c.op = "Tj",
           NEW a \in 1 .. Len(s), NEW b \in 1 .. Len(s) + 1,
           At(s, a, Written(c)), b = a + Len(Written(c)), NEW k \in a .. b - 1
    PROVE  NoText(s, k)
<1> DEFINE w == Written(c)
           l == k - a + 1
<1>1. Len(s) \in Nat /\ c.ends \in BOOLEAN
    BY LenProperties DEF Commands
<1>2. /\ Len(w) = IF c.ends THEN 3 ELSE 2
      /\ w[1] \in Strings /\ w[2] = "Tj" /\ (c.ends => w[3] = "newline")
    BY WrittenTj
<1>3. b = a + Len(w) /\ \A n \in 1 .. Len(w) : s[a + n - 1] = w[n]
    BY DEF At
<1> HIDE DEF w
<1>4. l \in 1 .. Len(w) /\ a + l - 1 = k /\ l \in {1, 2, 3} /\ (l = 3 => c.ends)
    BY <1>1, <1>2, <1>3
<1> HIDE DEF l
<1>5. s[k] = w[l] /\ w[l] # "["
  <2>1. s[a + l - 1] = w[l]
      BY <1>3, <1>4
  <2>2. w[1] # "["
      BY <1>2, StringsApart DEF Punctuation
  <2> QED BY <1>1, <1>2, <1>4, <2>1, <2>2
<1> QED BY <1>5 DEF NoText, ArrayEnds

LEMMA ArrayOfTJ ==
    ASSUME NEW s \in Seq(Tokens), NEW c \in Commands, c.op = "TJ",
           NEW a \in 1 .. Len(s), NEW b \in 1 .. Len(s) + 1,
           At(s, a, Written(c)), b = a + Len(Written(c)), NEW k \in a .. b - 1
    PROVE  NoText(s, k)
<1> DEFINE e == a + Len(c.shows) + 1
<1>1. /\ Len(s) \in Nat
      /\ e \in a + 1 .. Len(s) /\ e + 1 <= Len(s)
      /\ s[a] = "["
      /\ \A n \in a + 1 .. e - 1 : s[n] \in Strings
      /\ s[e] = "]" /\ s[e + 1] = "TJ"
      /\ b = IF c.ends THEN e + 3 ELSE e + 2
      /\ c.ends => s[e + 2] = "newline"
    BY PlaceOfTJ
<1> HIDE DEF e
<1>2. CASE k # a
  <2>1. CASE k \in a + 1 .. e - 1
    <3>1. s[k] # "["
        BY <1>1, <2>1, StringsApart DEF Punctuation
    <3> QED BY <3>1 DEF NoText, ArrayEnds
  <2>2. CASE k \notin a + 1 .. e - 1
    <3>1. k = e \/ k = e + 1 \/ (k = e + 2 /\ c.ends)
        BY <1>1, <1>2, <2>2
    <3>2. s[k] # "["
        BY <1>1, <3>1
    <3> QED BY <3>2 DEF NoText, ArrayEnds
  <2> QED BY <2>1, <2>2
<1>3. CASE k = a
  <2>1. AfterOp(s, e, "TJ") # {}
      BY <1>1, RightAfter DEF Punctuation
  <2>2. \A n \in a .. e : s[n] # "newline"
      BY <1>1, StringsApart DEF Punctuation
  <2>3. e \in ArrayEnds(s, a)
      BY <1>1, <2>1, <2>2 DEF ArrayEnds, OneLine
  <2>4. ASSUME NEW j \in ArrayEnds(s, a) PROVE e <= j
    <3>1. j \in a + 1 .. Len(s) /\ s[j] = "]"
        BY <2>4 DEF ArrayEnds
    <3>2. j \notin a + 1 .. e - 1
        BY <1>1, <3>1, StringsApart DEF Punctuation
    <3> QED BY <1>1, <3>1, <3>2
  <2>5. ArrayEnds(s, a) \in SUBSET Nat
      BY <1>1 DEF ArrayEnds
  <2>6. FirstOf(ArrayEnds(s, a)) \in ArrayEnds(s, a) /\ FirstOf(ArrayEnds(s, a)) <= e
      BY <2>3, <2>5, Least
  <2>7. FirstOf(ArrayEnds(s, a)) = e
      BY <1>1, <2>4, <2>5, <2>6
  <2> DEFINE q == SubSeq(s, a + 1, e - 1)
  <2>8. a + 1 \in Int /\ e - 1 \in Int /\ \A i \in a + 1 .. e - 1 : s[i] \in Strings
      BY <1>1
  <2>9. q \in Seq(Strings)
      BY <2>8, SubSeqProperties
  <2> HIDE DEF q
  <2>10. q \in Seq(Tokens) /\ \A i \in 1 .. Len(q) : q[i] \in Strings
      BY <2>9, SeqMonotonic, ElementOfSeq DEF Tokens
  <2> QED BY <1>3, <2>7, <2>10, NoOperator DEF NoText, q
<1> QED BY <1>2, <1>3

LEMMA WrittenLength ==
    ASSUME NEW c \in Commands
    PROVE  Len(Written(c)) \in Nat \ {0}
<1>1. CASE c.op = "Tj"
  <2>1. Len(Written(c)) = IF c.ends THEN 3 ELSE 2
      BY <1>1, WrittenTj
  <2> QED BY <2>1
<1>2. CASE c.op = "TJ"
  <2>1. Len(c.shows) \in Nat
        /\ Len(Written(c)) = IF c.ends THEN Len(c.shows) + 4 ELSE Len(c.shows) + 3
      BY <1>2, WrittenTJ
  <2> QED BY <2>1
<1> QED BY <1>1, <1>2 DEF Commands

\* Neither does it anywhere else in the stream of a document.
LEMMA NoTextAnywhere ==
    ASSUME NEW d \in Seq(Commands)
    PROVE  \A k \in 1 .. Len(Stream(d)) : NoText(Stream(d), k)
<1> DEFINE n == Len(d)
           s == Stream(d)
<1>1. PICK p : IsLayout(s, d, p)
    BY StreamLayout
<1>2. n \in Nat /\ \A i \in 1 .. n : d[i] \in Commands
    BY LenProperties, ElementOfSeq
<1> HIDE DEF s
<1>3. /\ s \in Seq(Tokens) /\ Len(s) \in Nat
      /\ p \in [1 .. n + 1 -> 1 .. Len(s) + 1] /\ p[1] = 1 /\ p[n + 1] = Len(s) + 1
      /\ \A i \in 1 .. n : p[i + 1] = p[i] + Len(Written(d[i])) /\ At(s, p[i], Written(d[i]))
    BY <1>1, LenProperties DEF IsLayout
<1> HIDE DEF n
<1> DEFINE T == {i \in 1 .. n + 1 : \A k \in 1 .. p[i] - 1 : NoText(s, k)}
<1>4. 1 \in T
  <2>1. 1 \in 1 .. n + 1 /\ \A k \in 1 .. p[1] - 1 : FALSE
      BY <1>2, <1>3
  <2> QED BY <2>1
<1>5. ASSUME NEW i \in 1 .. n, i \in T PROVE i + 1 \in T
  <2> DEFINE a == p[i]
             b == p[i + 1]
             c == d[i]
  <2>1. i \in 1 .. n + 1 /\ i + 1 \in 1 .. n + 1
      BY <1>2
  <2>2. /\ c \in Commands /\ a \in 1 .. Len(s) + 1 /\ b \in 1 .. Len(s) + 1
        /\ b = a + Len(Written(c)) /\ At(s, a, Written(c))
        /\ \A k \in 1 .. a - 1 : NoText(s, k)
      BY <1>2, <1>3, <1>5, <2>1
  <2> HIDE DEF a, b, c
  <2>3. Len(Written(c)) \in Nat \ {0}
      BY <2>2, WrittenLength
  <2>4. a \in 1 .. Len(s)
      BY <1>3, <2>2, <2>3
  <2>5. \A k \in a .. b - 1 : NoText(s, k)
    <3>1. CASE c.op = "Tj"
        BY <1>3, <2>2, <2>4, <3>1, ArrayOfTj
    <3>2. CASE c.op = "TJ"
        BY <1>3, <2>2, <2>4, <3>2, ArrayOfTJ
    <3> QED BY <2>2, <3>1, <3>2 DEF Commands
  <2>6. \A k \in 1 .. b - 1 : k \in 1 .. a - 1 \/ k \in a .. b - 1
      BY <2>2
  <2>7. \A k \in 1 .. p[i + 1] - 1 : NoText(s, k)
      BY <2>2, <2>5, <2>6 DEF b
  <2> QED BY <2>1, <2>7
<1> HIDE DEF T
<1>6. \A i \in 1 .. n + 1 : i \in T
    BY <1>2, <1>4, <1>5, FromTheStart
<1>7. \A k \in 1 .. p[n + 1] - 1 : NoText(s, k)
  <2>1. n + 1 \in 1 .. n + 1
      BY <1>2
  <2> QED BY <1>6, <2>1 DEF T
<1>8. p[n + 1] - 1 = Len(s)
    BY <1>3
<1> QED BY <1>7, <1>8 DEF s

ArrayTextsAt(s, f, i) ==
    IF i > Len(s) THEN <<>>
    ELSE IF ArrayEnds(s, i) = {} THEN f[i + 1]
    ELSE LET j == FirstOf(ArrayEnds(s, i))
         IN  Texts(SubSeq(s, i + 1, j - 1)) \o f[FirstOf(AfterOp(s, j, "TJ"))]

LEMMA ArrayTextsEmpty ==
    ASSUME NEW s \in Seq(Tokens), \A k \in 1 .. Len(s) : NoText(s, k)
    PROVE  ArrayTexts(s) = <<>>
<1> DEFINE n == Len(s)
           Eq(f) == f = [i \in 1 .. n + 1 |-> ArrayTextsAt(s, f, i)]
           F == CHOOSE f : Eq(f)
           g == [i \in 1 .. n + 1 |-> <<>>]
<1>1. n \in Nat
    BY LenProperties
<1>2. ArrayTexts(s) = F[1]
    BY DEF ArrayTexts, ArrayTextsAt
<1>3. ASSUME NEW i \in 1 .. n, ArrayEnds(s, i) # {}
      PROVE  LET j == FirstOf(ArrayEnds(s, i))
             IN  /\ Texts(SubSeq(s, i + 1, j - 1)) = <<>>
                 /\ FirstOf(AfterOp(s, j, "TJ")) \in i + 1 .. n + 1
  <2> DEFINE j == FirstOf(ArrayEnds(s, i))
  <2>1. ArrayEnds(s, i) \in SUBSET Nat
      BY <1>1 DEF ArrayEnds
  <2>2. j \in ArrayEnds(s, i)
      BY <1>3, <2>1, Least
  <2>3. j \in i + 1 .. n /\ AfterOp(s, j, "TJ") # {}
      BY <2>2 DEF ArrayEnds
  <2>4. Texts(SubSeq(s, i + 1, j - 1)) = <<>>
      BY <1>3 DEF NoText
  <2> HIDE DEF j
  <2>5. j \in 1 .. Len(s)
      BY <1>1, <2>3
  <2>6. FirstOf(AfterOp(s, j, "TJ")) \in j + 2 .. Len(s) + 1
      BY <2>3, <2>5, AfterOpType
  <2>7. FirstOf(AfterOp(s, j, "TJ")) \in i + 1 .. n + 1
      BY <1>1, <2>3, <2>6
  <2> QED BY <2>4, <2>7 DEF j
<1> HIDE DEF n
<1>4. \A i \in 1 .. n + 1 : g[i] = <<>>
    OBVIOUS
<1> HIDE DEF g
<1>5. ASSUME NEW i \in 1 .. n + 1, NEW f, \A k \in i + 1 .. n + 1 : f[k] = <<>>
      PROVE  ArrayTextsAt(s, f, i) = <<>>
  <2>1. CASE i > n
      BY <2>1 DEF ArrayTextsAt, n
  <2>2. CASE ~(i > n) /\ ArrayEnds(s, i) = {}
    <3>1. i + 1 \in i + 1 .. n + 1
        BY <1>1, <2>2
    <3>2. f[i + 1] = <<>>
        BY <1>5, <3>1
    <3> QED BY <2>2, <3>2 DEF ArrayTextsAt, n
  <2>3. CASE ~(i > n) /\ ArrayEnds(s, i) # {}
    <3> DEFINE j == FirstOf(ArrayEnds(s, i))
               k == FirstOf(AfterOp(s, j, "TJ"))
    <3>1. i \in 1 .. n
        BY <1>1, <2>3
    <3>2. Texts(SubSeq(s, i + 1, j - 1)) = <<>> /\ k \in i + 1 .. n + 1
        BY <1>3, <2>3, <3>1
    <3>3. ArrayTextsAt(s, f, i) = Texts(SubSeq(s, i + 1, j - 1)) \o f[k]
        BY <2>3 DEF ArrayTextsAt, n
    <3> HIDE DEF j, k
    <3>4. f[k] = <<>>
        BY <1>5, <3>2
    <3>5. <<>> \o <<>> = <<>>
        BY EmptySeq, ConcatEmptySeq
    <3> QED BY <3>2, <3>3, <3>4, <3>5
  <2> QED BY <2>1, <2>2, <2>3
<1>6. Eq(g)
  <2>1. \A i \in 1 .. n + 1 : ArrayTextsAt(s, g, i) = <<>>
    <3> TAKE i \in 1 .. n + 1
    <3>1. \A k \in i + 1 .. n + 1 : k \in 1 .. n + 1
        BY <1>1
    <3>2. \A k \in i + 1 .. n + 1 : g[k] = <<>>
        BY <1>4, <3>1
    <3> QED BY <1>5, <3>2
  <2> QED BY <2>1 DEF g
<1>7. Eq(F)
    BY <1>6
<1> HIDE DEF F
<1>8. \A i \in 1 .. n + 1 : F[i] = ArrayTextsAt(s, F, i)
    BY <1>7
<1> DEFINE T == {i \in 1 .. n + 1 : F[i] = <<>>}
<1>9. n + 1 \in T
  <2>1. n + 1 \in 1 .. n + 1 /\ \A k \in n + 1 + 1 .. n + 1 : FALSE
      BY <1>1
  <2>2. \A k \in n + 1 + 1 .. n + 1 : F[k] = <<>>
      BY <2>1
  <2>3. F[n + 1] = <<>>
      BY <1>5, <1>8, <2>1, <2>2
  <2> QED BY <2>1, <2>3
<1>10. ASSUME NEW i \in 1 .. n, \A k \in i + 1 .. n + 1 : k \in T PROVE i \in T
  <2>1. i \in 1 .. n + 1
      BY <1>1
  <2>2. \A k \in i + 1 .. n + 1 : F[k] = <<>>
      BY <1>10
  <2>3. F[i] = <<>>
      BY <1>5, <1>8, <2>1, <2>2
  <2> QED BY <2>1, <2>3
<1> HIDE DEF T
<1>11. 1 \in 1 .. n + 1 /\ \A i \in 1 .. n + 1 : i \in T
    BY <1>1, <1>9, <1>10, FromTheEnd
<1> QED BY <1>2, <1>11 DEF T

-----------------------------------------------------------------------------
(* The text of a document *)

\* Each of the strings by itself.
Alone(q) == [k \in DOMAIN q |-> <<q[k]>>]

LEMMA AloneType ==
    ASSUME NEW q \in Seq(Strings)
    PROVE  Alone(q) \in Seq(Seq(Tokens)) /\ Len(Alone(q)) = Len(q)
<1>1. Len(q) \in Nat /\ DOMAIN q = 1 .. Len(q)
    BY LenProperties
<1>2. \A k \in 1 .. Len(q) : <<q[k]>> \in Seq(Tokens)
  <2> TAKE k \in 1 .. Len(q)
  <2>1. q[k] \in Tokens
      BY ElementOfSeq DEF Tokens
  <2> QED BY <2>1
<1> QED BY <1>1, <1>2 DEF Alone

LEMMA AloneJoined ==
    ASSUME NEW q \in Seq(Strings), NEW r \in Seq(Strings)
    PROVE  Alone(q \o r) = Alone(q) \o Alone(r)
<1> DEFINE v == q \o r
           w == Alone(q) \o Alone(r)
<1>1. /\ v \in Seq(Strings) /\ Len(q) \in Nat /\ Len(r) \in Nat
      /\ Len(v) = Len(q) + Len(r)
      /\ \A k \in 1 .. Len(q) : v[k] = q[k]
      /\ \A k \in 1 .. Len(r) : v[Len(q) + k] = r[k]
    BY Joined
<1>2. /\ Alone(q) \in Seq(Seq(Tokens)) /\ Len(Alone(q)) = Len(q)
      /\ Alone(r) \in Seq(Seq(Tokens)) /\ Len(Alone(r)) = Len(r)
    BY AloneType
<1>3. /\ w \in Seq(Seq(Tokens))
      /\ Len(w) = Len(q) + Len(r)
      /\ \A k \in 1 .. Len(q) : w[k] = Alone(q)[k]
      /\ \A k \in 1 .. Len(r) : w[Len(q) + k] = Alone(r)[k]
  <2> DEFINE a == Alone(q)
             e == Alone(r)
  <2> HIDE DEF a, e
  <2>1. /\ a \in Seq(Seq(Tokens)) /\ Len(a) = Len(q)
        /\ e \in Seq(Seq(Tokens)) /\ Len(e) = Len(r)
      BY <1>2 DEF a, e
  <2>2. /\ a \o e \in Seq(Seq(Tokens)) /\ Len(a \o e) = Len(a) + Len(e)
        /\ \A k \in 1 .. Len(a) : (a \o e)[k] = a[k]
        /\ \A k \in 1 .. Len(e) : (a \o e)[Len(a) + k] = e[k]
    <3>1. a \in Seq(Seq(Tokens)) /\ e \in Seq(Seq(Tokens))
        BY <2>1
    <3> QED BY ONLY <3>1, Joined
  <2> QED BY <2>1, <2>2 DEF a, e
<1>4. /\ \A k \in 1 .. Len(q) : Alone(q)[k] = <<q[k]>>
      /\ \A k \in 1 .. Len(r) : Alone(r)[k] = <<r[k]>>
    BY LenProperties DEF Alone
<1> HIDE DEF v, w
<1>5. /\ Alone(v) \in Seq(Seq(Tokens)) /\ Len(Alone(v)) = Len(v)
      /\ \A k \in 1 .. Len(v) : Alone(v)[k] = <<v[k]>>
    BY <1>1, AloneType, LenProperties DEF Alone
<1>6. ASSUME NEW k \in 1 .. Len(v) PROVE Alone(v)[k] = w[k]
  <2>1. CASE k \in 1 .. Len(q)
      BY <1>1, <1>3, <1>4, <1>5, <2>1
  <2>2. CASE k \notin 1 .. Len(q)
    <3> DEFINE l == k - Len(q)
    <3>1. l \in 1 .. Len(r) /\ k = Len(q) + l
        BY <1>1, <2>2
    <3> HIDE DEF l
    <3> QED BY <1>1, <1>3, <1>4, <1>5, <3>1
  <2> QED BY <2>1, <2>2
<1>7. Alone(v) = w
    BY <1>1, <1>3, <1>5, <1>6, SeqEqual
<1> QED BY <1>7 DEF v, w

ShownBy(c) == IF c.op = "Tj" /\ c.shows # <<Blank>> THEN c.shows ELSE <<>>

LEMMA ShownType ==
    ASSUME NEW c \in Commands
    PROVE  ShownBy(c) \in Seq(Strings)
<1>1. CASE c.op = "Tj"
  <2>1. PICK t \in Strings : c.shows = <<t>>
      BY <1>1 DEF Commands
  <2>2. <<t>> \in Seq(Strings) /\ <<>> \in Seq(Strings)
      OBVIOUS
  <2> QED BY <2>1, <2>2 DEF ShownBy
<1>2. CASE c.op = "TJ"
    BY <1>2, EmptySeq DEF ShownBy
<1> QED BY <1>1, <1>2 DEF Commands

LEMMA TextOfCommand ==
    ASSUME NEW s \in Seq(Tokens), NEW f, Scans(f, s),
           NEW c \in Commands, c.op = "TJ" => c.ends,
           NEW a \in 1 .. Len(s), NEW b \in 1 .. Len(s) + 1,
           At(s, a, Written(c)), b = a + Len(Written(c))
    PROVE  f[a] = Alone(ShownBy(c)) \o f[b]
<1>1. f[b] \in Seq(Seq(Tokens))
    BY DEF Scans
<1>2. Alone(<<>>) = <<>> /\ <<>> \in Seq(Strings) /\ <<>> \o f[b] = f[b]
    BY <1>1, EmptySeq, ConcatEmptySeq DEF Alone
<1>3. CASE c.op = "Tj"
  <2>1. f[a] = (IF c.shows = <<Blank>> THEN <<>> ELSE <<c.shows>>) \o f[b]
      BY <1>3, TextOfTj
  <2>2. PICK t \in Strings : c.shows = <<t>>
      BY <1>3 DEF Commands
  <2>3. <<t>> \in Seq(Strings) /\ Alone(<<t>>) = <<c.shows>>
      BY <2>2 DEF Alone
  <2> QED BY <1>2, <1>3, <2>1, <2>2, <2>3 DEF ShownBy
<1>4. CASE c.op = "TJ"
  <2>1. f[a] = f[b]
      BY <1>4, TextOfTJ
  <2>2. ShownBy(c) = <<>>
      BY <1>4 DEF ShownBy
  <2> QED BY <1>2, <2>1, <2>2
<1> QED BY <1>3, <1>4 DEF Commands

LEMMA TextsOfStream ==
    ASSUME NEW d \in Seq(Commands), \A i \in DOMAIN d : d[i].op = "TJ" => d[i].ends
    PROVE  Shown(d) \in Seq(Strings) /\ Texts(Stream(d)) = Alone(Shown(d))
<1> DEFINE n == Len(d)
           s == Stream(d)
           q == [i \in DOMAIN d |-> ShownBy(d[i])]
<1>1. n \in Nat /\ DOMAIN d = 1 .. n /\ \A i \in 1 .. n : d[i] \in Commands
    BY LenProperties, ElementOfSeq
<1>2. \A i \in 1 .. n : ShownBy(d[i]) \in Seq(Strings)
    BY <1>1, ShownType
<1>3. /\ q \in Seq(Seq(Strings)) /\ Len(q) = n
      /\ \A i \in 1 .. n : q[i] = ShownBy(d[i])
    BY <1>1, <1>2, LenProperties
<1>4. Shown(d) = FlattenSeq(q)
    BY DEF Shown, ShownBy
<1> HIDE DEF q
<1>5. PICK H : Builds(H, q, Strings)
    BY <1>3, Flattened
<1>6. /\ H \in [1 .. n + 1 -> Seq(Strings)] /\ H[1] = <<>> /\ Shown(d) = H[n + 1]
      /\ \A i \in 1 .. n : H[i + 1] = H[i] \o ShownBy(d[i])
    BY <1>3, <1>4, <1>5 DEF Builds
<1>7. PICK p : IsLayout(s, d, p)
    BY StreamLayout
<1>8. PICK f : Scans(f, s) /\ Texts(s) = f[1]
    BY <1>7, TextsSolved DEF IsLayout
<1> HIDE DEF s
<1>9. /\ s \in Seq(Tokens) /\ Len(s) \in Nat
      /\ p \in [1 .. n + 1 -> 1 .. Len(s) + 1] /\ p[1] = 1 /\ p[n + 1] = Len(s) + 1
      /\ \A i \in 1 .. n : p[i + 1] = p[i] + Len(Written(d[i])) /\ At(s, p[i], Written(d[i]))
    BY <1>7, LenProperties DEF IsLayout
<1>10. f \in [1 .. Len(s) + 1 -> Seq(Seq(Tokens))] /\ f[Len(s) + 1] = <<>>
    BY <1>8 DEF Scans
<1> HIDE DEF n
<1> DEFINE T == {i \in 1 .. n + 1 : f[1] = Alone(H[i]) \o f[p[i]]}
<1>11. 1 \in 1 .. n + 1 /\ n + 1 \in 1 .. n + 1
    BY <1>1
<1>12. 1 \in T
  <2>1. Alone(<<>>) = <<>>
      BY DEF Alone
  <2>2. f[1] \in Seq(Seq(Tokens))
    <3>1. 1 \in 1 .. Len(s) + 1
        BY <1>9
    <3> QED BY <1>10, <3>1
  <2>3. <<>> \o f[1] = f[1]
      BY <2>2, ConcatEmptySeq
  <2> QED BY <1>6, <1>9, <1>11, <2>1, <2>3
<1>13. ASSUME NEW i \in 1 .. n, i \in T PROVE i + 1 \in T
  <2> DEFINE a == p[i]
             b == p[i + 1]
             c == d[i]
             h == H[i]
             g == H[i + 1]
  <2>1. i \in 1 .. n + 1 /\ i + 1 \in 1 .. n + 1
      BY <1>1
  <2>2. /\ c \in Commands /\ a \in 1 .. Len(s) + 1 /\ b \in 1 .. Len(s) + 1
        /\ b = a + Len(Written(c)) /\ At(s, a, Written(c))
        /\ c.op = "TJ" => c.ends
        /\ f[1] = Alone(h) \o f[a]
        /\ h \in Seq(Strings) /\ g = h \o ShownBy(c)
      BY <1>1, <1>6, <1>9, <1>13, <2>1
  <2> HIDE DEF a, b, c, h, g
  <2>3. a \in 1 .. Len(s)
      BY <1>9, <2>2, WrittenLength
  <2>4. ShownBy(c) \in Seq(Strings) /\ f[a] = Alone(ShownBy(c)) \o f[b]
      BY <1>8, <1>9, <2>2, <2>3, ShownType, TextOfCommand
  <2> DEFINE u == Alone(h)
             v == Alone(ShownBy(c))
             w == f[b]
  <2>5. u \in Seq(Seq(Tokens)) /\ v \in Seq(Seq(Tokens)) /\ w \in Seq(Seq(Tokens))
      BY <1>10, <2>2, <2>4, AloneType
  <2>6. Alone(g) = u \o v
      BY <2>2, <2>4, AloneJoined
  <2>7. f[1] = u \o (v \o w)
      BY <2>2, <2>4
  <2> HIDE DEF u, v, w
  <2>8. (u \o v) \o w = u \o (v \o w)
      BY <2>5, ConcatAssociative
  <2>9. f[1] = Alone(g) \o w
      BY <2>6, <2>7, <2>8
  <2> QED BY <2>1, <2>9 DEF g, w, b
<1> HIDE DEF T
<1>14. \A i \in 1 .. n + 1 : i \in T
    BY <1>1, <1>12, <1>13, FromTheStart
<1>15. f[1] = Alone(H[n + 1]) \o f[p[n + 1]]
    BY <1>11, <1>14 DEF T
<1>16. Shown(d) \in Seq(Strings) /\ f[p[n + 1]] = <<>>
    BY <1>6, <1>9, <1>10, <1>11
<1>17. Alone(Shown(d)) \in Seq(Seq(Tokens))
    BY <1>16, AloneType
<1>18. f[1] = Alone(Shown(d))
    BY <1>6, <1>15, <1>16, <1>17, ConcatEmptySeq
<1> QED BY <1>8, <1>16, <1>18 DEF s

\* In no document does the loop over arrays find a text: textObjRegex asks for the
\* operator Tj, which an array does not have inside its brackets.
THEOREM ArraysYieldNothing == \A d \in Seq(Commands) : ArrayTexts(Stream(d)) = <<>>
<1> TAKE d \in Seq(Commands)
<1>1. PICK p : IsLayout(Stream(d), d, p)
    BY StreamLayout
<1> QED BY <1>1, NoTextAnywhere, ArrayTextsEmpty DEF IsLayout

\* The artifacts of a PDF, in the order in which they are saved.
TextAndCover ==
    ~isImage =>
        LET text == ExtractText(Stream(upload))
        IN  /\ upload \in Documents
            /\ made \in {<<>>, <<text>>, <<text, <<"cover", text>>>>}

LEMMA TextAndCoverInvariant == Spec => []TextAndCover
<1>1. Init => TextAndCover
    BY DEF Init, TextAndCover
<1>2. TextAndCover /\ [Next]_vars => TextAndCover'
  <2> SUFFICES ASSUME TextAndCover, [Next]_vars, ~isImage' PROVE TextAndCover'
      BY DEF TextAndCover
  <2>1. CASE UNCHANGED vars
      BY <2>1 DEF vars, TextAndCover
  <2>2. CASE SaveText
    <3>1. ~isImage /\ made' = Append(<<>>, ExtractText(Stream(upload))) /\ upload' = upload
        BY <2>2 DEF SaveText, Save
    <3> QED BY <3>1 DEF TextAndCover
  <2>3. CASE SaveCover
    <3> DEFINE text == ExtractText(Stream(upload))
    <3>1. /\ ~isImage /\ Len(made) = 1 /\ upload' = upload
          /\ made' = Append(made, <<"cover", made[1]>>)
          /\ upload \in Documents /\ made \in {<<>>, <<text>>, <<text, <<"cover", text>>>>}
        BY <2>3 DEF SaveCover, Save, TextAndCover
    <3> HIDE DEF text
    <3>2. made = <<text>>
        BY <3>1
    <3>3. made' = <<text, <<"cover", text>>>>
        BY <3>1, <3>2, AppendToTuple
    <3> QED BY <3>1, <3>3 DEF TextAndCover, text
  <2>4. CASE SaveThumbnail \/ SaveMedium \/ SaveOptimized
      BY <2>4 DEF SaveThumbnail, SaveMedium, SaveOptimized, Save
  <2> QED BY <2>1, <2>2, <2>3, <2>4 DEF Next
<1> QED BY <1>1, <1>2, PTL DEF Spec

\* For every document whose arrays end their lines, however many commands it has:
\* the text is what its Tj commands show, in order, or the placeholder.
THEOREM TextIsInOrder == Spec => []TextInOrder
<1>1. TextAndCover => TextInOrder
  <2> DEFINE shown == Shown(upload)
             text  == ExtractText(Stream(upload))
  <2> SUFFICES ASSUME TextAndCover, ~isImage, made # <<>>,
                      \A i \in DOMAIN upload : upload[i].op = "TJ" => upload[i].ends
               PROVE  made[1] = IF shown = <<>> THEN <<<<Placeholder>>>> ELSE Alone(shown)
      BY DEF TextInOrder, Alone
  <2>1. upload \in Documents /\ made \in {<<text>>, <<text, <<"cover", text>>>>}
      BY DEF TextAndCover
  <2>2. upload \in Seq(Commands) /\ made[1] = text
      BY <2>1, ProcessorsAssumption
  <2>3. shown \in Seq(Strings) /\ Texts(Stream(upload)) = Alone(shown)
      BY <2>2, TextsOfStream
  <2>4. ArrayTexts(Stream(upload)) = <<>>
      BY <2>2, ArraysYieldNothing
  <2> HIDE DEF shown
  <2>5. Alone(shown) \in Seq(Seq(Tokens)) /\ Len(Alone(shown)) = Len(shown)
      BY <2>3, AloneType
  <2>6. Alone(shown) \o <<>> = Alone(shown)
      BY <2>5, ConcatEmptySeq
  <2>7. text = IF Alone(shown) = <<>> THEN <<<<Placeholder>>>> ELSE Alone(shown)
      BY <2>3, <2>4, <2>6 DEF ExtractText
  <2>8. Alone(shown) = <<>> <=> shown = <<>>
      BY <2>3, <2>5, EmptySeq
  <2> QED BY <2>2, <2>7, <2>8
<1> QED BY <1>1, TextAndCoverInvariant, PTL
=============================================================================
