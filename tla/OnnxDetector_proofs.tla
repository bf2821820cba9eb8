-------------------------- MODULE OnnxDetector_proofs --------------------------
(***************************************************************************)
(* The geometry of OnnxDetector and its failures, for every size of the    *)
(* model's input and of the frames.                                        *)
(***************************************************************************)
EXTENDS OnnxDetector, TLAPS

-----------------------------------------------------------------------------
(* Arithmetic.                                                             *)

\* A truncated length is at most one pixel short.
LEMMA TruncatedLength ==
  ASSUME NEW length \in Nat, NEW s \in [num : Nat, den : Nat \ {0}],
         NEW t \in Truncated(length, s)
  PROVE  /\ t \in Int
         /\ t * s.den <= length * s.num
         /\ length * s.num <= (t + 1) * s.den
<1> DEFINE a == length * s.num
           b == s.den
           whole == a \div b
<1>1. a \in Nat /\ b \in Nat \ {0}
  OBVIOUS
<1> HIDE DEF a, b
<1>2. /\ whole \in Nat
      /\ a = b * whole + (a % b) /\ a % b \in 0 .. b - 1
  BY <1>1
<1> HIDE DEF whole
<1>3. t = whole \/ (t = whole - 1 /\ a % b = 0)
  BY DEF Truncated, whole, a, b
<1>4. CASE t = whole
  BY <1>1, <1>2, <1>4 DEF a, b
<1>5. CASE t = whole - 1 /\ a % b = 0
  BY <1>1, <1>2, <1>5 DEF a, b
<1> QED
  BY <1>3, <1>4, <1>5

\* A length whose exact size is at most n pixels is truncated to at most n.
LEMMA FitsSide ==
  ASSUME NEW t \in Int, NEW d \in Nat \ {0}, NEW e \in Nat, NEW n \in Nat,
         t * d <= e, e <= n * d
  PROVE  t <= n
<1>1. t * d <= n * d
  OBVIOUS
<1> QED
  BY <1>1

\* What is at most one pixel short maps back to within one pixel.
LEMMA ShortMapsBack ==
  ASSUME NEW t \in Nat, NEW d \in Nat \ {0}, NEW e \in Nat, NEW c \in 0 .. t,
         t * d <= e, e <= (t + 1) * d
  PROVE  c * d * t <= c * e /\ c * e <= c * d * t + d * t
<1>1. c * (t * d) <= c * e /\ c * e <= c * ((t + 1) * d)
  OBVIOUS
<1>2. c * (t * d) = c * d * t /\ c * ((t + 1) * d) = c * d * t + c * d
  OBVIOUS
<1>3. c * d <= d * t
  OBVIOUS
<1> QED
  BY <1>1, <1>2, <1>3

LEMMA Division ==
  ASSUME NEW i \in Nat, NEW n \in Nat \ {0}
  PROVE  i \div n \in Nat /\ i % n \in 0 .. n - 1 /\ i = (i \div n) * n + (i % n)
OBVIOUS

LEMMA UniqueDivision ==
  ASSUME NEW n \in Nat \ {0}, NEW q1 \in Nat, NEW q2 \in Nat,
         NEW r1 \in 0 .. n - 1, NEW r2 \in 0 .. n - 1,
         q1 * n + r1 = q2 * n + r2
  PROVE  q1 = q2 /\ r1 = r2
<1>1. ASSUME NEW a \in Nat, NEW b \in Nat, a < b
      PROVE  a * n + n <= b * n
  <2>1. (a + 1) * n <= b * n
    BY <1>1
  <2> QED
    BY <2>1
<1>2. ~(q1 < q2)
  BY <1>1
<1>3. ~(q2 < q1)
  BY <1>1
<1> QED
  BY <1>2, <1>3

-----------------------------------------------------------------------------
(* The layout of the tensor.                                               *)

Plane == InputWidth * InputHeight
Row == 0 .. InputHeight - 1
Column == 0 .. InputWidth - 1
Place(k, r, c) == k * Plane + Index(c, r)

LEMMA PlaneType == InputWidth \in Nat \ {0} /\ InputHeight \in Nat \ {0} /\ Plane \in Nat \ {0}
BY DetectorAssumption DEF Plane

LEMMA TensorSize == 3 * InputWidth * InputHeight = 3 * Plane
BY PlaneType DEF Plane

LEMMA IndexInPlane ==
  ASSUME NEW r \in Row, NEW c \in Column
  PROVE  Index(c, r) \in 0 .. Plane - 1
<1>1. r * InputWidth + InputWidth <= InputHeight * InputWidth
  <2>1. (r + 1) * InputWidth <= InputHeight * InputWidth
    BY PlaneType DEF Row
  <2> QED
    BY <2>1, PlaneType DEF Row
<1>2. r * InputWidth + c >= 0 /\ r * InputWidth + c < Plane
  BY <1>1, PlaneType DEF Plane, Row, Column
<1> QED
  BY <1>2, PlaneType DEF Index, Row, Column

\* No two values of the tensor share a place, and each place is of one.
LEMMA PlacesApart ==
  ASSUME NEW k \in 0 .. 2, NEW r \in Row, NEW c \in Column,
         NEW j \in 0 .. 2, NEW q \in Row, NEW d \in Column,
         Place(k, r, c) = Place(j, q, d)
  PROVE  k = j /\ r = q /\ c = d
<1>1. Index(c, r) \in 0 .. Plane - 1 /\ Index(d, q) \in 0 .. Plane - 1
  BY IndexInPlane
<1>2. k = j /\ Index(c, r) = Index(d, q)
  BY <1>1, PlaneType, UniqueDivision DEF Place
<1>3. r * InputWidth + c = q * InputWidth + d
  BY <1>2 DEF Index
<1> QED
  BY <1>2, <1>3, PlaneType, UniqueDivision DEF Row, Column

LEMMA PlaceOf ==
  ASSUME NEW i \in 0 .. 3 * Plane - 1
  PROVE  /\ i \div Plane \in 0 .. 2
         /\ (i \div InputWidth) % InputHeight \in Row
         /\ i % InputWidth \in Column
         /\ i = Place(i \div Plane, (i \div InputWidth) % InputHeight, i % InputWidth)
<1> DEFINE q == i \div InputWidth
           c == i % InputWidth
           k == q \div InputHeight
           r == q % InputHeight
<1>0. i \in Nat /\ i < 3 * Plane
  BY PlaneType
<1>1. q \in Nat /\ c \in Column /\ i = q * InputWidth + c
  BY <1>0, Division, PlaneType DEF Column
<1> HIDE DEF q, c
<1>2. k \in Nat /\ r \in Row /\ q = k * InputHeight + r
  BY <1>1, Division, PlaneType DEF Row
<1> HIDE DEF k, r
<1>3. Index(c, r) \in 0 .. Plane - 1
  BY <1>1, <1>2, IndexInPlane
<1>4. i = k * Plane + Index(c, r)
  <2>1. (k * InputHeight + r) * InputWidth = k * Plane + r * InputWidth
    BY <1>2, PlaneType DEF Plane, Row
  <2> QED
    BY <1>1, <1>2, <2>1, PlaneType DEF Index, Row, Column
<1>5. i \div Plane \in Nat /\ i % Plane \in 0 .. Plane - 1
      /\ i = (i \div Plane) * Plane + (i % Plane)
  BY <1>0, Division, PlaneType
<1>6. i \div Plane = k
  <2> DEFINE p == i \div Plane
             rest == i % Plane
             index == Index(c, r)
  <2>1. /\ p \in Nat /\ rest \in 0 .. Plane - 1 /\ index \in 0 .. Plane - 1
        /\ p * Plane + rest = k * Plane + index
    BY <1>3, <1>4, <1>5
  <2> HIDE DEF p, rest, index
  <2>2. p = k
    BY <1>2, <2>1, PlaneType, UniqueDivision
  <2> QED
    BY <2>2 DEF p
<1>7. k \in 0 .. 2
  <2>1. ASSUME k >= 3 PROVE FALSE
    <3>1. k * Plane >= 3 * Plane
      BY <1>2, <2>1, PlaneType
    <3> QED
      BY <1>0, <1>2, <1>3, <1>4, <3>1, PlaneType
  <2> QED
    BY <1>2, <2>1
<1> QED
  BY <1>1, <1>2, <1>4, <1>6, <1>7 DEF Place, q, c, k, r

-----------------------------------------------------------------------------
(* The inductive invariant.                                                *)

\* A side of the frame and what it was resized to.
Short(length, to) ==
  to * scale.den <= length * scale.num /\ length * scale.num <= (to + 1) * scale.den

IInv ==
  /\ pc \in Pc
  /\ pc \notin {"new", "failed"} => Valid(configuration)
  /\ pc = "prepare" =>
       /\ picture \in Picture
       /\ picture.width # 0 /\ picture.height # 0
  /\ Prepared =>
       /\ picture.width \in Nat \ {0} /\ picture.height \in Nat \ {0}
       /\ scale.num \in Nat \ {0} /\ scale.den \in Nat \ {0}
       /\ resized.width \in 1 .. InputWidth /\ resized.height \in 1 .. InputHeight
       /\ Short(picture.width, resized.width)
       /\ Short(picture.height, resized.height)

\* The smaller ratio brings neither side beyond the input.
LEMMA ScaleFits ==
  ASSUME NEW p \in Picture, p.width # 0, p.height # 0
  PROVE  /\ p.width \in Nat \ {0} /\ p.height \in Nat \ {0}
         /\ ScaleOf(p) \in [num : Nat \ {0}, den : Nat \ {0}]
         /\ p.width * ScaleOf(p).num <= InputWidth * ScaleOf(p).den
         /\ p.height * ScaleOf(p).num <= InputHeight * ScaleOf(p).den
<1>1. /\ p.width \in Nat \ {0} /\ p.height \in Nat \ {0}
      /\ InputWidth \in Nat \ {0} /\ InputHeight \in Nat \ {0}
  BY DetectorAssumption
<1>2. CASE InputWidth * p.height <= InputHeight * p.width
  <2>1. ScaleOf(p) = [num |-> InputWidth, den |-> p.width]
    BY <1>2 DEF ScaleOf
  <2>2. p.width * InputWidth <= InputWidth * p.width
    BY <1>1
  <2>3. p.height * InputWidth <= InputHeight * p.width
    BY <1>1, <1>2
  <2> QED
    BY <1>1, <2>1, <2>2, <2>3
<1>3. CASE ~(InputWidth * p.height <= InputHeight * p.width)
  <2>1. ScaleOf(p) = [num |-> InputHeight, den |-> p.height]
    BY <1>3 DEF ScaleOf
  <2>2. p.height * InputHeight <= InputHeight * p.height
    BY <1>1
  <2>3. p.width * InputHeight <= InputWidth * p.height
    BY <1>1, <1>3
  <2> QED
    BY <1>1, <2>1, <2>2, <2>3
<1> QED
  BY <1>2, <1>3

LEMMA InitIInv == Init => IInv
BY DEF Init, IInv, Pc, Prepared

LEMMA PrepareIInv == ASSUME IInv, PrepareImage PROVE IInv'
<1>1. /\ picture \in Picture /\ picture.width # 0 /\ picture.height # 0
      /\ picture' = picture /\ configuration' = configuration
      /\ Valid(configuration) /\ scale' = ScaleOf(picture)
  BY DEF IInv, PrepareImage
<1>2. PICK w \in Truncated(picture.width, scale'), h \in Truncated(picture.height, scale') :
        /\ resized' = [width |-> w, height |-> h]
        /\ pc' = IF w < 1 \/ h < 1 THEN "failed" ELSE "copy"
  BY DEF PrepareImage
<1>3. /\ picture.width \in Nat \ {0} /\ picture.height \in Nat \ {0}
      /\ scale' \in [num : Nat \ {0}, den : Nat \ {0}]
      /\ picture.width * scale'.num <= InputWidth * scale'.den
      /\ picture.height * scale'.num <= InputHeight * scale'.den
  BY <1>1, ScaleFits
<1>4. /\ w \in Int /\ w * scale'.den <= picture.width * scale'.num
      /\ picture.width * scale'.num <= (w + 1) * scale'.den
  BY <1>3, TruncatedLength
<1>5. /\ h \in Int /\ h * scale'.den <= picture.height * scale'.num
      /\ picture.height * scale'.num <= (h + 1) * scale'.den
  BY <1>3, TruncatedLength
<1>6. w <= InputWidth
  BY <1>3, <1>4, FitsSide, DetectorAssumption
<1>7. h <= InputHeight
  BY <1>3, <1>5, FitsSide, DetectorAssumption
<1>8. CASE pc' = "failed"
  BY <1>1, <1>8 DEF IInv, Pc, Prepared
<1>9. CASE pc' = "copy"
  <2>1. w >= 1 /\ h >= 1
    BY <1>2, <1>4, <1>5, <1>9
  <2>2. resized'.width \in 1 .. InputWidth /\ resized'.height \in 1 .. InputHeight
    BY <1>2, <1>4, <1>5, <1>6, <1>7, <2>1, DetectorAssumption
  <2>3. Short(picture.width, resized.width)' /\ Short(picture.height, resized.height)'
    BY <1>1, <1>2, <1>4, <1>5 DEF Short
  <2> QED
    BY <1>1, <1>3, <1>9, <2>2, <2>3 DEF IInv, Pc, Valid
<1> QED
  BY <1>2, <1>8, <1>9

LEMMA NextIInv == ASSUME IInv, [Next]_vars PROVE IInv'
<1>1. CASE Construct
  BY <1>1 DEF IInv, Construct, Pc, Prepared, Valid
<1>2. CASE TakeFrame
  BY <1>2 DEF IInv, TakeFrame, Pc, Prepared, Valid
<1>3. CASE PrepareImage
  BY <1>3, PrepareIInv
<1>4. CASE CopyPixel \/ NextRow \/ EndCopy
  BY <1>4 DEF IInv, CopyPixel, NextRow, EndCopy, Pc, Prepared, Valid, Short
<1>5. CASE RunInference \/ CheckOutput
  BY <1>5 DEF IInv, RunInference, CheckOutput, Pc, Prepared, Valid, Short
<1>6. CASE Decode
  BY <1>6 DEF IInv, Decode, Pc, Prepared, Valid
<1>7. CASE UNCHANGED vars
  BY <1>7 DEF IInv, vars, Prepared, Valid, Short
<1> QED
  BY <1>1, <1>2, <1>3, <1>4, <1>5, <1>6, <1>7 DEF Next

LEMMA Invariance == Spec => []IInv
BY InitIInv, NextIInv, PTL DEF Spec

-----------------------------------------------------------------------------
(* The copying loop.                                                       *)

\* The pixels up to (x, y) are in their places.
Copied(r, c) ==
  \A k \in 0 .. 2 : pixels[Place(k, r, c)] = Padded(c, r, k)

CopyInv ==
  /\ pc \in {"copy", "run"} => DOMAIN pixels = 0 .. 3 * Plane - 1
  /\ pc = "copy" =>
       /\ x \in 0 .. InputWidth /\ y \in 0 .. InputHeight
       /\ \A r \in Row, c \in Column : r < y \/ (r = y /\ c < x) => Copied(r, c)
  /\ pc = "run" => \A r \in Row, c \in Column : Copied(r, c)

LEMMA PlaceInTensor ==
  ASSUME NEW k \in 0 .. 2, NEW r \in Row, NEW c \in Column
  PROVE  Place(k, r, c) \in 0 .. 3 * Plane - 1
<1>1. Index(c, r) \in 0 .. Plane - 1
  BY IndexInPlane
<1>2. k * Plane >= 0 /\ k * Plane <= 2 * Plane /\ k * Plane \in Int
  BY PlaneType
<1> QED
  BY <1>1, <1>2, PlaneType DEF Place

LEMMA CopyPixelInv == ASSUME CopyInv, CopyPixel PROVE CopyInv'
<1>1. /\ pc = "copy" /\ pc' = "copy" /\ x \in Column /\ y \in Row
      /\ x' = x + 1 /\ y' = y /\ resized' = resized
      /\ DOMAIN pixels = 0 .. 3 * Plane - 1
  BY PlaneType DEF CopyInv, CopyPixel, Column, Row
<1>2. /\ Place(0, y, x) = Index(x, y)
      /\ Place(1, y, x) = Plane + Index(x, y)
      /\ Place(2, y, x) = 2 * Plane + Index(x, y)
  <2>1. Index(x, y) \in Int
    BY <1>1, IndexInPlane
  <2> QED
    BY <2>1, PlaneType DEF Place
<1>3. pixels' = [pixels EXCEPT ![Place(0, y, x)] = Padded(x, y, 0),
                               ![Place(1, y, x)] = Padded(x, y, 1),
                               ![Place(2, y, x)] = Padded(x, y, 2)]
  BY <1>2 DEF CopyPixel, Plane
<1>4. DOMAIN pixels' = 0 .. 3 * Plane - 1
  BY <1>1, <1>3
<1>5. ASSUME NEW k \in 0 .. 2 PROVE pixels'[Place(k, y, x)] = Padded(x, y, k)
  <2>1. /\ Place(0, y, x) \in DOMAIN pixels /\ Place(1, y, x) \in DOMAIN pixels
        /\ Place(2, y, x) \in DOMAIN pixels
    BY <1>1, PlaceInTensor
  <2>2. /\ Place(0, y, x) # Place(1, y, x) /\ Place(0, y, x) # Place(2, y, x)
        /\ Place(1, y, x) # Place(2, y, x)
    BY <1>1, PlacesApart
  <2>3. k = 0 \/ k = 1 \/ k = 2
    OBVIOUS
  <2> QED
    BY <1>3, <2>1, <2>2, <2>3
<1>6. ASSUME NEW r \in Row, NEW c \in Column, ~(r = y /\ c = x), NEW k \in 0 .. 2
      PROVE  pixels'[Place(k, r, c)] = pixels[Place(k, r, c)]
  <2>1. \A j \in 0 .. 2 : Place(k, r, c) # Place(j, y, x)
    BY <1>1, <1>6, PlacesApart
  <2>2. Place(k, r, c) \in DOMAIN pixels
    BY <1>1, PlaceInTensor
  <2> QED
    BY <1>3, <2>1, <2>2
<1>7. ASSUME NEW r \in Row, NEW c \in Column, r < y \/ (r = y /\ c < x + 1),
             NEW k \in 0 .. 2
      PROVE  pixels'[Place(k, r, c)] = Padded(c, r, k)
  <2>1. CASE r = y /\ c = x
    BY <1>5, <2>1
  <2>2. CASE ~(r = y /\ c = x)
    <3>1. r < y \/ (r = y /\ c < x)
      BY <1>1, <1>7, <2>2 DEF Row, Column
    <3>2. pixels[Place(k, r, c)] = Padded(c, r, k)
      BY <1>1, <3>1 DEF CopyInv, Copied
    <3> QED
      BY <1>6, <2>2, <3>2
  <2> QED
    BY <2>1, <2>2
<1>8. x' \in 0 .. InputWidth /\ y' \in 0 .. InputHeight
  BY <1>1, PlaneType DEF Row, Column
<1> QED
  BY <1>1, <1>4, <1>7, <1>8 DEF CopyInv, Copied, Padded

LEMMA CopyNext == ASSUME CopyInv, [Next]_vars PROVE CopyInv'
<1>1. CASE CopyPixel
  BY <1>1, CopyPixelInv
<1>2. CASE PrepareImage
  <2>1. DOMAIN pixels' = 0 .. 3 * Plane - 1 /\ x' = 0 /\ y' = 0
    <3>1. pixels' = [i \in 0 .. 3 * InputWidth * InputHeight - 1 |-> Zero]
          /\ x' = 0 /\ y' = 0
      BY <1>2 DEF PrepareImage
    <3> QED
      BY <3>1, TensorSize
  <2>2. pc' # "run"
    BY <1>2 DEF PrepareImage
  <2>3. \A r \in Row, c \in Column : ~(r < 0) /\ ~(c < 0)
    BY DEF Row, Column
  <2>4. 0 \in 0 .. InputWidth /\ 0 \in 0 .. InputHeight
    BY PlaneType
  <2> QED
    BY <2>1, <2>2, <2>3, <2>4 DEF CopyInv
<1>3. CASE NextRow
  <2>1. /\ pc = "copy" /\ pc' = "copy" /\ x = InputWidth /\ x' = 0 /\ y' = y + 1
        /\ y \in 0 .. InputHeight /\ y < InputHeight
        /\ pixels' = pixels /\ resized' = resized
    BY <1>3 DEF NextRow, CopyInv
  <2>2. ASSUME NEW r \in Row, NEW c \in Column, r < y + 1 \/ (r = y + 1 /\ c < 0)
        PROVE  r < y \/ (r = y /\ c < x)
    BY <2>1, <2>2, PlaneType DEF Row, Column
  <2>3. x' \in 0 .. InputWidth /\ y' \in 0 .. InputHeight
    BY <2>1, PlaneType
  <2> QED
    BY <2>1, <2>2, <2>3 DEF CopyInv, Copied, Padded
<1>4. CASE EndCopy
  <2>1. /\ pc = "copy" /\ pc' = "run" /\ y = InputHeight
        /\ pixels' = pixels /\ resized' = resized
    BY <1>4 DEF EndCopy
  <2>2. \A r \in Row : r < y
    BY <2>1, PlaneType DEF Row
  <2> QED
    BY <2>1, <2>2 DEF CopyInv, Copied, Padded
<1>5. CASE Construct \/ TakeFrame \/ RunInference \/ CheckOutput \/ Decode
  BY <1>5 DEF CopyInv, Construct, TakeFrame, RunInference, CheckOutput, Decode
<1>6. CASE UNCHANGED vars
  BY <1>6 DEF CopyInv, Copied, Padded, vars
<1> QED
  BY <1>1, <1>2, <1>3, <1>4, <1>5, <1>6 DEF Next

LEMMA CopyInvariance == Spec => []CopyInv
<1>1. Init => CopyInv
  BY DEF Init, CopyInv
<1> QED
  BY <1>1, CopyNext, PTL DEF Spec

-----------------------------------------------------------------------------
(* The theorems.                                                           *)

\* Whatever the sizes, the resized image fits into the input, the decoder's
\* division by the one scale brings every position back to within one pixel,
\* and every value of the tensor is the pixel that belongs there.
THEOREM PictureReachesModel == Spec => []ModelSeesPicture
<1>1. ASSUME IInv PROVE PictureFits
  BY <1>1 DEF IInv, PictureFits
<1>2. ASSUME IInv PROVE PositionsMapBack
  <2> SUFFICES ASSUME Prepared
               PROVE  MapsBack(picture.width, resized.width)
                      /\ MapsBack(picture.height, resized.height)
    BY DEF PositionsMapBack
  <2>1. /\ picture.width \in Nat /\ picture.height \in Nat
        /\ scale.num \in Nat /\ scale.den \in Nat \ {0}
        /\ resized.width \in Nat /\ resized.height \in Nat
        /\ Short(picture.width, resized.width) /\ Short(picture.height, resized.height)
    BY <1>2, DetectorAssumption DEF IInv
  <2>2. ASSUME NEW length \in Nat, NEW to \in Nat, Short(length, to)
        PROVE  MapsBack(length, to)
    <3> SUFFICES ASSUME NEW c \in 0 .. to
                 PROVE  /\ c * scale.den * to <= c * length * scale.num
                        /\ c * length * scale.num
                             <= c * scale.den * to + scale.den * to
      BY DEF MapsBack
    <3> DEFINE e == length * scale.num
    <3>1. e \in Nat /\ to * scale.den <= e /\ e <= (to + 1) * scale.den
      BY <2>1, <2>2 DEF Short
    <3>2. c * length * scale.num = c * e
      BY <2>1
    <3> HIDE DEF e
    <3>3. c * scale.den * to <= c * e /\ c * e <= c * scale.den * to + scale.den * to
      BY <2>1, <3>1, ShortMapsBack
    <3> QED
      BY <3>2, <3>3
  <2> QED
    BY <2>1, <2>2
<1>3. ASSUME CopyInv PROVE TensorShowsPicture
  <2> SUFFICES ASSUME pc = "run", NEW i \in 0 .. 3 * Plane - 1
               PROVE  LET channel == i \div Plane
                          row == (i \div InputWidth) % InputHeight
                          column == i % InputWidth
                      IN  pixels[i] =
                            IF column < resized.width /\ row < resized.height
                            THEN [column |-> column, row |-> row,
                                  colour |-> IF channel = 0 THEN "blue"
                                             ELSE IF channel = 1 THEN "green" ELSE "red"]
                            ELSE Padding
    <3>1. InputWidth * InputHeight = Plane
      BY DEF Plane
    <3> QED
      BY <3>1, TensorSize DEF TensorShowsPicture
  <2> DEFINE k == i \div Plane
             r == (i \div InputWidth) % InputHeight
             c == i % InputWidth
  <2>1. k \in 0 .. 2 /\ r \in Row /\ c \in Column /\ i = Place(k, r, c)
    BY PlaceOf
  <2> HIDE DEF k, r, c
  <2>2. pixels[i] = Padded(c, r, k)
    BY <1>3, <2>1 DEF CopyInv, Copied
  <2>3. Bgr[k + 1] = IF k = 0 THEN "blue" ELSE IF k = 1 THEN "green" ELSE "red"
    BY <2>1 DEF Bgr
  <2> QED
    BY <2>2, <2>3 DEF Padded, k, r, c
<1>4. IInv /\ CopyInv => ModelSeesPicture
  BY <1>1, <1>2, <1>3 DEF ModelSeesPicture
<1> QED
  BY Invariance, CopyInvariance, <1>4, PTL

\* Preparing a frame fails only if a side would be no longer than one pixel, and
\* decodeDetections() and applyNms() refuse nothing they are given.
THEOREM FailuresJustified == Spec => NoNeedlessFailure
<1> DEFINE Step ==
      pc' = "failed" =>
        /\ pc # "decode"
        /\ pc = "prepare" => \/ picture.width * scale'.num <= scale'.den
                             \/ picture.height * scale'.num <= scale'.den
<1>1. ASSUME IInv, [Next]_vars PROVE [Step]_vars
  <2> SUFFICES ASSUME pc' = "failed", Next PROVE Step
    BY <1>1
  <2>1. ASSUME pc = "decode" PROVE FALSE
    <3>1. Decode
      BY <2>1
         DEF Next, Construct, TakeFrame, PrepareImage, CopyPixel, NextRow, EndCopy,
             RunInference, CheckOutput
    <3>2. ~Refused
      BY <1>1, <2>1 DEF IInv, Prepared, Refused, Valid
    <3> QED
      BY <3>1, <3>2 DEF Decode
  <2>2. ASSUME pc = "prepare"
        PROVE  \/ picture.width * scale'.num <= scale'.den
               \/ picture.height * scale'.num <= scale'.den
    <3>1. PrepareImage
      BY <2>2
         DEF Next, Construct, TakeFrame, CopyPixel, NextRow, EndCopy, RunInference,
             CheckOutput, Decode
    <3>2. PICK w \in Truncated(picture.width, scale'),
               h \in Truncated(picture.height, scale') : w < 1 \/ h < 1
      BY <3>1 DEF PrepareImage
    <3>3. /\ picture.width \in Nat /\ picture.height \in Nat
          /\ scale' \in [num : Nat, den : Nat \ {0}]
      BY <1>1, <2>2, <3>1, ScaleFits DEF IInv, PrepareImage
    <3>4. w \in Int /\ picture.width * scale'.num <= (w + 1) * scale'.den
      BY <3>3, TruncatedLength
    <3>5. h \in Int /\ picture.height * scale'.num <= (h + 1) * scale'.den
      BY <3>3, TruncatedLength
    <3>6. ASSUME NEW t \in Int, t < 1 PROVE (t + 1) * scale'.den <= scale'.den
      BY <3>3, <3>6
    <3>7. (w + 1) * scale'.den \in Int /\ (h + 1) * scale'.den \in Int
          /\ picture.width * scale'.num \in Int /\ picture.height * scale'.num \in Int
      BY <3>3, <3>4, <3>5
    <3> QED
      BY <3>2, <3>3, <3>4, <3>5, <3>6, <3>7
  <2> QED
    BY <2>1, <2>2
<1> QED
  BY Invariance, <1>1, PTL DEF Spec, NoNeedlessFailure
=============================================================================
