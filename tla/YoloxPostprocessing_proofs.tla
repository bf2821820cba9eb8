----------------------- MODULE YoloxPostprocessing_proofs -----------------------
(***************************************************************************)
(* For every input size, list of strides, number of classes, thresholds,   *)
(* scale and buffer of predictions: decoding gives the detections that the *)
(* rows predict, and suppression keeps the strongest one of each object.   *)
(***************************************************************************)
EXTENDS YoloxPostprocessing, FiniteSetTheorems, SequenceTheorems,
        WellFoundedInduction, TLAPS

-----------------------------------------------------------------------------
(* Facts about natural numbers: they stand for induction, which the provers
   cannot use, for the two recursive definitions of the model. *)

\* A set of natural numbers that is not empty has a least element.
LEMMA LeastElement ==
  ASSUME NEW T \in SUBSET Nat, T # {}
  PROVE  \E m \in T : \A n \in T : m <= n
<1>1. PICK m \in T : \A n \in T : ~ (<<n, m>> \in OpToRel(<, Nat))
  BY NatLessThanWellFounded, WFMin
<1>2. \A n \in T : ~ (n < m)
  BY <1>1 DEF OpToRel
<1> QED
  BY <1>2

\* Induction up to N, as a statement about the set of numbers it holds for.
LEMMA IntervalInduction ==
  ASSUME NEW N \in Nat, NEW P \in SUBSET (0 .. N), 0 \in P,
         \A n \in 1 .. N : n - 1 \in P => n \in P
  PROVE  P = 0 .. N
<1> SUFFICES ASSUME (0 .. N) \ P # {} PROVE FALSE
  OBVIOUS
<1>1. (0 .. N) \ P \in SUBSET Nat
  OBVIOUS
<1>2. PICK m \in (0 .. N) \ P : \A n \in (0 .. N) \ P : m <= n
  BY <1>1, LeastElement
<1>3. m \in 1 .. N /\ m - 1 \in 0 .. N /\ ~ (m <= m - 1)
  BY <1>2
<1>4. m - 1 \in P
  BY <1>2, <1>3
<1> QED
  BY <1>2, <1>3, <1>4

\* Some function takes the values of a step repeated N times from first.
Iterable(N, S, first, step) ==
  \E f \in [0 .. N -> S] :
    /\ f[0] = first
    /\ \A n \in 1 .. N : f[n] = step[<<n, f[n - 1]>>]

\* A step repeated N times defines a function: the recursive definition has
\* a value, so that its CHOOSE can be unfolded.
LEMMA Iteration ==
  ASSUME NEW N \in Nat, NEW S, NEW first \in S,
         NEW step \in [(1 .. N) \X S -> S]
  PROVE  Iterable(N, S, first, step)
<1> DEFINE Run(m, f) == f[0] = first /\ \A n \in 1 .. m : f[n] = step[<<n, f[n - 1]>>]
           P == {m \in 0 .. N : \E f \in [0 .. m -> S] : Run(m, f)}
<1>1. 0 \in P
  <2> DEFINE f == [x \in 0 .. 0 |-> first]
  <2>1. f \in [0 .. 0 -> S] /\ Run(0, f)
    OBVIOUS
  <2>2. 0 \in 0 .. N
    OBVIOUS
  <2> HIDE DEF f
  <2> QED
    BY <2>1, <2>2
<1>2. ASSUME NEW m \in 1 .. N, m - 1 \in P PROVE m \in P
  <2>1. PICK g \in [0 .. m - 1 -> S] : Run(m - 1, g)
    BY <1>2
  <2> DEFINE f == [x \in 0 .. m |-> IF x = m THEN step[<<m, g[m - 1]>>] ELSE g[x]]
  <2>2. g[m - 1] \in S /\ <<m, g[m - 1]>> \in (1 .. N) \X S
    BY <2>1
  <2>3. step[<<m, g[m - 1]>>] \in S
    BY <2>2
  <2>4. f \in [0 .. m -> S]
    BY <2>1, <2>3
  <2>5. f[0] = first
    BY <2>1
  <2>6. ASSUME NEW n \in 1 .. m PROVE f[n] = step[<<n, f[n - 1]>>]
    <3>1. f[n - 1] = g[n - 1]
      OBVIOUS
    <3>2. CASE n = m
      <4>1. f[m] = step[<<m, g[m - 1]>>]
        OBVIOUS
      <4>2. f[m - 1] = g[m - 1]
        OBVIOUS
      <4> HIDE DEF f
      <4> QED
        BY <3>2, <4>1, <4>2
    <3>3. CASE n # m
      <4>1. n \in 1 .. m - 1
        BY <3>3
      <4> QED
        BY <2>1, <3>1, <3>3, <4>1
    <3> QED
      BY <3>2, <3>3
  <2>7. m \in 0 .. N
    OBVIOUS
  <2> HIDE DEF f
  <2> QED
    BY <2>4, <2>5, <2>6, <2>7
<1>3. P \in SUBSET (0 .. N)
  OBVIOUS
<1> HIDE DEF P
<1>4. P = 0 .. N
  BY <1>1, <1>2, <1>3, IntervalInduction
<1>5. N \in P
  BY <1>4
<1> QED
  BY <1>5 DEF P, Iterable

-----------------------------------------------------------------------------
(* The recursive definitions: the number of cells, and the scan over the classes. *)

StrideCount == Len(Strides)

LEMMA Sizes ==
  /\ StrideCount \in Nat
  /\ \A n \in 1 .. StrideCount :
       /\ Strides[n] \in Nat \ {0}
       /\ GridWidth(Strides[n]) \in Nat /\ GridHeight(Strides[n]) \in Nat
       /\ CellCount(Strides[n]) \in Nat
<1>1. Strides \in Seq(Nat \ {0}) /\ InputWidth \in Nat /\ InputHeight \in Nat
  BY PostprocessingAssumption
<1>2. ASSUME NEW n \in 1 .. StrideCount PROVE Strides[n] \in Nat \ {0}
  BY <1>1 DEF StrideCount
<1>3. ASSUME NEW s \in Nat \ {0} PROVE InputWidth \div s \in Nat /\ InputHeight \div s \in Nat
  BY <1>1
<1>4. ASSUME NEW w \in Nat, NEW h \in Nat PROVE w * h \in Nat
  OBVIOUS
<1>5. StrideCount \in Nat
  BY <1>1 DEF StrideCount
<1> QED
  BY <1>2, <1>3, <1>4, <1>5 DEF GridWidth, GridHeight, CellCount

\* Count satisfies the equations of its definition.
LEMMA CountSteps ==
  /\ Count[0] = 0
  /\ \A n \in 1 .. StrideCount : Count[n] = Count[n - 1] + CellCount(Strides[n])
<1> DEFINE step == [p \in (1 .. StrideCount) \X Nat |-> p[2] + CellCount(Strides[p[1]])]
           Unfold(f) == [n \in 0 .. Len(Strides) |->
                          IF n = 0 THEN 0 ELSE f[n - 1] + CellCount(Strides[n])]
<1>1. step \in [(1 .. StrideCount) \X Nat -> Nat]
  BY Sizes
<1>2. PICK f \in [0 .. StrideCount -> Nat] :
        f[0] = 0 /\ \A n \in 1 .. StrideCount : f[n] = step[<<n, f[n - 1]>>]
  <2>1. StrideCount \in Nat /\ 0 \in Nat
    BY Sizes
  <2> HIDE DEF step
  <2>2. Iterable(StrideCount, Nat, 0, step)
    BY <1>1, <2>1, Iteration
  <2> QED
    BY <2>2 DEF Iterable
<1>3. ASSUME NEW n \in 1 .. StrideCount PROVE f[n] = f[n - 1] + CellCount(Strides[n])
  <2>1. f[n - 1] \in Nat /\ <<n, f[n - 1]>> \in (1 .. StrideCount) \X Nat
    BY <1>2, Sizes
  <2>2. step[<<n, f[n - 1]>>] = f[n - 1] + CellCount(Strides[n])
    BY <2>1
  <2> QED
    BY <1>2, <2>2
<1>4. f = Unfold(f)
  <2>1. ASSUME NEW n \in 0 .. StrideCount
        PROVE  f[n] = IF n = 0 THEN 0 ELSE f[n - 1] + CellCount(Strides[n])
    BY <1>2, <1>3, Sizes
  <2> QED
    BY <1>2, <2>1 DEF StrideCount
<1>5. Count = CHOOSE g : g = Unfold(g)
  BY DEF Count
<1>6. Count = Unfold(Count)
  <2> HIDE DEF Unfold
  <2> QED
    BY <1>4, <1>5
<1> QED
  BY <1>6, Sizes DEF StrideCount

LEMMA CountNat == \A n \in 0 .. StrideCount : Count[n] \in Nat
<1> DEFINE P == {n \in 0 .. StrideCount : Count[n] \in Nat}
<1>1. 0 \in P
  BY CountSteps, Sizes
<1>2. ASSUME NEW n \in 1 .. StrideCount, n - 1 \in P PROVE n \in P
  BY <1>2, CountSteps, Sizes
<1>3. P \in SUBSET (0 .. StrideCount)
  OBVIOUS
<1> HIDE DEF P
<1>4. P = 0 .. StrideCount
  BY <1>1, <1>2, <1>3, Sizes, IntervalInduction
<1> QED
  BY <1>4 DEF P

LEMMA CountMonotone ==
  ASSUME NEW m \in 0 .. StrideCount
  PROVE  \A n \in 0 .. StrideCount : m <= n => Count[m] <= Count[n]
<1> DEFINE P == {n \in 0 .. StrideCount : m <= n => Count[m] <= Count[n]}
<1>1. 0 \in P
  BY CountNat, Sizes
<1>2. ASSUME NEW n \in 1 .. StrideCount, n - 1 \in P PROVE n \in P
  BY <1>2, CountSteps, CountNat, Sizes
<1>3. P \in SUBSET (0 .. StrideCount)
  OBVIOUS
<1> HIDE DEF P
<1>4. P = 0 .. StrideCount
  BY <1>1, <1>2, <1>3, Sizes, IntervalInduction
<1> QED
  BY <1>4 DEF P

\* What the scan holds after the first n classes.
Scanned(row, best, n) ==
  \/ /\ best.class = -1 /\ best.score = 0
     /\ \A c \in 0 .. n - 1 : row.score[c] # NotFinite => row.score[c] <= 0
  \/ /\ best.class \in 0 .. n - 1
     /\ best.score = row.score[best.class]
     /\ best.score \in Int /\ best.score > 0
     /\ \A c \in 0 .. n - 1 : row.score[c] # NotFinite =>
           \/ best.score > row.score[c]
           \/ best.score = row.score[c] /\ best.class <= c

\* The scan over the classes ends with the best class, or with class -1.
LEMMA ScanResult ==
  ASSUME NEW row \in Prediction
  PROVE  Best(row) \in [class : Int, score : Int] /\ Scanned(row, Best(row), ClassCount)
<1> DEFINE B == [class : Int, score : Int]
           none == [class |-> -1, score |-> 0]
           step == [p \in (1 .. ClassCount) \X B |-> Better(p[2], row, p[1] - 1)]
           Unfold(f) == [n \in 0 .. ClassCount |->
                          IF n = 0 THEN none ELSE Better(f[n - 1], row, n - 1)]
<1>0. ClassCount \in Nat /\ row.score \in [Class -> Number] /\ NotFinite \notin Int
  BY PostprocessingAssumption
<1>1. ASSUME NEW b \in B, NEW n \in 1 .. ClassCount PROVE Better(b, row, n - 1) \in B
  <2>1. row.score[n - 1] \in Number
    BY <1>0 DEF Class
  <2> QED
    BY <1>0, <2>1 DEF Better, Number
<1>2. step \in [(1 .. ClassCount) \X B -> B]
  <2> HIDE DEF B
  <2> QED
    BY <1>1
<1>3. PICK f \in [0 .. ClassCount -> B] :
        f[0] = none /\ \A n \in 1 .. ClassCount : f[n] = step[<<n, f[n - 1]>>]
  <2>1. none \in B
    OBVIOUS
  <2> HIDE DEF step, B, none
  <2>2. Iterable(ClassCount, B, none, step)
    BY <1>0, <1>2, <2>1, Iteration
  <2> QED
    BY <2>2 DEF Iterable
<1>4. ASSUME NEW n \in 1 .. ClassCount PROVE f[n] = Better(f[n - 1], row, n - 1)
  <2> HIDE DEF B
  <2>1. f[n - 1] \in B /\ <<n, f[n - 1]>> \in (1 .. ClassCount) \X B
    BY <1>0, <1>3
  <2>2. step[<<n, f[n - 1]>>] = Better(f[n - 1], row, n - 1)
    BY <2>1
  <2> QED
    BY <1>3, <2>2
<1>5. f = Unfold(f)
  <2> HIDE DEF B, none
  <2>1. ASSUME NEW n \in 0 .. ClassCount
        PROVE f[n] = IF n = 0 THEN none ELSE Better(f[n - 1], row, n - 1)
    BY <1>0, <1>3, <1>4
  <2> QED
    BY <1>3, <2>1
<1> DEFINE scan == CHOOSE g : g = Unfold(g)
<1>6. Best(row) = scan[ClassCount]
  BY DEF Best
<1>7. scan = Unfold(scan)
  <2> HIDE DEF Unfold
  <2> QED
    BY <1>5
<1> HIDE DEF scan
<1> DEFINE P == {n \in 0 .. ClassCount : scan[n] \in B /\ Scanned(row, scan[n], n)}
<1>8. 0 \in P
  BY <1>0, <1>7 DEF Scanned
<1>9. ASSUME NEW n \in 1 .. ClassCount, n - 1 \in P PROVE n \in P
  <2> DEFINE b == scan[n - 1]
             c == n - 1
  <2>1. b \in B /\ Scanned(row, b, n - 1)
    BY <1>9
  <2>2. scan[n] = Better(b, row, c)
    <3>1. n \in 0 .. ClassCount /\ n # 0
      BY <1>0
    <3>2. scan[n] = Unfold(scan)[n]
      BY <1>7
    <3> HIDE DEF none
    <3> QED
      BY <3>1, <3>2
  <2>3. scan[n] \in B
    BY <1>1, <2>1, <2>2
  <2>4. Scanned(row, scan[n], n)
    <3>1. row.score[c] \in Number /\ c \in Int /\ n \in Nat
      BY <1>0 DEF Class
    <3>2. \A k \in 0 .. n - 1 : row.score[k] \in Number /\ (k \in 0 .. n - 1 - 1 \/ k = c)
      BY <1>0 DEF Class
    <3> HIDE DEF b
    <3>3. CASE row.score[c] # NotFinite /\ row.score[c] > b.score
      <4>1. scan[n].class = c /\ scan[n].score = row.score[c]
        BY <2>2, <3>3 DEF Better
      <4>2. row.score[c] \in Int
        BY <3>1, <3>3 DEF Number
      <4>3. b.score \in Int /\ b.score >= 0
        BY <2>1 DEF Scanned
      <4>4. ASSUME NEW k \in 0 .. n - 1, row.score[k] # NotFinite
            PROVE  \/ row.score[c] > row.score[k]
                   \/ row.score[c] = row.score[k] /\ c <= k
        <5>1. CASE k = c
          BY <5>1, <4>2
        <5>2. CASE k \in 0 .. n - 1 - 1
          <6>1. row.score[k] \in Int
            BY <3>2, <4>4 DEF Number
          <6>2. b.score >= row.score[k]
            BY <2>1, <4>3, <4>4, <5>2, <6>1 DEF Scanned
          <6> QED
            BY <3>3, <4>2, <4>3, <6>1, <6>2
        <5> QED
          BY <3>2, <5>1, <5>2
      <4>5. scan[n].score > 0
        BY <3>3, <4>1, <4>2, <4>3
      <4>6. c \in 0 .. n - 1
        OBVIOUS
      <4> QED
        BY <4>1, <4>2, <4>4, <4>5, <4>6 DEF Scanned
    <3>4. CASE ~ (row.score[c] # NotFinite /\ row.score[c] > b.score)
      <4>1. scan[n] = b
        BY <2>2, <3>4 DEF Better
      <4>2. b.score \in Int
        BY <2>1
      <4>3. row.score[c] # NotFinite => row.score[c] \in Int /\ row.score[c] <= b.score
        BY <3>1, <3>4, <4>2 DEF Number
      <4>4. CASE b.class = -1
        <5>1. b.score = 0 /\ \A k \in 0 .. n - 1 - 1 : row.score[k] # NotFinite => row.score[k] <= 0
          BY <2>1, <4>4 DEF Scanned
        <5>2. \A k \in 0 .. n - 1 : row.score[k] # NotFinite => row.score[k] <= 0
          BY <3>2, <4>3, <5>1
        <5> QED
          BY <4>1, <4>4, <5>1, <5>2 DEF Scanned
      <4>5. CASE b.class # -1
        <5>1. /\ b.class \in 0 .. n - 1 - 1
              /\ b.score = row.score[b.class]
              /\ b.score \in Int /\ b.score > 0
              /\ \A k \in 0 .. n - 1 - 1 : row.score[k] # NotFinite =>
                    \/ b.score > row.score[k]
                    \/ b.score = row.score[k] /\ b.class <= k
          BY <2>1, <4>5 DEF Scanned
        <5>2. \A k \in 0 .. n - 1 : row.score[k] # NotFinite =>
                    \/ b.score > row.score[k]
                    \/ b.score = row.score[k] /\ b.class <= k
          BY <3>2, <4>2, <4>3, <5>1
        <5>3. b.class \in 0 .. n - 1
          BY <5>1
        <5> QED
          BY <4>1, <5>1, <5>2, <5>3 DEF Scanned
      <4> QED
        BY <4>4, <4>5
    <3> QED
      BY <3>3, <3>4
  <2>5. n \in 0 .. ClassCount
    BY <1>0
  <2> QED
    BY <2>3, <2>4, <2>5
<1>10. P \in SUBSET (0 .. ClassCount)
  OBVIOUS
<1> HIDE DEF P
<1>11. P = 0 .. ClassCount
  BY <1>0, <1>8, <1>9, <1>10, IntervalInduction
<1>12. ClassCount \in P
  BY <1>0, <1>11
<1> QED
  BY <1>6, <1>12 DEF P

-----------------------------------------------------------------------------
(* What a row says, and the order of the cells. *)

\* A row is confident for the one class that IsBest describes.
LEMMA BestClass ==
  ASSUME NEW row \in Prediction
  PROVE  /\ Best(row).class \in Int /\ Best(row).score \in Int
         /\ Confident(row) => /\ Best(row).class \in Class
                              /\ Best(row).score = row.score[Best(row).class]
                              /\ Best(row).score > 0
         /\ \A class \in Class :
              IsBest(row, class) /\ row.score[class] > 0 /\ row.score[class] >= ScoreThreshold
                <=> Confident(row) /\ Best(row).class = class
<1> DEFINE b == Best(row)
<1>1. /\ ClassCount \in Nat /\ ScoreThreshold \in Nat
      /\ row.score \in [Class -> Number] /\ NotFinite \notin Int
  BY PostprocessingAssumption
<1>2. \A c \in Class : row.score[c] # NotFinite => row.score[c] \in Int
  BY <1>1 DEF Number
<1>3. b.class \in Int /\ b.score \in Int /\ Scanned(row, b, ClassCount)
  BY ScanResult
<1>4. Class = 0 .. ClassCount - 1
  BY DEF Class
<1> HIDE DEF b
<1>5. CASE b.class = -1
  <2>1. ASSUME NEW class \in Class, IsBest(row, class) PROVE ~ (row.score[class] > 0)
    <3>1. row.score[class] # NotFinite /\ row.score[class] \in Int
      BY <1>2, <2>1 DEF IsBest
    <3>2. row.score[class] <= 0
      BY <1>3, <1>4, <1>5, <3>1 DEF Scanned
    <3> QED
      BY <3>1, <3>2
  <2>2. ~ Confident(row)
    BY <1>5 DEF Confident, b
  <2> QED
    BY <1>3, <2>1, <2>2 DEF b
<1>6. CASE b.class # -1
  <2>1. /\ b.class \in Class
        /\ b.score = row.score[b.class]
        /\ b.score \in Int /\ b.score > 0
        /\ \A c \in Class : row.score[c] # NotFinite =>
              \/ b.score > row.score[c]
              \/ b.score = row.score[c] /\ b.class <= c
    BY <1>3, <1>4, <1>6 DEF Scanned
  <2>2. row.score[b.class] # NotFinite
    BY <1>1, <2>1
  <2>3. IsBest(row, b.class)
    BY <2>1, <2>2 DEF IsBest
  <2>4. ASSUME NEW class \in Class, IsBest(row, class) PROVE class = b.class
    <3>1. row.score[class] # NotFinite /\ row.score[class] \in Int
      BY <1>2, <2>4 DEF IsBest
    <3>2. \/ b.score > row.score[class]
          \/ b.score = row.score[class] /\ b.class <= class
      BY <2>1, <3>1
    <3>3. \/ row.score[class] > b.score
          \/ row.score[class] = b.score /\ class <= b.class
      BY <2>1, <2>2, <2>4 DEF IsBest
    <3>4. class \in Int /\ b.class \in Int
      BY <1>1, <1>4, <2>1
    <3> QED
      BY <2>1, <3>1, <3>2, <3>3, <3>4
  <2>5. Confident(row) <=> b.score >= ScoreThreshold
    <3>1. b.class >= 0
      BY <1>1, <1>4, <2>1
    <3> QED
      BY <3>1 DEF Confident, b
  <2> QED
    BY <1>3, <2>1, <2>3, <2>4, <2>5 DEF b
<1> QED
  BY <1>5, <1>6

LEMMA NonEmptyArea ==
  ASSUME NEW w \in Nat, NEW h \in Nat
  PROVE  w * h > 0 <=> w > 0 /\ h > 0
OBVIOUS

\* The box is checked by its sides: the same as by its area.
LEMMA SizedRow ==
  ASSUME NEW row \in Prediction
  PROVE  /\ Sized(row) <=> /\ NotFinite \notin {row.x, row.y, row.width, row.height}
                           /\ row.width * row.height > 0
         /\ Sized(row) => /\ row.x \in Int /\ row.y \in Int
                          /\ row.width \in Nat \ {0} /\ row.height \in Nat \ {0}
<1>1. /\ NotFinite \notin {row.x, row.y, row.width, row.height} =>
            row.x \in Int /\ row.y \in Int /\ row.width \in Nat /\ row.height \in Nat
  BY PostprocessingAssumption DEF Number
<1> QED
  BY <1>1, NonEmptyArea DEF Sized


\* A cell is a stride, a row and a column of that stride's grid.
LEMMA CellForm ==
  ASSUME NEW c
  PROVE  c \in Cell <=>
           /\ c = <<c[1], c[2], c[3]>>
           /\ c[1] \in 1 .. StrideCount
           /\ c[2] \in 0 .. GridHeight(Strides[c[1]]) - 1
           /\ c[3] \in 0 .. GridWidth(Strides[c[1]]) - 1
<1>1. ASSUME c \in Cell
      PROVE  /\ c = <<c[1], c[2], c[3]>>
             /\ c[1] \in 1 .. StrideCount
             /\ c[2] \in 0 .. GridHeight(Strides[c[1]]) - 1
             /\ c[3] \in 0 .. GridWidth(Strides[c[1]]) - 1
  BY <1>1 DEF Cell, StrideCount
<1>2. ASSUME c = <<c[1], c[2], c[3]>>, 
             c[1] \in 1 .. StrideCount,
             c[2] \in 0 .. GridHeight(Strides[c[1]]) - 1,
             c[3] \in 0 .. GridWidth(Strides[c[1]]) - 1
      PROVE c \in Cell
  <2> DEFINE Grid(s) == {<<s, y, x>> : y \in 0 .. GridHeight(Strides[s]) - 1,
                                      x \in 0 .. GridWidth(Strides[s]) - 1}
  <2>1. c \in Grid(c[1])
    BY <1>2
  <2>2. Cell = UNION {Grid(s) : s \in 1 .. StrideCount}
    BY DEF Cell, StrideCount
  <2> HIDE DEF Grid
  <2> QED
    BY <1>2, <2>1, <2>2
<1> QED
  BY <1>1, <1>2

LEMMA CellTyped ==
  ASSUME NEW c \in Cell
  PROVE  /\ c[1] \in Nat /\ c[2] \in Nat /\ c[3] \in Nat
         /\ Strides[c[1]] \in Nat \ {0}
         /\ c[1] <= StrideCount
         /\ c[2] < GridHeight(Strides[c[1]]) /\ c[3] < GridWidth(Strides[c[1]])
BY CellForm, Sizes

\* The cells read before one of them.
Preceding(cell) == {c \in Cell : Precedes(c, cell)}

\* The index of a cell grows with the order in which cells are read.
LEMMA IndexIncreasing ==
  ASSUME NEW c \in Cell, NEW d \in Cell, IsFiniteSet(Preceding(d)), Precedes(c, d)
  PROVE  IndexOf(c) \in Nat /\ IndexOf(d) \in Nat /\ IndexOf(c) < IndexOf(d)
<1>1. Preceding(c) \in SUBSET Preceding(d)
  <2> SUFFICES ASSUME NEW b \in Cell, Precedes(b, c) PROVE Precedes(b, d)
    BY DEF Preceding
  <2> QED
    BY CellTyped DEF Precedes
<1>2. c \in Preceding(d) /\ c \notin Preceding(c)
  BY CellTyped DEF Preceding, Precedes
<1>3. /\ IsFiniteSet(Preceding(c))
      /\ Cardinality(Preceding(c)) <= Cardinality(Preceding(d))
      /\ Cardinality(Preceding(c)) # Cardinality(Preceding(d))
  BY <1>1, <1>2, FS_Subset
<1>4. Cardinality(Preceding(c)) \in Nat /\ Cardinality(Preceding(d)) \in Nat
  BY <1>3, FS_CardinalityType
<1> QED
  BY <1>3, <1>4 DEF IndexOf, Preceding

LEMMA PrecedesTotal ==
  ASSUME NEW c \in Cell, NEW d \in Cell, c # d
  PROVE  Precedes(c, d) \/ Precedes(d, c)
<1>1. c = <<c[1], c[2], c[3]>> /\ d = <<d[1], d[2], d[3]>>
  BY CellForm
<1>2. c[1] # d[1] \/ c[2] # d[2] \/ c[3] # d[3]
  BY <1>1
<1> QED
  BY <1>2, CellTyped DEF Precedes

\* Two cells never share a row of the buffer.
LEMMA IndexInjective ==
  ASSUME NEW c \in Cell, NEW d \in Cell,
         IsFiniteSet(Preceding(c)), IsFiniteSet(Preceding(d)), IndexOf(c) = IndexOf(d)
  PROVE  c = d
<1> SUFFICES ASSUME c # d PROVE FALSE
  OBVIOUS
<1>1. CASE Precedes(c, d)
  BY <1>1, IndexIncreasing
<1>2. CASE Precedes(d, c)
  BY <1>2, IndexIncreasing
<1> QED
  BY <1>1, <1>2, PrecedesTotal

-----------------------------------------------------------------------------
(* decodeDetections(): the cursor and the buffer. *)

\* The cell that is read next.
Here == <<stride, gridY, gridX>>

\* The index into the buffer, by the place in the three loops.
CursorInv ==
  /\ pc \in {"decode", "suppress", "done"}
  /\ predictions \in [0 .. CandidateCount - 1 -> Prediction]
  /\ stride \in 1 .. StrideCount + 1 /\ gridX \in Nat /\ gridY \in Nat /\ candidateIndex \in Nat
  /\ stride <= StrideCount =>
       LET w == GridWidth(Strides[stride])
           h == GridHeight(Strides[stride])
       IN  /\ gridX <= w /\ gridY <= h /\ (gridY = h => gridX = 0)
           /\ candidateIndex = Count[stride - 1] + gridY * w + gridX
  /\ stride = StrideCount + 1 => candidateIndex = CandidateCount
  /\ pc # "decode" => stride = StrideCount + 1

\* The index is the number of cells read before.
PastInv == IsFiniteSet(Preceding(Here)) /\ Cardinality(Preceding(Here)) = candidateIndex

LEMMA InitCursor == Init => CursorInv /\ PastInv
<1> SUFFICES ASSUME Init PROVE CursorInv /\ PastInv
  OBVIOUS
<1>1. CursorInv
  <2>1. pc = "decode" /\ stride = 1 /\ gridX = 0 /\ gridY = 0 /\ candidateIndex = 0
        /\ predictions \in [0 .. CandidateCount - 1 -> Prediction]
    BY DEF Init
  <2>2. stride <= StrideCount => /\ GridWidth(Strides[stride]) \in Nat
                                 /\ GridHeight(Strides[stride]) \in Nat
    BY <2>1, Sizes
  <2>3. \A w \in Nat : 0 = Count[1 - 1] + 0 * w + 0
    BY CountSteps
  <2> QED
    BY <2>1, <2>2, <2>3, CountSteps, Sizes DEF CursorInv, CandidateCount, StrideCount
<1>2. Preceding(Here) = {}
  <2>1. Here = <<1, 0, 0>>
    BY DEF Init, Here
  <2>2. \A c \in Cell : /\ c[1] >= 1 /\ c[2] >= 0 /\ c[3] >= 0
                        /\ c[1] \in Nat /\ c[2] \in Nat /\ c[3] \in Nat
    BY CellForm, CellTyped
  <2> QED
    BY <2>1, <2>2 DEF Preceding, Precedes
<1>3. PastInv
  BY <1>2, FS_EmptySet DEF PastInv, Init
<1> QED
  BY <1>1, <1>3

\* The last index of a grid is below its number of cells.
LEMMA GridProduct ==
  ASSUME NEW w \in Nat, NEW h \in Nat, NEW x \in Nat, NEW y \in Nat, x < w, y < h
  PROVE  y * w + x < w * h
<1>1. w * h = h * w /\ (y + 1) * w = y * w + w
  OBVIOUS
<1>2. (y + 1) * w <= h * w
  OBVIOUS
<1>3. y * w \in Nat /\ h * w \in Nat
  OBVIOUS
<1> QED
  BY <1>1, <1>2, <1>3

InCell == InGrid /\ gridX < GridWidth(Strides[stride])

\* Each row that is read is in the buffer, and it is the row of the cell.
LEMMA CellRow ==
  ASSUME CursorInv, PastInv, InCell
  PROVE  /\ Here \in Cell
         /\ candidateIndex \in 0 .. CandidateCount - 1
         /\ IndexOf(Here) = candidateIndex
         /\ predictions[candidateIndex] \in Prediction
<1> DEFINE w == GridWidth(Strides[stride])
           h == GridHeight(Strides[stride])
<1>1. stride \in 1 .. StrideCount /\ gridX \in Nat /\ gridY \in Nat /\ gridX < w /\ gridY < h
  BY Sizes DEF CursorInv, InCell, InGrid, StrideCount
<1>2. w \in Nat /\ h \in Nat
  BY <1>1, Sizes
<1>3. Here \in Cell
  <2>1. Here = <<Here[1], Here[2], Here[3]>> /\ Here[1] = stride /\ Here[2] = gridY /\ Here[3] = gridX
    BY DEF Here
  <2>2. Here[2] \in 0 .. h - 1 /\ Here[3] \in 0 .. w - 1
    BY <1>1, <1>2, <2>1
  <2> QED
    BY <1>1, <2>1, <2>2, CellForm
<1>4. candidateIndex = Count[stride - 1] + gridY * w + gridX
  BY <1>1 DEF CursorInv
<1>5. Count[stride] = Count[stride - 1] + w * h
  BY <1>1, CountSteps DEF CellCount, GridWidth, GridHeight
<1>6. Count[stride] <= Count[StrideCount]
  BY <1>1, Sizes, CountMonotone
<1>7. Count[stride - 1] \in Nat /\ Count[stride] \in Nat /\ Count[StrideCount] \in Nat
  BY <1>1, Sizes, CountNat
<1>8. candidateIndex < Count[stride]
  <2>1. gridY * w + gridX < w * h
    BY <1>1, <1>2, GridProduct
  <2>2. gridY * w \in Nat /\ w * h \in Nat
    BY <1>1, <1>2
  <2> HIDE DEF w, h
  <2> QED
    BY <1>1, <1>4, <1>5, <1>7, <2>1, <2>2
<1>9. candidateIndex \in 0 .. CandidateCount - 1
  BY <1>6, <1>7, <1>8 DEF CandidateCount, StrideCount, CursorInv
<1>10. IndexOf(Here) = candidateIndex
  BY DEF PastInv, IndexOf, Preceding
<1> QED
  BY <1>3, <1>9, <1>10 DEF CursorInv

\* The cells before the cursor, after one step of it.
LEMMA PastAfterCell ==
  ASSUME CursorInv, PastInv, DecodeCell
  PROVE  /\ Here \in Cell /\ Here \notin Preceding(Here)
         /\ Preceding(Here') = Preceding(Here) \cup {Here}
<1>1. Here \in Cell
  BY CellRow DEF DecodeCell, InCell
<1>2. Here = <<stride, gridY, gridX>> /\ Here' = <<stride, gridY, gridX + 1>>
  BY DEF Here, DecodeCell
<1>3. stride \in Nat /\ gridY \in Nat /\ gridX \in Nat
  BY Sizes DEF CursorInv
<1>4. ~ Precedes(Here, Here)
  BY <1>2, <1>3 DEF Precedes
<1>5. ASSUME NEW c \in Cell
      PROVE  Precedes(c, Here') <=> (Precedes(c, Here) \/ c = Here)
  <2>1. c = <<c[1], c[2], c[3]>> /\ c[1] \in Nat /\ c[2] \in Nat /\ c[3] \in Nat
    BY CellForm, CellTyped
  <2>2. c = Here <=> c[1] = stride /\ c[2] = gridY /\ c[3] = gridX
    BY <1>2, <2>1
  <2>3. c[3] < gridX + 1 <=> (c[3] < gridX \/ c[3] = gridX)
    BY <1>3, <2>1
  <2> QED
    BY <1>2, <2>2, <2>3 DEF Precedes
<1> QED
  BY <1>1, <1>4, <1>5 DEF Preceding

LEMMA PastAfterRow ==
  ASSUME CursorInv, NextRow \/ NextStride
  PROVE  Preceding(Here') = Preceding(Here)
<1>1. Here = <<stride, gridY, gridX>> /\ Here' = <<stride', gridY', gridX'>>
  BY DEF Here
<1>2. stride \in Nat /\ gridY \in Nat /\ gridX \in Nat
  BY Sizes DEF CursorInv
<1>3. ASSUME NEW c \in Cell
      PROVE  Precedes(c, Here') <=> Precedes(c, Here)
  <2>1. c[1] \in Nat /\ c[2] \in Nat /\ c[3] \in Nat
    BY CellTyped
  <2>2. c[2] < GridHeight(Strides[c[1]]) /\ c[3] < GridWidth(Strides[c[1]])
        /\ GridHeight(Strides[c[1]]) \in Nat /\ GridWidth(Strides[c[1]]) \in Nat
    BY CellForm, Sizes
  <2>3. CASE NextRow
    BY <1>1, <1>2, <2>1, <2>2, <2>3 DEF NextRow, Precedes
  <2>4. CASE NextStride
    <3>1. stride' = stride + 1 /\ gridX' = 0 /\ gridY' = 0 /\ gridY = GridHeight(Strides[stride])
      BY <2>4 DEF NextStride
    <3>2. Precedes(c, Here') <=> c[1] < stride + 1
      BY <1>1, <2>1, <3>1 DEF Precedes
    <3>3. c[1] = stride => c[2] < gridY
      BY <2>2, <3>1
    <3>4. Precedes(c, Here) <=> c[1] < stride \/ c[1] = stride
      BY <1>1, <3>3 DEF Precedes
    <3> QED
      BY <1>2, <2>1, <3>2, <3>4
  <2> QED
    BY <2>3, <2>4
<1> QED
  BY <1>3 DEF Preceding

LEMMA NextCursor ==
  ASSUME CursorInv, PastInv, [Next]_vars
  PROVE  CursorInv' /\ PastInv'
<1>1. CASE DecodeCell
  <2> DEFINE w == GridWidth(Strides[stride])
             h == GridHeight(Strides[stride])
  <2>1. stride \in 1 .. StrideCount /\ gridX \in Nat /\ gridY \in Nat /\ gridX < w /\ gridY < h /\ pc = "decode"
    BY <1>1, Sizes DEF CursorInv, DecodeCell, InGrid, StrideCount
  <2>2. w \in Nat /\ h \in Nat
    BY <2>1, Sizes
  <2>3. UNCHANGED <<pc, predictions, stride, gridY>> /\ gridX' = gridX + 1
        /\ candidateIndex' = candidateIndex + 1
    BY <1>1 DEF DecodeCell, NextIndex
  <2>4. candidateIndex = Count[stride - 1] + gridY * w + gridX
    BY <2>1 DEF CursorInv
  <2>5. candidateIndex' = Count[stride - 1] + gridY * w + gridX'
    <3>1. Count[stride - 1] \in Nat
      BY <2>1, Sizes, CountNat
    <3>2. gridY * w \in Nat
      BY <2>1, <2>2
    <3> HIDE DEF w
    <3> QED
      BY <2>1, <2>3, <2>4, <3>1, <3>2
  <2>6. CursorInv'
    <3>1. gridX' \in Nat /\ gridX' <= w /\ gridY' <= h /\ gridY' # h
      BY <2>1, <2>2, <2>3
    <3>2. predictions' \in [0 .. CandidateCount - 1 -> Prediction] /\ candidateIndex' \in Nat
      BY <2>3 DEF CursorInv
    <3>3. pc' = "decode" /\ stride' \in 1 .. StrideCount + 1
          /\ stride' = stride /\ stride' # StrideCount + 1 /\ gridY' = gridY /\ gridY \in Nat
      BY <2>1, <2>3, Sizes DEF CursorInv
    <3> QED
      BY <2>5, <3>1, <3>2, <3>3 DEF CursorInv
  <2>7. PastInv'
    <3>1. IsFiniteSet(Preceding(Here')) /\ Cardinality(Preceding(Here')) = candidateIndex + 1
      BY <1>1, PastAfterCell, FS_AddElement DEF PastInv
    <3> QED
      BY <2>3, <3>1 DEF PastInv
  <2> QED
    BY <2>6, <2>7
<1>2. CASE NextRow
  <2> DEFINE w == GridWidth(Strides[stride])
             h == GridHeight(Strides[stride])
  <2>1. stride \in 1 .. StrideCount /\ gridX = w /\ gridY \in Nat /\ gridY < h /\ pc = "decode"
    BY <1>2, Sizes DEF CursorInv, NextRow, InGrid, StrideCount
  <2>2. w \in Nat /\ h \in Nat
    BY <2>1, Sizes
  <2>3. UNCHANGED <<pc, predictions, stride, candidateIndex>> /\ gridX' = 0 /\ gridY' = gridY + 1
    BY <1>2 DEF NextRow
  <2>4. candidateIndex = Count[stride - 1] + gridY * w + gridX
    BY <2>1 DEF CursorInv
  <2>5. candidateIndex' = Count[stride - 1] + gridY' * w + gridX'
    <3>1. Count[stride - 1] \in Nat
      BY <2>1, Sizes, CountNat
    <3>2. gridY * w \in Nat /\ (gridY + 1) * w = gridY * w + w
      BY <2>1, <2>2
    <3> HIDE DEF w
    <3> QED
      BY <2>1, <2>2, <2>3, <2>4, <3>1, <3>2
  <2>6. CursorInv'
    <3>1. gridX' \in Nat /\ gridX' <= w /\ gridY' \in Nat /\ gridY' <= h /\ gridX' = 0
      BY <2>1, <2>2, <2>3
    <3>2. predictions' \in [0 .. CandidateCount - 1 -> Prediction] /\ candidateIndex' \in Nat
      BY <2>3 DEF CursorInv
    <3>3. pc' = "decode" /\ stride' \in 1 .. StrideCount + 1 /\ stride' = stride /\ stride' # StrideCount + 1
      BY <2>1, <2>3, Sizes DEF CursorInv
    <3> QED
      BY <2>5, <3>1, <3>2, <3>3 DEF CursorInv
  <2>7. PastInv'
    <3>1. Preceding(Here') = Preceding(Here)
      BY <1>2, PastAfterRow
    <3> QED
      BY <2>3, <3>1 DEF PastInv
  <2> QED
    BY <2>6, <2>7
<1>3. CASE NextStride
  <2> DEFINE w == GridWidth(Strides[stride])
             h == GridHeight(Strides[stride])
  <2>1. stride \in 1 .. StrideCount /\ gridX = 0 /\ gridY = h /\ pc = "decode"
    BY <1>3, Sizes DEF CursorInv, NextStride, StrideCount
  <2>2. w \in Nat /\ h \in Nat
    BY <2>1, Sizes
  <2>3. UNCHANGED <<pc, predictions, candidateIndex>> /\ stride' = stride + 1 /\ gridX' = 0 /\ gridY' = 0
    BY <1>3 DEF NextStride
  <2>4. candidateIndex = Count[stride - 1] + gridY * w + gridX
    BY <2>1 DEF CursorInv
  <2>5. candidateIndex = Count[stride]
    <3>1. Count[stride - 1] \in Nat /\ Count[stride] = Count[stride - 1] + w * h
      BY <2>1, Sizes, CountNat, CountSteps DEF CellCount, GridWidth, GridHeight
    <3>2. h * w \in Nat /\ w * h = h * w
      BY <2>2
    <3> HIDE DEF w, h
    <3> QED
      BY <2>1, <2>4, <3>1, <3>2
  <2>6. CursorInv'
    <3>1. stride' \in 1 .. StrideCount + 1 /\ stride' - 1 = stride
      BY <2>1, <2>3, Sizes
    <3>2. predictions' \in [0 .. CandidateCount - 1 -> Prediction] /\ candidateIndex' \in Nat
      BY <2>3 DEF CursorInv
    <3>3. stride' <= StrideCount => /\ GridWidth(Strides[stride']) \in Nat
                          /\ GridHeight(Strides[stride']) \in Nat
      BY <3>1, Sizes
    <3>4. \A v \in Nat : candidateIndex' = Count[stride' - 1] + 0 * v + 0
      BY <2>3, <2>5, <3>1, <3>2
    <3>5. stride' = StrideCount + 1 => candidateIndex' = CandidateCount
      BY <2>1, <2>3, <2>5, <3>1, Sizes DEF CandidateCount, StrideCount
    <3> QED
      BY <2>1, <2>3, <3>1, <3>2, <3>3, <3>4, <3>5 DEF CursorInv
  <2>7. PastInv'
    <3>1. Preceding(Here') = Preceding(Here)
      BY <1>3, PastAfterRow
    <3> QED
      BY <2>3, <3>1 DEF PastInv
  <2> QED
    BY <2>6, <2>7
<1>4. CASE Sort \/ Suppress \/ Return \/ UNCHANGED vars
  <2>1. UNCHANGED <<predictions, cellVars>> /\ pc' \in {"decode", "suppress", "done"}
        /\ (pc' # "decode" => stride = StrideCount + 1)
    BY <1>4, Sizes DEF Sort, Suppress, Return, vars, CursorInv, StrideCount
  <2>2. CursorInv'
    BY <2>1 DEF CursorInv, cellVars
  <2>3. Here' = Here /\ candidateIndex' = candidateIndex
    BY <2>1 DEF Here, cellVars
  <2>4. PastInv'
    BY <2>3 DEF PastInv
  <2> QED
    BY <2>2, <2>4
<1> QED
  BY <1>1, <1>2, <1>3, <1>4 DEF Next

-----------------------------------------------------------------------------
(* decodeDetections(): the detections. *)

Positive == Nat \ {0}

Boxes == [x : Int, y : Int, width : Positive, height : Positive]

Detection == [box : Boxes, classId : Class, score : Positive, index : Nat]

\* Predicts and IsOf, of a buffer p.
Expected(p, cell, class) ==
  LET row == p[IndexOf(cell)] IN
  /\ IsBest(row, class)
  /\ row.score[class] > 0 /\ row.score[class] >= ScoreThreshold
  /\ NotFinite \notin {row.x, row.y, row.width, row.height}
  /\ row.width * row.height > 0

Matches(p, d, cell) ==
  LET row == p[IndexOf(cell)]
      unit == 2 * Strides[cell[1]] * Upscale
  IN  /\ d.index = IndexOf(cell)
      /\ d.score = row.score[d.classId]
      /\ d.box.width = row.width * unit /\ d.box.height = row.height * unit
      /\ 2 * d.box.x + d.box.width = 2 * (row.x + cell[3]) * unit
      /\ 2 * d.box.y + d.box.height = 2 * (row.y + cell[2]) * unit

\* The detections are what the rows before the cursor predict. They are in the
\* order of the cells until they are sorted.
DecodedInv ==
  /\ detections \in Seq(Detection)
  /\ \A i \in 1 .. Len(detections) :
       \E cell \in Preceding(Here) :
         /\ Matches(predictions, detections[i], cell)
         /\ Expected(predictions, cell, detections[i].classId)
  /\ \A cell \in Preceding(Here), class \in Class :
       Expected(predictions, cell, class) =>
         \E i \in 1 .. Len(detections) :
           detections[i].classId = class /\ Matches(predictions, detections[i], cell)
  /\ \A i, j \in 1 .. Len(detections) :
       detections[i].index = detections[j].index => i = j
  /\ pc = "decode" =>
       \A i, j \in 1 .. Len(detections) :
         i < j => detections[i].index < detections[j].index

\* A side w around the point x of the g-th cell, in quarter pixels.
Centred(x, g, w, s, u) ==
  /\ 2 * w * (s * u) = w * (2 * s * u)
  /\ 2 * ((2 * (x + g) - w) * (s * u)) + 2 * w * (s * u) = 2 * (x + g) * (2 * s * u)

LEMMA Centre ==
  ASSUME NEW x \in Int, NEW g \in Int, NEW w \in Int, NEW s \in Int, NEW u \in Int
  PROVE  Centred(x, g, w, s, u)
<1>1. s * u \in Int /\ 2 * s * u = 2 * (s * u)
  OBVIOUS
<1>2. ASSUME NEW t \in Int
      PROVE  /\ 2 * w * t = w * (2 * t)
             /\ 2 * ((2 * (x + g) - w) * t) + 2 * w * t = 2 * (x + g) * (2 * t)
  <2>1. ASSUME NEW c \in Int PROVE (2 * c - w) * t = 2 * (c * t) - w * t
    OBVIOUS
  <2>2. x + g \in Int /\ w * t \in Int /\ (x + g) * t \in Int
    OBVIOUS
  <2>3. (2 * (x + g) - w) * t = 2 * ((x + g) * t) - w * t
    BY <2>1, <2>2
  <2>4. 2 * w * t = 2 * (w * t) /\ w * (2 * t) = 2 * (w * t)
    OBVIOUS
  <2>5. 2 * (x + g) * (2 * t) = 4 * ((x + g) * t)
    BY <2>2
  <2> QED
    BY <2>2, <2>3, <2>4, <2>5
<1> QED
  BY <1>1, <1>2 DEF Centred

\* A row gives a detection for the class it predicts, and only then.
LEMMA DecodedRow ==
  ASSUME CursorInv, PastInv, InCell
  PROVE  LET row == predictions[candidateIndex] IN
         /\ Confident(row) /\ Sized(row) =>
              /\ Detected(row) \in Detection
              /\ Matches(predictions, Detected(row), Here)
              /\ Expected(predictions, Here, Detected(row).classId)
         /\ \A class \in Class :
              Expected(predictions, Here, class) =>
                Confident(row) /\ Sized(row) /\ Detected(row).classId = class
<1> DEFINE row == predictions[candidateIndex]
           b == Best(row)
           s == Strides[stride] * Upscale
<1>1. row \in Prediction /\ IndexOf(Here) = candidateIndex /\ candidateIndex \in Nat
  BY CellRow DEF CursorInv
<1>2. predictions[IndexOf(Here)] = row
  BY <1>1
<1>3. Detected(row).classId = b.class /\ Detected(row).score = b.score
      /\ Detected(row).index = candidateIndex /\ Detected(row).box = Box(row)
  BY DEF Detected
<1>4. \A class \in Class : Expected(predictions, Here, class) <=>
        Confident(row) /\ b.class = class /\ Sized(row)
  <2> HIDE DEF row
  <2> QED
    BY <1>1, <1>2, BestClass, SizedRow DEF Expected
<1>5. ASSUME Confident(row), Sized(row)
      PROVE  Detected(row) \in Detection /\ Matches(predictions, Detected(row), Here)
  <2> HIDE DEF row
  <2>1. b.class \in Class /\ b.score = row.score[b.class] /\ b.score \in Positive
    BY <1>1, <1>5, BestClass DEF Positive
  <2>2. row.x \in Int /\ row.y \in Int /\ row.width \in Positive /\ row.height \in Positive
    BY <1>1, <1>5, SizedRow DEF Positive
  <2>3. Strides[stride] \in Positive /\ Upscale \in Positive /\ s \in Positive
    <3>1. Strides[stride] \in Positive /\ Upscale \in Positive
      BY PostprocessingAssumption, Sizes DEF CursorInv, InCell, InGrid, StrideCount, Positive
    <3>2. \A m, n \in Positive : m * n \in Positive
      BY DEF Positive
    <3> QED
      BY <3>1, <3>2
  <2>4. gridX \in Nat /\ gridY \in Nat
    BY DEF CursorInv
  <2>5. Box(row) = [x |-> (2 * (row.x + gridX) - row.width) * s,
                    y |-> (2 * (row.y + gridY) - row.height) * s,
                    width |-> 2 * row.width * s,
                    height |-> 2 * row.height * s]
    BY DEF Box
  <2>6. Box(row) \in Boxes
    <3> HIDE DEF s
    <3>1. \A w \in Positive : 2 * w * s \in Positive
      BY <2>3 DEF Positive
    <3>2. \A c \in Int : c * s \in Int
      BY <2>3 DEF Positive
    <3>3. 2 * (row.x + gridX) - row.width \in Int /\ 2 * (row.y + gridY) - row.height \in Int
      BY <2>2, <2>4 DEF Positive
    <3> QED
      BY <2>2, <2>5, <3>1, <3>2, <3>3 DEF Boxes
  <2>7. Detected(row) \in Detection
    BY <1>1, <2>1, <2>6 DEF Detected, Detection
  <2>8. /\ Box(row).width = row.width * (2 * Strides[stride] * Upscale)
        /\ 2 * Box(row).x + Box(row).width
             = 2 * (row.x + gridX) * (2 * Strides[stride] * Upscale)
    <3>1. Box(row).width = 2 * row.width * s /\ Box(row).x = (2 * (row.x + gridX) - row.width) * s
      BY <2>5
    <3>2. /\ row.x \in Int /\ gridX \in Int /\ row.width \in Int
          /\ Strides[stride] \in Int /\ Upscale \in Int
      BY <2>2, <2>3, <2>4 DEF Positive
    <3>3. Centred(row.x, gridX, row.width, Strides[stride], Upscale)
      BY <3>2, Centre
    <3> QED
      BY <3>1, <3>3, Zenon DEF Centred
  <2>9. /\ Box(row).height = row.height * (2 * Strides[stride] * Upscale)
        /\ 2 * Box(row).y + Box(row).height
             = 2 * (row.y + gridY) * (2 * Strides[stride] * Upscale)
    <3>1. Box(row).height = 2 * row.height * s /\ Box(row).y = (2 * (row.y + gridY) - row.height) * s
      BY <2>5
    <3>2. /\ row.y \in Int /\ gridY \in Int /\ row.height \in Int
          /\ Strides[stride] \in Int /\ Upscale \in Int
      BY <2>2, <2>3, <2>4 DEF Positive
    <3>3. Centred(row.y, gridY, row.height, Strides[stride], Upscale)
      BY <3>2, Centre
    <3> QED
      BY <3>1, <3>3, Zenon DEF Centred
  <2>10. Here[1] = stride /\ Here[2] = gridY /\ Here[3] = gridX
    BY DEF Here
  <2>11. Matches(predictions, Detected(row), Here)
    BY <1>1, <1>2, <1>3, <2>1, <2>8, <2>9, <2>10 DEF Matches
  <2> QED
    BY <2>7, <2>11
<1>6. ASSUME Confident(row), Sized(row) PROVE Expected(predictions, Here, Detected(row).classId)
  BY <1>1, <1>3, <1>4, <1>6, BestClass
<1> QED
  BY <1>3, <1>4, <1>5, <1>6

LEMMA InitDecoded == Init => DecodedInv
<1> SUFFICES ASSUME Init PROVE DecodedInv
  OBVIOUS
<1>1. detections = <<>>
  BY DEF Init
<1>2. Preceding(Here) = {}
  <2>1. PastInv /\ candidateIndex = 0
    BY InitCursor DEF Init
  <2> QED
    BY <2>1, FS_EmptySet DEF PastInv
<1>3. <<>> \in Seq(Detection) /\ Len(<<>>) = 0
  OBVIOUS
<1> QED
  BY <1>1, <1>2, <1>3 DEF DecodedInv

LEMMA DecodeCellDecoded ==
  ASSUME CursorInv, PastInv, DecodedInv, DecodeCell
  PROVE  DecodedInv'
<1> DEFINE row == predictions[candidateIndex]
           P == Preceding(Here)
<1>1. InCell /\ predictions' = predictions /\ pc = "decode" /\ pc' = "decode"
  BY DEF DecodeCell, InCell, InGrid
<1>2. Here \in Cell /\ Here \notin P /\ Preceding(Here') = P \cup {Here}
  BY PastAfterCell
<1>3. IndexOf(Here) = candidateIndex /\ candidateIndex \in Nat
  BY <1>1, CellRow DEF CursorInv
<1>4. IsFiniteSet(P)
  BY DEF PastInv
<1>5. /\ detections \in Seq(Detection)
      /\ \A i \in 1 .. Len(detections) : detections[i] \in Detection /\ detections[i].index \in Nat
  <2>1. detections \in Seq(Detection)
    BY DEF DecodedInv
  <2>2. \A i \in 1 .. Len(detections) : detections[i] \in Detection
    BY <2>1
  <2>3. \A d \in Detection : d.index \in Nat
    BY DEF Detection
  <2> QED
    BY <2>1, <2>2, <2>3
<1>6. ASSUME NEW i \in 1 .. Len(detections) PROVE detections[i].index < candidateIndex
  <2>1. PICK cell \in P : Matches(predictions, detections[i], cell)
    BY DEF DecodedInv
  <2>2. cell \in Cell /\ Precedes(cell, Here) /\ detections[i].index = IndexOf(cell)
    BY <2>1 DEF Preceding, Matches
  <2> QED
    BY <1>2, <1>3, <1>4, <2>2, IndexIncreasing
<1>7. CASE ~ (Confident(row) /\ Sized(row))
  <2>1. detections' = detections
    BY <1>7 DEF DecodeCell
  <2>2. \A class \in Class : ~ Expected(predictions, Here, class)
    BY <1>1, <1>7, DecodedRow
  <2>3. \A i \in 1 .. Len(detections) :
         \E cell \in P \cup {Here} :
           /\ Matches(predictions, detections[i], cell)
           /\ Expected(predictions, cell, detections[i].classId)
    BY DEF DecodedInv
  <2>4. \A cell \in P \cup {Here}, class \in Class :
         Expected(predictions, cell, class) =>
           \E i \in 1 .. Len(detections) :
             detections[i].classId = class /\ Matches(predictions, detections[i], cell)
    BY <2>2 DEF DecodedInv
  <2> HIDE DEF P
  <2> QED
    BY <1>1, <1>2, <2>1, <2>3, <2>4 DEF DecodedInv
<1>8. CASE Confident(row) /\ Sized(row)
  <2> DEFINE d == Detected(row)
             n == Len(detections)
  <2>1. detections' = Append(detections, d)
    BY <1>8 DEF DecodeCell
  <2>2. d \in Detection /\ Matches(predictions, d, Here) /\ Expected(predictions, Here, d.classId)
        /\ \A class \in Class : Expected(predictions, Here, class) => d.classId = class
    BY <1>1, <1>8, DecodedRow
  <2>3. d.index = candidateIndex
    BY DEF Detected
  <2> HIDE DEF d, P
  <2>4. /\ detections' \in Seq(Detection)
        /\ n \in Nat
        /\ Len(detections') = n + 1
        /\ \A i \in 1 .. n : detections'[i] = detections[i]
        /\ detections'[n + 1] = d
    BY <1>5, <2>1, <2>2
  <2>5. \A i \in 1 .. n + 1 : i \in 1 .. n \/ i = n + 1
    BY <2>4
  <2>6. ASSUME NEW i \in 1 .. n + 1
        PROVE  \E cell \in P \cup {Here} :
                 /\ Matches(predictions, detections'[i], cell)
                 /\ Expected(predictions, cell, detections'[i].classId)
    <3>1. CASE i \in 1 .. n
      BY <2>4, <3>1 DEF DecodedInv, P
    <3>2. CASE i = n + 1
      BY <2>2, <2>4, <3>2
    <3> QED
      BY <2>5, <3>1, <3>2
  <2>7. ASSUME NEW cell \in P \cup {Here}, NEW class \in Class, Expected(predictions, cell, class)
        PROVE  \E i \in 1 .. n + 1 :
                 detections'[i].classId = class /\ Matches(predictions, detections'[i], cell)
    <3>1. CASE cell \in P
      <4>1. PICK i \in 1 .. n : detections[i].classId = class /\ Matches(predictions, detections[i], cell)
        BY <2>7, <3>1 DEF DecodedInv, P
      <4>2. i \in 1 .. n + 1
        BY <2>4
      <4> QED
        BY <2>4, <4>1, <4>2
    <3>2. CASE cell = Here
      <4>1. d.classId = class
        BY <2>2, <2>7, <3>2
      <4>2. n + 1 \in 1 .. n + 1
        BY <2>4
      <4> QED
        BY <2>2, <2>4, <3>2, <4>1, <4>2
    <3> QED
      BY <3>1, <3>2
  <2>8. ASSUME NEW i \in 1 .. n + 1, NEW j \in 1 .. n + 1, i < j
        PROVE  detections'[i].index < detections'[j].index
    <3>1. i \in 1 .. n
      BY <2>4, <2>8
    <3>2. CASE j \in 1 .. n
      BY <1>1, <2>4, <2>8, <3>1, <3>2 DEF DecodedInv
    <3>3. CASE j = n + 1
      BY <1>6, <2>3, <2>4, <3>1, <3>3
    <3> QED
      BY <2>5, <3>2, <3>3
  <2>9. ASSUME NEW i \in 1 .. n + 1, NEW j \in 1 .. n + 1,
               detections'[i].index = detections'[j].index
        PROVE  i = j
    <3>1. detections'[i].index \in Nat /\ detections'[j].index \in Nat
      BY <1>3, <1>5, <2>3, <2>4, <2>5
    <3> QED
      BY <2>4, <2>8, <2>9, <3>1
  <2> HIDE DEF n
  <2> QED
    BY <1>1, <1>2, <2>4, <2>6, <2>7, <2>8, <2>9 DEF DecodedInv, P
<1> QED
  BY <1>7, <1>8

-----------------------------------------------------------------------------
(* std::stable_sort. *)

\* The elements that the sort puts ahead of the i-th.
Ahead(s, i) == {j \in 1 .. Len(s) : Before(s, j, i)}

Scored(s) == DOMAIN s = 1 .. Len(s) /\ Len(s) \in Nat /\ \A i \in 1 .. Len(s) : s[i].score \in Int

\* The order of the stable sort is a strict total order of the positions.
LEMMA BeforeTotal ==
  ASSUME NEW s, Scored(s)
  PROVE  /\ \A i \in 1 .. Len(s) : ~ Before(s, i, i)
         /\ \A i, j \in 1 .. Len(s) : i = j \/ Before(s, i, j) \/ Before(s, j, i)
         /\ \A i, j, k \in 1 .. Len(s) : Before(s, i, j) /\ Before(s, j, k) => Before(s, i, k)
BY DEF Scored, Before

LEMMA RankRange ==
  ASSUME NEW s, Scored(s), NEW i \in 1 .. Len(s)
  PROVE  /\ IsFiniteSet(Ahead(s, i))
         /\ Cardinality(Ahead(s, i)) \in 0 .. Len(s) - 1
<1> DEFINE n == Len(s)
<1>1. n \in Nat /\ IsFiniteSet(1 .. n) /\ Cardinality(1 .. n) = n
  <2>1. n \in Nat /\ n \in Int /\ 1 \in Int
    BY DEF Scored
  <2> HIDE DEF n
  <2> QED
    BY <2>1, FS_Interval
<1>2. IsFiniteSet((1 .. n) \ {i}) /\ Cardinality((1 .. n) \ {i}) = n - 1
  BY <1>1, FS_RemoveElement
<1>3. Ahead(s, i) \in SUBSET ((1 .. n) \ {i})
  BY BeforeTotal DEF Ahead
<1>4. IsFiniteSet(Ahead(s, i)) /\ Cardinality(Ahead(s, i)) <= n - 1
  BY <1>2, <1>3, FS_Subset
<1>5. Cardinality(Ahead(s, i)) \in Nat
  BY <1>4, FS_CardinalityType
<1> QED
  BY <1>1, <1>4, <1>5

LEMMA RankIncreasing ==
  ASSUME NEW s, Scored(s), NEW i \in 1 .. Len(s), NEW j \in 1 .. Len(s), Before(s, i, j)
  PROVE  Cardinality(Ahead(s, i)) < Cardinality(Ahead(s, j))
<1>1. Ahead(s, i) \in SUBSET Ahead(s, j)
  BY BeforeTotal DEF Ahead
<1>2. i \in Ahead(s, j) /\ i \notin Ahead(s, i)
  BY BeforeTotal DEF Ahead
<1>3. /\ Cardinality(Ahead(s, i)) <= Cardinality(Ahead(s, j))
      /\ Cardinality(Ahead(s, i)) # Cardinality(Ahead(s, j))
  BY <1>1, <1>2, RankRange, FS_Subset
<1>4. Cardinality(Ahead(s, i)) \in Int /\ Cardinality(Ahead(s, j)) \in Int
  <2>1. Len(s) \in Nat
    BY DEF Scored
  <2> QED
    BY <2>1, RankRange
<1> QED
  BY <1>3, <1>4

\* t has the elements of s, each once, in the order of the sort.
IsRearrangement(s, t, pi) ==
  /\ pi \in [1 .. Len(s) -> 1 .. Len(s)]
  /\ Len(t) = Len(s)
  /\ \A k \in 1 .. Len(s) : t[k] = s[pi[k]]
  /\ \A i \in 1 .. Len(s) : \E k \in 1 .. Len(s) : pi[k] = i
  /\ \A k, l \in 1 .. Len(s) : pi[k] = pi[l] => k = l
  /\ \A k, l \in 1 .. Len(s) : k < l => Before(s, pi[k], pi[l])

\* The sort loses and repeats nothing, and puts the elements in order: the rank
\* is an injection between finite sets of one size, so each rank is taken once.
LEMMA SortedRearranges ==
  ASSUME NEW D, NEW s \in Seq(D), \A d \in D : d.score \in Int
  PROVE  /\ Sorted(s) \in Seq(D)
         /\ \E pi : IsRearrangement(s, Sorted(s), pi)
<1> DEFINE n == Len(s)
           R == [i \in 1 .. n |-> Cardinality(Ahead(s, i))]
           pi == [k \in 1 .. n |-> CHOOSE i \in 1 .. n : R[i] = k - 1]
<1>1. n \in Nat /\ Scored(s) /\ \A i \in 1 .. n : s[i] \in D
  BY DEF Scored
<1>2. R \in [1 .. n -> 0 .. n - 1]
  BY <1>1, RankRange
<1>3. \A i, j \in 1 .. n : R[i] = R[j] => i = j
  <2> SUFFICES ASSUME NEW i \in 1 .. n, NEW j \in 1 .. n, i # j PROVE R[i] # R[j]
    OBVIOUS
  <2>1. R[i] = Cardinality(Ahead(s, i)) /\ R[j] = Cardinality(Ahead(s, j))
    OBVIOUS
  <2>2. R[i] \in Int /\ R[j] \in Int
    BY <1>1, <1>2
  <2>3. R[i] < R[j] \/ R[j] < R[i]
    BY <1>1, <2>1, BeforeTotal, RankIncreasing
  <2> HIDE DEF R
  <2> QED
    BY <2>2, <2>3
<1>4. ASSUME NEW k \in 1 .. n PROVE \E i \in 1 .. n : R[i] = k - 1
  <2>1. R \in Injection(1 .. n, 0 .. n - 1)
    BY <1>2, <1>3 DEF Injection, IsInjective
  <2>2. IsFiniteSet(1 .. n) /\ Cardinality(1 .. n) = n
    <3>1. n \in Nat /\ n \in Int /\ 1 \in Int
      BY <1>1
    <3> HIDE DEF n
    <3> QED
      BY <3>1, FS_Interval
  <2>3. IsFiniteSet(0 .. n - 1) /\ Cardinality(0 .. n - 1) = n
    <3>1. n \in Nat /\ n - 1 \in Int /\ 0 \in Int /\ (0 > n - 1 <=> n = 0)
      BY <1>1
    <3> HIDE DEF n
    <3> QED
      BY <3>1, FS_Interval
  <2> HIDE DEF R, n
  <2>4. R \in Surjection(1 .. n, 0 .. n - 1)
    BY <2>1, <2>2, <2>3, FS_Injection
  <2>5. k - 1 \in 0 .. n - 1
    BY <1>1
  <2> QED
    BY <2>4, <2>5 DEF Surjection
<1> HIDE DEF R
<1>5. ASSUME NEW k \in 1 .. n PROVE pi[k] \in 1 .. n /\ R[pi[k]] = k - 1
  <2> HIDE DEF n
  <2> QED
    BY <1>4
<1>6. ASSUME NEW k \in 1 .. n PROVE Sorted(s)[k] = s[pi[k]]
  <2>1. \A i \in 1 .. n : R[i] = Cardinality({j \in 1 .. Len(s) : Before(s, j, i)})
    BY DEF R, Ahead
  <2>2. (CHOOSE i \in 1 .. Len(s) : Cardinality({j \in 1 .. Len(s) : Before(s, j, i)}) = k - 1)
          = CHOOSE i \in 1 .. n : R[i] = k - 1
    <3>1. \A i : (i \in 1 .. n /\ R[i] = k - 1) <=>
                 (i \in 1 .. Len(s) /\ Cardinality({j \in 1 .. Len(s) : Before(s, j, i)}) = k - 1)
      BY <2>1
    <3> QED
      BY <3>1, Zenon
  <2>3. Sorted(s)[k] = s[CHOOSE i \in 1 .. Len(s) :
                           Cardinality({j \in 1 .. Len(s) : Before(s, j, i)}) = k - 1]
    BY DEF Sorted
  <2>4. pi[k] = CHOOSE i \in 1 .. n : R[i] = k - 1
    OBVIOUS
  <2> HIDE DEF pi
  <2> QED
    BY <2>2, <2>3, <2>4, Zenon
<1>7. pi \in [1 .. n -> 1 .. n]
  <2>1. pi = [k \in 1 .. n |-> pi[k]]
    OBVIOUS
  <2> HIDE DEF pi, n
  <2> QED
    BY <1>5, <2>1
<1> HIDE DEF pi
<1>8. DOMAIN Sorted(s) = 1 .. n
  BY DEF Sorted
<1>9. Sorted(s) = [k \in 1 .. n |-> s[pi[k]]]
  <2>1. Sorted(s) = [k \in 1 .. n |-> Sorted(s)[k]]
    BY DEF Sorted
  <2> HIDE DEF n
  <2> QED
    BY <1>6, <2>1
<1>10. Sorted(s) \in Seq(D) /\ Len(Sorted(s)) = n
  <2>1. \A k \in 1 .. n : s[pi[k]] \in D
    BY <1>1, <1>5
  <2>2. Sorted(s) \in [1 .. n -> D]
    <3> HIDE DEF n
    <3> QED
      BY <1>9, <2>1
  <2>3. n \in Nat
    BY <1>1
  <2> HIDE DEF n
  <2> QED
    BY <1>8, <2>2, <2>3
<1>11. ASSUME NEW i \in 1 .. n PROVE \E k \in 1 .. n : pi[k] = i
  <2>1. R[i] \in 0 .. n - 1
    BY <1>2
  <2> DEFINE k == R[i] + 1
  <2>2. k \in 1 .. n /\ k - 1 = R[i]
    BY <1>1, <2>1
  <2>3. R[pi[k]] = R[i] /\ pi[k] \in 1 .. n
    BY <1>5, <2>2
  <2> QED
    BY <1>3, <2>2, <2>3
<1>12. ASSUME NEW k \in 1 .. n, NEW l \in 1 .. n, pi[k] = pi[l] PROVE k = l
  BY <1>1, <1>5, <1>12
<1>13. ASSUME NEW k \in 1 .. n, NEW l \in 1 .. n, k < l PROVE Before(s, pi[k], pi[l])
  <2>1. pi[k] \in 1 .. n /\ pi[l] \in 1 .. n /\ R[pi[k]] < R[pi[l]]
    BY <1>1, <1>5, <1>13
  <2>2. R[pi[k]] = Cardinality(Ahead(s, pi[k])) /\ R[pi[l]] = Cardinality(Ahead(s, pi[l]))
    BY <2>1 DEF R
  <2>3. ~ (R[pi[l]] < R[pi[k]]) /\ pi[k] # pi[l]
    BY <1>1, <1>5, <1>13, <2>1
  <2> QED
    BY <1>1, <2>1, <2>2, <2>3, BeforeTotal, RankIncreasing
<1> QED
  BY <1>6, <1>7, <1>10, <1>11, <1>12, <1>13 DEF IsRearrangement

-----------------------------------------------------------------------------
(* intersectionOverUnion(), by counting pixels. *)

\* The pixels two intervals share, counted.
LEMMA CommonPixels ==
  ASSUME NEW a \in Int, NEW m \in Positive, NEW b \in Int, NEW n \in Positive
  PROVE  /\ IsFiniteSet((a .. a + m - 1) \cap (b .. b + n - 1))
         /\ Cardinality((a .. a + m - 1) \cap (b .. b + n - 1)) = Common(a, m, b, n)
         /\ Common(a, m, b, n) \in Nat
<1> DEFINE l == Greatest(a, b)
           r == Least(a + m, b + n)
<1>1. l \in Int /\ r \in Int
  BY DEF Positive, Greatest, Least
<1>2. (a .. a + m - 1) \cap (b .. b + n - 1) = l .. r - 1
  BY DEF Positive, Greatest, Least
<1>3. Common(a, m, b, n) = Greatest(0, r - l)
  BY DEF Common
<1> HIDE DEF l, r
<1>4. r - 1 \in Int
  BY <1>1
<1>5. /\ IsFiniteSet(l .. r - 1)
      /\ Cardinality(l .. r - 1) = IF l > r - 1 THEN 0 ELSE (r - 1) - l + 1
  BY <1>1, <1>4, FS_Interval
<1>6. /\ Greatest(0, r - l) = IF l > r - 1 THEN 0 ELSE (r - 1) - l + 1
      /\ Greatest(0, r - l) \in Nat
  BY <1>1 DEF Greatest
<1> QED
  BY <1>2, <1>3, <1>5, <1>6

LEMMA SidePixels ==
  ASSUME NEW a \in Int, NEW m \in Positive
  PROVE  IsFiniteSet(a .. a + m - 1) /\ Cardinality(a .. a + m - 1) = m
<1>1. a + m - 1 \in Int /\ ~ (a > a + m - 1) /\ (a + m - 1) - a + 1 = m
  BY DEF Positive
<1> QED
  BY <1>1, FS_Interval

LEMMA BoxPixels ==
  ASSUME NEW a \in Boxes
  PROVE  /\ IsFiniteSet(Pixels(a))
         /\ Cardinality(Pixels(a)) = a.width * a.height
         /\ a.width * a.height \in Positive
<1>1. a.x \in Int /\ a.y \in Int /\ a.width \in Positive /\ a.height \in Positive
  BY DEF Boxes
<1>2. \A w, h \in Positive : w * h \in Positive
  BY DEF Positive
<1> DEFINE X == a.x .. a.x + a.width - 1
           Y == a.y .. a.y + a.height - 1
<1>3. IsFiniteSet(X) /\ Cardinality(X) = a.width
  BY <1>1, SidePixels
<1>4. IsFiniteSet(Y) /\ Cardinality(Y) = a.height
  BY <1>1, SidePixels
<1>5. Pixels(a) = X \X Y
  BY DEF Pixels
<1> HIDE DEF X, Y
<1> QED
  BY <1>1, <1>2, <1>3, <1>4, <1>5, FS_Product

\* Intersection and Union count pixels, and a union is never empty.
LEMMA SharedPixels ==
  ASSUME NEW a \in Boxes, NEW b \in Boxes
  PROVE  /\ Cardinality(Pixels(a) \cap Pixels(b)) = Intersection(a, b)
         /\ Cardinality(Pixels(a) \cup Pixels(b)) = Union(a, b)
         /\ Intersection(a, b) \in Nat
         /\ Union(a, b) \in Nat /\ Union(a, b) > 0
<1>1. /\ a.x \in Int /\ a.y \in Int /\ a.width \in Positive /\ a.height \in Positive
      /\ b.x \in Int /\ b.y \in Int /\ b.width \in Positive /\ b.height \in Positive
  BY DEF Boxes
<1> DEFINE X == (a.x .. a.x + a.width - 1) \cap (b.x .. b.x + b.width - 1)
           Y == (a.y .. a.y + a.height - 1) \cap (b.y .. b.y + b.height - 1)
<1>2. Pixels(a) \cap Pixels(b) = X \X Y
  BY DEF Pixels
<1>3. IsFiniteSet(X) /\ Cardinality(X) = Common(a.x, a.width, b.x, b.width)
      /\ Common(a.x, a.width, b.x, b.width) \in Nat
  BY <1>1, CommonPixels
<1>4. IsFiniteSet(Y) /\ Cardinality(Y) = Common(a.y, a.height, b.y, b.height)
      /\ Common(a.y, a.height, b.y, b.height) \in Nat
  BY <1>1, CommonPixels
<1> HIDE DEF X, Y
<1>5. Cardinality(Pixels(a) \cap Pixels(b)) = Intersection(a, b) /\ IsFiniteSet(Pixels(a) \cap Pixels(b))
  <2>1. IsFiniteSet(X \X Y) /\ Cardinality(X \X Y) = Cardinality(X) * Cardinality(Y)
    BY <1>3, <1>4, FS_Product
  <2>2. Intersection(a, b) = Cardinality(X) * Cardinality(Y)
    BY <1>3, <1>4, Zenon DEF Intersection
  <2> QED
    BY <1>2, <2>1, <2>2, Zenon
<1>6. IsFiniteSet(Pixels(a) \cup Pixels(b)) /\ Cardinality(Pixels(a) \cup Pixels(b)) = Union(a, b)
  BY <1>5, BoxPixels, FS_Union DEF Union
<1>7. Intersection(a, b) \in Nat /\ Union(a, b) \in Nat
  BY <1>5, <1>6, FS_CardinalityType
<1>8. Pixels(a) \in SUBSET (Pixels(a) \cup Pixels(b))
  OBVIOUS
<1>9. a.width * a.height <= Union(a, b)
  BY <1>6, <1>8, BoxPixels, FS_Subset
<1>10. Union(a, b) > 0
  <2> DEFINE m == a.width * a.height
  <2>1. m \in Positive
    BY BoxPixels
  <2> HIDE DEF m
  <2>2. m <= Union(a, b)
    BY <1>9 DEF m
  <2> QED
    BY <1>7, <2>1, <2>2 DEF Positive
<1> QED
  BY <1>5, <1>6, <1>7, <1>10

\* The test on areas is the test on pixels, in either order.
LEMMA SuppressesSameObject ==
  ASSUME NEW d \in Detection, NEW e \in Detection
  PROVE  /\ Suppresses(d, e) <=> SameObject(e, d)
         /\ SameObject(e, d) <=> SameObject(d, e)
<1>1. d.box \in Boxes /\ e.box \in Boxes
  BY DEF Detection
<1>2. Overlap.num \in Nat /\ Overlap.den \in Nat
  BY PostprocessingAssumption
<1> DEFINE a == d.box
           b == e.box
           i == Intersection(a, b)
           u == Union(a, b)
<1>3. /\ Cardinality(Pixels(a) \cap Pixels(b)) = i
      /\ Cardinality(Pixels(a) \cup Pixels(b)) = u
      /\ i \in Nat /\ u \in Nat /\ u > 0
  BY <1>1, SharedPixels
<1>4. Pixels(a) \cap Pixels(b) = Pixels(b) \cap Pixels(a)
      /\ Pixels(a) \cup Pixels(b) = Pixels(b) \cup Pixels(a)
  OBVIOUS
<1>5. i * Overlap.den = Overlap.den * i
  <2> HIDE DEF i
  <2> QED
    BY <1>2, <1>3
<1>6. SameObject(e, d) <=> SameObject(d, e)
  BY <1>4 DEF SameObject
<1>7. SameObject(d, e) <=> d.classId = e.classId /\ Overlap.den * i > Overlap.num * u
  BY <1>3 DEF SameObject
<1>8. Suppresses(d, e) <=> d.classId = e.classId /\ u > 0 /\ i * Overlap.den > Overlap.num * u
  BY DEF Suppresses, Overlapping
<1> HIDE DEF i, u
<1> QED
  BY <1>3, <1>5, <1>6, <1>7, <1>8

-----------------------------------------------------------------------------
(* applyNms(), and the invariant of the whole. *)

\* The candidates before position are kept, or dropped for a stronger one.
SuppressInv ==
  /\ kept \in Seq(Detection)
  /\ position \in Nat \ {0}
  /\ pc = "decode" => position = 1 /\ kept = <<>>
  /\ pc # "decode" =>
       /\ position <= Len(detections) + 1
       /\ \A i, j \in 1 .. Len(detections) : i < j => Stronger(detections[i], detections[j])
       /\ \A k \in 1 .. Len(kept) : \E i \in 1 .. position - 1 : kept[k] = detections[i]
       /\ \A k, l \in 1 .. Len(kept) :
            k < l => Stronger(kept[k], kept[l]) /\ ~ SameObject(kept[k], kept[l])
       /\ \A i \in 1 .. position - 1 :
            \E k \in 1 .. Len(kept) :
              \/ kept[k] = detections[i]
              \/ Stronger(kept[k], detections[i]) /\ SameObject(kept[k], detections[i])
  /\ pc = "done" => position = Len(detections) + 1

LEMMA SortStep ==
  ASSUME DecodedInv, SuppressInv, Sort
  PROVE  DecodedInv' /\ SuppressInv'
<1> DEFINE n == Len(detections)
<1>1. detections \in Seq(Detection) /\ pc = "decode" /\ pc' = "suppress"
      /\ detections' = Sorted(detections)
      /\ UNCHANGED <<predictions, stride, gridX, gridY, position, kept>>
  BY DEF DecodedInv, Sort, cellVars
<1>2. \A d \in Detection : d.score \in Int /\ d.index \in Nat
  BY DEF Detection, Positive
<1>3. detections' \in Seq(Detection) /\ \E pi : IsRearrangement(detections, detections', pi)
  BY <1>1, <1>2, SortedRearranges
<1>4. PICK pi : IsRearrangement(detections, detections', pi)
  BY <1>3
<1>5. /\ n \in Nat /\ Len(detections') = n
      /\ \A k \in 1 .. n : pi[k] \in 1 .. n /\ detections'[k] = detections[pi[k]]
                           /\ detections[k] \in Detection
      /\ \A i \in 1 .. n : \E k \in 1 .. n : pi[k] = i
      /\ \A k, l \in 1 .. n : pi[k] = pi[l] => k = l
      /\ \A k, l \in 1 .. n : k < l => Before(detections, pi[k], pi[l])
  <2>1. n \in Nat /\ \A k \in 1 .. n : detections[k] \in Detection
    BY <1>1
  <2> QED
    BY <1>4, <2>1 DEF IsRearrangement
<1> HIDE DEF n
<1>6. /\ \A i \in 1 .. n :
           \E cell \in Preceding(Here) :
             /\ Matches(predictions, detections[i], cell)
             /\ Expected(predictions, cell, detections[i].classId)
      /\ \A cell \in Preceding(Here), class \in Class :
           Expected(predictions, cell, class) =>
             \E i \in 1 .. n :
               detections[i].classId = class /\ Matches(predictions, detections[i], cell)
      /\ \A i, j \in 1 .. n : detections[i].index = detections[j].index => i = j
      /\ \A i, j \in 1 .. n : i < j => detections[i].index < detections[j].index
  BY <1>1 DEF DecodedInv, n
<1>7. Here' = Here
  BY <1>1 DEF Here
<1>8. DecodedInv'
  <2>1. \A k \in 1 .. n :
           \E cell \in Preceding(Here) :
             /\ Matches(predictions, detections'[k], cell)
             /\ Expected(predictions, cell, detections'[k].classId)
    <3> SUFFICES ASSUME NEW k \in 1 .. n
                 PROVE  \E cell \in Preceding(Here) :
                          /\ Matches(predictions, detections'[k], cell)
                          /\ Expected(predictions, cell, detections'[k].classId)
      OBVIOUS
    <3>1. pi[k] \in 1 .. n /\ detections'[k] = detections[pi[k]]
      BY <1>5
    <3> QED
      BY <1>6, <3>1
  <2>2. ASSUME NEW cell \in Preceding(Here), NEW class \in Class, Expected(predictions, cell, class)
        PROVE  \E k \in 1 .. n :
                 detections'[k].classId = class /\ Matches(predictions, detections'[k], cell)
    <3>1. PICK i \in 1 .. n : detections[i].classId = class /\ Matches(predictions, detections[i], cell)
      BY <1>6, <2>2
    <3>2. PICK k \in 1 .. n : pi[k] = i
      BY <1>5
    <3>3. detections'[k] = detections[i]
      BY <1>5, <3>2
    <3> QED
      BY <3>1, <3>3
  <2>3. ASSUME NEW k \in 1 .. n, NEW l \in 1 .. n, detections'[k].index = detections'[l].index
        PROVE  k = l
    <3>1. pi[k] \in 1 .. n /\ detections'[k] = detections[pi[k]]
          /\ pi[l] \in 1 .. n /\ detections'[l] = detections[pi[l]]
      BY <1>5
    <3>2. pi[k] = pi[l]
      BY <1>6, <2>3, <3>1
    <3> QED
      BY <1>5, <3>2
  <2>4. /\ detections' \in Seq(Detection) /\ Len(detections') = n
        /\ pc' # "decode" /\ Here' = Here /\ predictions' = predictions
    BY <1>1, <1>3, <1>5, <1>7
  <2> QED
    BY <2>1, <2>2, <2>3, <2>4 DEF DecodedInv
<1>9. ASSUME NEW k \in 1 .. n, NEW l \in 1 .. n, k < l
      PROVE  Stronger(detections'[k], detections'[l])
  <2>1. Before(detections, pi[k], pi[l]) /\ pi[k] \in 1 .. n /\ pi[l] \in 1 .. n
    BY <1>5, <1>9
  <2>2. detections'[k] = detections[pi[k]] /\ detections'[l] = detections[pi[l]]
    BY <1>5
  <2>3. pi[k] < pi[l] => detections[pi[k]].index < detections[pi[l]].index
    BY <1>6, <2>1
  <2> QED
    BY <2>1, <2>2, <2>3 DEF Before, Stronger
<1>10. SuppressInv'
  <2>1. kept' = <<>> /\ position' = 1 /\ kept' \in Seq(Detection) /\ Len(kept') = 0
    BY <1>1 DEF SuppressInv
  <2>2. 1 .. position' - 1 = {} /\ 1 .. Len(kept') = {}
    BY <2>1
  <2>3. position' <= Len(detections') + 1 /\ position' \in Nat \ {0}
    BY <1>5, <2>1
  <2> QED
    BY <1>1, <1>5, <1>9, <2>1, <2>2, <2>3 DEF SuppressInv
<1> QED
  BY <1>8, <1>10

LEMMA SuppressStep ==
  ASSUME DecodedInv, SuppressInv, Suppress
  PROVE  SuppressInv'
<1> DEFINE n == Len(detections)
           m == Len(kept)
           c == detections[position]
<1>1. /\ detections \in Seq(Detection) /\ kept \in Seq(Detection)
      /\ pc = "suppress" /\ pc' = "suppress" /\ position' = position + 1
      /\ detections' = detections
      /\ position \in Nat \ {0} /\ position <= n
      /\ kept' = IF ShouldSuppress(c) THEN kept ELSE Append(kept, c)
  BY DEF DecodedInv, SuppressInv, Suppress
<1>2. /\ \A i, j \in 1 .. n : i < j => Stronger(detections[i], detections[j])
      /\ \A k \in 1 .. m : \E i \in 1 .. position - 1 : kept[k] = detections[i]
      /\ \A k, l \in 1 .. m :
            k < l => Stronger(kept[k], kept[l]) /\ ~ SameObject(kept[k], kept[l])
      /\ \A i \in 1 .. position - 1 :
            \E k \in 1 .. m :
              \/ kept[k] = detections[i]
              \/ Stronger(kept[k], detections[i]) /\ SameObject(kept[k], detections[i])
  BY <1>1 DEF SuppressInv
<1>3. n \in Nat /\ m \in Nat /\ c \in Detection /\ \A k \in 1 .. m : kept[k] \in Detection
  BY <1>1
<1>4. position' - 1 = position /\ position \in 1 .. n
      /\ \A i \in 1 .. position : i \in 1 .. position - 1 \/ i = position
  BY <1>1, <1>3
<1>5. ASSUME NEW k \in 1 .. m PROVE Stronger(kept[k], c)
  <2>1. PICK i \in 1 .. position - 1 : kept[k] = detections[i]
    BY <1>2
  <2>2. i \in 1 .. n /\ i < position
    BY <1>4, <1>1
  <2> QED
    BY <1>2, <1>4, <2>1, <2>2
<1>6. ASSUME NEW k \in 1 .. m PROVE Suppresses(c, kept[k]) <=> SameObject(kept[k], c)
  BY <1>3, SuppressesSameObject
<1>7. position' \in Nat \ {0} /\ position' <= n + 1
  BY <1>1, <1>3
<1>8. \A i, j \in 1 .. Len(detections') : i < j => Stronger(detections'[i], detections'[j])
  BY <1>1, <1>2
<1> HIDE DEF n, m, c
<1>9. CASE ShouldSuppress(c)
  <2>1. kept' = kept
    BY <1>1, <1>9
  <2>2. PICK s \in 1 .. m : Suppresses(c, kept[s])
    BY <1>9 DEF ShouldSuppress, m
  <2>3. Stronger(kept[s], c) /\ SameObject(kept[s], c)
    BY <1>5, <1>6, <2>2
  <2>4. \A i \in 1 .. position :
            \E l \in 1 .. m :
              \/ kept[l] = detections[i]
              \/ Stronger(kept[l], detections[i]) /\ SameObject(kept[l], detections[i])
    BY <1>2, <1>4, <2>3 DEF c
  <2>5. \A l \in 1 .. m : \E i \in 1 .. position : kept[l] = detections[i]
    BY <1>1, <1>2
  <2>6. Len(kept') = m /\ Len(detections') = n
    BY <1>1, <2>1 DEF m, n
  <2>7. \A k \in 1 .. Len(kept') : \E i \in 1 .. position' - 1 : kept'[k] = detections'[i]
    BY <1>1, <1>4, <2>1, <2>5, <2>6
  <2>8. \A k, l \in 1 .. Len(kept') :
          k < l => Stronger(kept'[k], kept'[l]) /\ ~ SameObject(kept'[k], kept'[l])
    BY <1>2, <2>1, <2>6
  <2>9. \A i \in 1 .. position' - 1 :
          \E k \in 1 .. Len(kept') :
            \/ kept'[k] = detections'[i]
            \/ Stronger(kept'[k], detections'[i]) /\ SameObject(kept'[k], detections'[i])
    BY <1>1, <1>4, <2>1, <2>4, <2>6
  <2> QED
    BY <1>1, <1>7, <1>8, <2>1, <2>6, <2>7, <2>8, <2>9 DEF SuppressInv
<1>10. CASE ~ ShouldSuppress(c)
  <2>1. kept' = Append(kept, c)
    BY <1>1, <1>10
  <2>2. /\ kept' \in Seq(Detection) /\ Len(kept') = m + 1 /\ kept'[m + 1] = c
        /\ \A k \in 1 .. m : kept'[k] = kept[k]
    BY <1>1, <1>3, <2>1 DEF m
  <2>3. \A k \in 1 .. m + 1 : k \in 1 .. m \/ k = m + 1
    BY <1>3
  <2>4. m + 1 \in 1 .. m + 1 /\ \A k \in 1 .. m : k \in 1 .. m + 1
    BY <1>3
  <2>5. \A k \in 1 .. m : ~ SameObject(kept[k], c)
    BY <1>6, <1>10 DEF ShouldSuppress, m
  <2>6. ASSUME NEW k \in 1 .. m + 1, NEW l \in 1 .. m + 1, k < l
        PROVE  Stronger(kept'[k], kept'[l]) /\ ~ SameObject(kept'[k], kept'[l])
    <3>1. k \in 1 .. m
      BY <1>3, <2>6
    <3>2. CASE l \in 1 .. m
      BY <1>2, <2>2, <2>6, <3>1, <3>2
    <3>3. CASE l = m + 1
      BY <1>5, <2>2, <2>5, <3>1, <3>3
    <3> QED
      BY <2>3, <3>2, <3>3
  <2>7. ASSUME NEW k \in 1 .. m + 1 PROVE \E i \in 1 .. position : kept'[k] = detections[i]
    <3>1. CASE k \in 1 .. m
      <4>1. PICK i \in 1 .. position - 1 : kept[k] = detections[i]
        BY <1>2, <3>1
      <4>2. i \in 1 .. position
        BY <1>1
      <4> QED
        BY <2>2, <3>1, <4>1, <4>2
    <3>2. CASE k = m + 1
      <4>1. position \in 1 .. position
        BY <1>1
      <4> QED
        BY <2>2, <3>2, <4>1 DEF c
    <3> QED
      BY <2>3, <3>1, <3>2
  <2>8. ASSUME NEW i \in 1 .. position
        PROVE  \E k \in 1 .. m + 1 :
                 \/ kept'[k] = detections[i]
                 \/ Stronger(kept'[k], detections[i]) /\ SameObject(kept'[k], detections[i])
    <3>1. CASE i \in 1 .. position - 1
      BY <1>2, <2>2, <2>4, <3>1
    <3>2. CASE i = position
      BY <2>2, <2>4, <3>2 DEF c
    <3> QED
      BY <1>4, <3>1, <3>2
  <2>9. Len(detections') = n
    BY <1>1 DEF n
  <2>10. /\ \A k \in 1 .. Len(kept') : \E i \in 1 .. position' - 1 : kept'[k] = detections'[i]
         /\ \A k, l \in 1 .. Len(kept') :
               k < l => Stronger(kept'[k], kept'[l]) /\ ~ SameObject(kept'[k], kept'[l])
         /\ \A i \in 1 .. position' - 1 :
               \E k \in 1 .. Len(kept') :
                 \/ kept'[k] = detections'[i]
                 \/ Stronger(kept'[k], detections'[i]) /\ SameObject(kept'[k], detections'[i])
    BY <1>1, <1>4, <2>2, <2>6, <2>7, <2>8
  <2> QED
    BY <1>1, <1>7, <1>8, <2>2, <2>9, <2>10 DEF SuppressInv
<1> QED
  BY <1>9, <1>10

IInv == CursorInv /\ PastInv /\ DecodedInv /\ SuppressInv

LEMMA InitIInv == Init => IInv
<1> SUFFICES ASSUME Init PROVE IInv
  OBVIOUS
<1>1. SuppressInv
  <2>1. pc = "decode" /\ position = 1 /\ kept = <<>>
    BY DEF Init
  <2>2. <<>> \in Seq(Detection)
    OBVIOUS
  <2> QED
    BY <2>1, <2>2 DEF SuppressInv
<1> QED
  BY <1>1, InitCursor, InitDecoded DEF IInv

LEMMA NextIInv == IInv /\ [Next]_vars => IInv'
<1> SUFFICES ASSUME CursorInv, PastInv, DecodedInv, SuppressInv, [Next]_vars PROVE IInv'
  BY DEF IInv
<1>1. CursorInv' /\ PastInv'
  BY NextCursor
<1>2. CASE DecodeCell
  <2>1. SuppressInv'
    BY <1>2 DEF DecodeCell, InGrid, SuppressInv
  <2> QED
    BY <1>1, <1>2, <2>1, DecodeCellDecoded DEF IInv
<1>3. CASE NextRow \/ NextStride
  <2>1. Preceding(Here') = Preceding(Here)
    BY <1>3, PastAfterRow
  <2>2. UNCHANGED <<pc, predictions, detections, position, kept>> /\ pc = "decode"
    BY <1>3 DEF NextRow, NextStride, InGrid
  <2>3. DecodedInv'
    BY <2>1, <2>2 DEF DecodedInv
  <2>4. SuppressInv'
    BY <2>2 DEF SuppressInv
  <2> QED
    BY <1>1, <2>3, <2>4 DEF IInv
<1>4. CASE Sort
  BY <1>1, <1>4, SortStep DEF IInv
<1>5. CASE Suppress
  <2>1. Here' = Here /\ UNCHANGED <<pc, predictions, detections>>
    BY <1>5 DEF Suppress, Here, cellVars
  <2>2. DecodedInv'
    BY <2>1 DEF DecodedInv
  <2> QED
    BY <1>1, <1>5, <2>2, SuppressStep DEF IInv
<1>6. CASE Return \/ UNCHANGED vars
  <2>1. Here' = Here /\ UNCHANGED <<predictions, detections, position, kept>>
        /\ (pc' = "decode" <=> pc = "decode")
    BY <1>6 DEF Return, Here, cellVars, vars
  <2>2. DecodedInv'
    BY <2>1 DEF DecodedInv
  <2>3. pc' = "done" => position = Len(detections) + 1
    <3>1. CASE Return
      <4>1. position > Len(detections) /\ position <= Len(detections) + 1 /\ position \in Nat
        BY <3>1 DEF Return, SuppressInv
      <4>2. Len(detections) \in Nat
        BY DEF DecodedInv
      <4> QED
        BY <4>1, <4>2
    <3>2. CASE UNCHANGED vars
      BY <3>2 DEF vars, SuppressInv
    <3> QED
      BY <1>6, <3>1, <3>2
  <2>4. SuppressInv'
    BY <2>1, <2>3 DEF SuppressInv
  <2> QED
    BY <1>1, <2>2, <2>4 DEF IInv
<1> QED
  BY <1>2, <1>3, <1>4, <1>5, <1>6 DEF Next

\* The invariant of both loops holds of every run.
THEOREM Invariance == Spec => []IInv
<1>1. Init => IInv
  BY InitIInv
<1>2. IInv /\ [Next]_vars => IInv'
  BY NextIInv
<1> QED
  BY <1>1, <1>2, PTL DEF Spec

\* After the loops every cell has been read.
LEMMA PastIsCell ==
  ASSUME CursorInv, PastInv, pc # "decode"
  PROVE  /\ Preceding(Here) = Cell /\ IsFiniteSet(Cell)
         /\ \A c \in Cell : IsFiniteSet(Preceding(c))
<1>1. Here[1] = StrideCount + 1 /\ StrideCount \in Nat
  BY Sizes DEF CursorInv, Here
<1>2. \A c \in Cell : c[1] < StrideCount + 1
  BY <1>1, CellTyped
<1>3. Preceding(Here) = Cell
  BY <1>1, <1>2 DEF Preceding, Precedes
<1>4. IsFiniteSet(Cell)
  BY <1>3 DEF PastInv
<1>5. \A c \in Cell : Preceding(c) \in SUBSET Cell
  BY DEF Preceding
<1> QED
  BY <1>3, <1>4, <1>5, FS_Subset

LEMMA Predicted ==
  /\ \A cell, class : Predicts(cell, class) <=> Expected(predictions, cell, class)
  /\ \A d, cell : IsOf(d, cell) <=> Matches(predictions, d, cell)
BY DEF Predicts, Expected, IsOf, Matches

LEMMA DecodedMatches ==
  ASSUME CursorInv, PastInv, DecodedInv
  PROVE  DetectionsMatchPredictions
<1> SUFFICES ASSUME pc # "decode" PROVE DetectionsMatchPredictions
  BY DEF DetectionsMatchPredictions
<1> DEFINE n == Len(detections)
<1>1. /\ Preceding(Here) = Cell
      /\ \A c \in Cell : IsFiniteSet(Preceding(c))
  BY PastIsCell
<1>2. /\ \A i \in 1 .. n :
           \E cell \in Cell :
             /\ Matches(predictions, detections[i], cell)
             /\ Expected(predictions, cell, detections[i].classId)
      /\ \A cell \in Cell, class \in Class :
           Expected(predictions, cell, class) =>
             \E i \in 1 .. n :
               detections[i].classId = class /\ Matches(predictions, detections[i], cell)
      /\ \A i, j \in 1 .. n : detections[i].index = detections[j].index => i = j
  BY <1>1 DEF DecodedInv
<1>3. ASSUME NEW cell \in Cell, NEW class \in Class, NEW i \in 1 .. n,
             detections[i].classId = class, Matches(predictions, detections[i], cell)
      PROVE  Expected(predictions, cell, class)
  <2>1. PICK c \in Cell : /\ Matches(predictions, detections[i], c)
                          /\ Expected(predictions, c, detections[i].classId)
    BY <1>2
  <2>2. IndexOf(c) = IndexOf(cell)
    BY <1>3, <2>1 DEF Matches
  <2>3. c = cell
    BY <1>1, <2>2, IndexInjective
  <2> QED
    BY <1>3, <2>1, <2>3
<1> QED
  BY <1>2, <1>3, Predicted DEF DetectionsMatchPredictions

LEMMA SuppressedStrongest ==
  ASSUME DecodedInv, SuppressInv
  PROVE  StrongestKept
<1> SUFFICES ASSUME pc = "done" PROVE StrongestKept
  BY DEF StrongestKept
<1>1. Len(detections) \in Nat
  BY DEF DecodedInv
<1>2. position - 1 = Len(detections)
  BY <1>1 DEF SuppressInv
<1> QED
  BY <1>2 DEF SuppressInv, StrongestKept

\* The detections are exactly those that the predictions of the cells give.
THEOREM DecodingIsRight == Spec => []DetectionsMatchPredictions
<1>1. IInv => DetectionsMatchPredictions
  BY DecodedMatches DEF IInv
<1> QED
  BY <1>1, Invariance, PTL

\* What is kept is the strongest detection of each object, in order.
THEOREM SuppressionIsRight == Spec => []StrongestKept
<1>1. IInv => StrongestKept
  BY SuppressedStrongest DEF IInv
<1> QED
  BY <1>1, Invariance, PTL

\* No row is read past the end of the buffer, and none is left out: at the end of
\* the loops the index is the size that the buffer was checked to have.
THEOREM EveryRowRead ==
  Spec => [](/\ InCell => candidateIndex \in 0 .. CandidateCount - 1
             /\ pc # "decode" => candidateIndex = CandidateCount)
<1>1. IInv => /\ InCell => candidateIndex \in 0 .. CandidateCount - 1
              /\ pc # "decode" => candidateIndex = CandidateCount
  BY CellRow DEF IInv, CursorInv
<1> QED
  BY <1>1, Invariance, PTL

\* static_assert(CandidateCount == 3549) for the input size and strides of
\* yolox_model_spec.hpp.
THEOREM CandidateCountOfModel ==
  ASSUME InputWidth = 416, InputHeight = 416, Strides = <<8, 16, 32>>
  PROVE  CandidateCount = 3549
<1>1. Len(Strides) = 3 /\ Strides[1] = 8 /\ Strides[2] = 16 /\ Strides[3] = 32
  OBVIOUS
<1>2. /\ Count[0] = 0
      /\ Count[1] = Count[0] + CellCount(8)
      /\ Count[2] = Count[1] + CellCount(16)
      /\ Count[3] = Count[2] + CellCount(32)
  <2>1. \A n \in {1, 2, 3} : Count[n] = Count[n - 1] + CellCount(Strides[n])
    BY <1>1, CountSteps DEF StrideCount
  <2> QED
    BY <1>1, <2>1, CountSteps
<1>3. CellCount(8) = 2704 /\ CellCount(16) = 676 /\ CellCount(32) = 169
  <2>1. 416 \div 8 = 52 /\ 416 \div 16 = 26 /\ 416 \div 32 = 13
    OBVIOUS
  <2> QED
    BY <2>1 DEF CellCount, GridWidth, GridHeight
<1> QED
  BY <1>1, <1>2, <1>3 DEF CandidateCount

=============================================================================
