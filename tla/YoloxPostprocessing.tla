-------------------------- MODULE YoloxPostprocessing --------------------------
(***************************************************************************)
(* What the detector does with the model's predictions: decodeDetections() *)
(* walks over the grids of three strides, one row of predictions per cell, *)
(* and applyNms() drops a detection that overlaps a stronger one of the    *)
(* same class.                                                             *)
(*                                                                         *)
(* Numbers are integers, in half pixels where a centre is halved, and      *)
(* NotFinite is any infinity or NaN: rounding is left out. A row holds its *)
(* width and height after exp(), and scores after the product with the     *)
(* objectness. One step is one iteration of a loop.                        *)
(***************************************************************************)
EXTENDS Integers, Sequences, FiniteSets

CONSTANTS
  InputWidth, InputHeight,  \* of the model's input, in pixels
  Strides,                  \* a sequence
  ClassCount,
  Upscale,                  \* 1 / imageScale
  ScoreThreshold,
  Overlap,                  \* overlapThreshold, the fraction num / den
  Prediction,               \* the rows that the model may predict
  NotFinite

Class == 0 .. ClassCount - 1

GridWidth(stride) == InputWidth \div stride

GridHeight(stride) == InputHeight \div stride

CellCount(stride) == (InputWidth \div stride) * (InputHeight \div stride)

\* The cells of the first n strides; of all: the number of rows in the buffer.
Count[n \in 0 .. Len(Strides)] ==
  IF n = 0 THEN 0 ELSE Count[n - 1] + CellCount(Strides[n])

CandidateCount == Count[Len(Strides)]

Number == Int \cup {NotFinite}

ASSUME PostprocessingAssumption ==
  /\ InputWidth \in Nat /\ InputHeight \in Nat
  /\ Strides \in Seq(Nat \ {0})
  /\ ClassCount \in Nat
  /\ Upscale \in Nat \ {0}
  /\ ScoreThreshold \in Nat
  /\ Overlap \in [num : Nat, den : Nat \ {0}]
  /\ \A row \in Prediction :
       /\ {row.x, row.y} \subseteq Number
       /\ {row.width, row.height} \subseteq Nat \cup {NotFinite}
       /\ row.score \in [Class -> Number]
  /\ NotFinite \notin Int

VARIABLES
  pc,              \* the loop: "decode", "suppress", or "done"
  predictions,     \* the buffer, by index of the candidate
  stride,          \* the index in Strides
  gridX, gridY,
  candidateIndex,
  detections,
  position,        \* of the next candidate in applyNms()
  kept

cellVars == <<stride, gridX, gridY, candidateIndex>>
vars == <<pc, predictions, cellVars, detections, position, kept>>

Init ==
  /\ pc = "decode"
  /\ predictions \in [0 .. CandidateCount - 1 -> Prediction]
  /\ stride = 1 /\ gridX = 0 /\ gridY = 0
  /\ candidateIndex = 0
  /\ detections = <<>>
  /\ position = 1
  /\ kept = <<>>

-----------------------------------------------------------------------------
(* decodeDetections().                                                     *)

Better(best, row, class) ==
  IF row.score[class] # NotFinite /\ row.score[class] > best.score
  THEN [class |-> class, score |-> row.score[class]]
  ELSE best

\* The scan over the classes, from class -1 with score 0.
Best(row) ==
  LET scan[n \in 0 .. ClassCount] ==
        IF n = 0 THEN [class |-> -1, score |-> 0] ELSE Better(scan[n - 1], row, n - 1)
  IN  scan[ClassCount]

\* The box of a row in its cell, in half pixels of the original image.
Box(row) ==
  LET s == Strides[stride] * Upscale IN
  [x |-> (2 * (row.x + gridX) - row.width) * s,
   y |-> (2 * (row.y + gridY) - row.height) * s,
   width |-> 2 * row.width * s,
   height |-> 2 * row.height * s]

\* The box is finite and not empty.
Sized(row) ==
  /\ NotFinite \notin {row.x, row.y, row.width, row.height}
  /\ row.width > 0 /\ row.height > 0

Confident(row) == Best(row).class >= 0 /\ Best(row).score >= ScoreThreshold

\* The field index only tells detections apart.
Detected(row) ==
  [box |-> Box(row), classId |-> Best(row).class, score |-> Best(row).score,
   index |-> candidateIndex]

InGrid ==
  /\ pc = "decode"
  /\ stride <= Len(Strides)
  /\ gridY < GridHeight(Strides[stride])

OnlyPastDetections(pushed) ==  \* mutant: skipped rows are not counted
  IF pushed THEN candidateIndex + 1 ELSE candidateIndex

NextIndex(pushed) == candidateIndex + 1

DecodeCell ==
  /\ InGrid
  /\ gridX < GridWidth(Strides[stride])
  /\ LET row == predictions[candidateIndex]
         pushed == Confident(row) /\ Sized(row)
     IN  /\ detections' = IF pushed THEN Append(detections, Detected(row)) ELSE detections
         /\ candidateIndex' = NextIndex(pushed)
  /\ gridX' = gridX + 1
  /\ UNCHANGED <<pc, predictions, stride, gridY, position, kept>>

NextRow ==
  /\ InGrid
  /\ gridX = GridWidth(Strides[stride])
  /\ gridX' = 0
  /\ gridY' = gridY + 1
  /\ UNCHANGED <<pc, predictions, stride, candidateIndex, detections, position, kept>>

NextStride ==
  /\ pc = "decode"
  /\ stride <= Len(Strides)
  /\ gridY = GridHeight(Strides[stride])
  /\ stride' = stride + 1
  /\ gridX' = 0 /\ gridY' = 0
  /\ UNCHANGED <<pc, predictions, candidateIndex, detections, position, kept>>

-----------------------------------------------------------------------------
(* applyNms().                                                             *)

Least(a, b) == IF a < b THEN a ELSE b
Greatest(a, b) == IF a < b THEN b ELSE a

\* The length two intervals have in common.
Common(a, aSize, b, bSize) ==
  Greatest(0, Least(a + aSize, b + bSize) - Greatest(a, b))

Intersection(a, b) ==
  Common(a.x, a.width, b.x, b.width) * Common(a.y, a.height, b.y, b.height)

Union(a, b) == a.width * a.height + b.width * b.height - Intersection(a, b)

OverlappingAtThreshold(a, b) ==  \* mutant: >= for >
  Union(a, b) > 0 /\ Intersection(a, b) * Overlap.den >= Overlap.num * Union(a, b)

\* intersectionOverUnion() > overlapThreshold.
Overlapping(a, b) ==
  Union(a, b) > 0 /\ Intersection(a, b) * Overlap.den > Overlap.num * Union(a, b)

\* The order of std::stable_sort by descending score.
Before(s, i, j) ==
  s[i].score > s[j].score \/ (s[i].score = s[j].score /\ i < j)

Sorted(s) ==
  [k \in 1 .. Len(s) |->
     s[CHOOSE i \in 1 .. Len(s) :
         Cardinality({j \in 1 .. Len(s) : Before(s, j, i)}) = k - 1]]

Sort ==
  /\ pc = "decode"
  /\ stride > Len(Strides)
  /\ detections' = Sorted(detections)
  /\ pc' = "suppress"
  /\ UNCHANGED <<predictions, cellVars, position, kept>>

Suppresses(candidate, accepted) ==
  /\ candidate.classId = accepted.classId
  /\ Overlapping(candidate.box, accepted.box)

ByLast(candidate) ==  \* mutant: compared with the last one kept only
  kept # <<>> /\ Suppresses(candidate, kept[Len(kept)])

ShouldSuppress(candidate) ==
  \E k \in 1 .. Len(kept) : Suppresses(candidate, kept[k])

Suppress ==
  /\ pc = "suppress"
  /\ position <= Len(detections)
  /\ LET candidate == detections[position] IN
       kept' = IF ShouldSuppress(candidate) THEN kept ELSE Append(kept, candidate)
  /\ position' = position + 1
  /\ UNCHANGED <<pc, predictions, cellVars, detections>>

Return ==
  /\ pc = "suppress"
  /\ position > Len(detections)
  /\ pc' = "done"
  /\ UNCHANGED <<predictions, cellVars, detections, position, kept>>

Next == DecodeCell \/ NextRow \/ NextStride \/ Sort \/ Suppress \/ Return

Spec == Init /\ [][Next]_vars

-----------------------------------------------------------------------------
(* Properties, against definitions that do not follow the loops.           *)

\* The cells of all grids, and the number of cells before one of them.
Cell == UNION {{<<s, y, x>> : y \in 0 .. GridHeight(Strides[s]) - 1,
                              x \in 0 .. GridWidth(Strides[s]) - 1} :
               s \in 1 .. Len(Strides)}

Precedes(c, d) ==
  \/ c[1] < d[1]
  \/ c[1] = d[1] /\ c[2] < d[2]
  \/ c[1] = d[1] /\ c[2] = d[2] /\ c[3] < d[3]

IndexOf(cell) == Cardinality({c \in Cell : Precedes(c, cell)})

\* A class that no other one beats, nor equals before it.
IsBest(row, class) ==
  /\ row.score[class] # NotFinite
  /\ \A other \in Class :
       row.score[other] # NotFinite =>
         \/ row.score[class] > row.score[other]
         \/ row.score[class] = row.score[other] /\ class <= other

\* The cell predicts an object of that class.
Predicts(cell, class) ==
  LET row == predictions[IndexOf(cell)] IN
  /\ IsBest(row, class)
  /\ row.score[class] > 0 /\ row.score[class] >= ScoreThreshold
  /\ NotFinite \notin {row.x, row.y, row.width, row.height}
  /\ row.width * row.height > 0

\* d is what the cell predicts: at its centre and of its size.
IsOf(d, cell) ==
  LET row == predictions[IndexOf(cell)]
      unit == 2 * Strides[cell[1]] * Upscale
  IN  /\ d.index = IndexOf(cell)
      /\ d.score = row.score[d.classId]
      /\ d.box.width = row.width * unit /\ d.box.height = row.height * unit
      /\ 2 * d.box.x + d.box.width = 2 * (row.x + cell[3]) * unit
      /\ 2 * d.box.y + d.box.height = 2 * (row.y + cell[2]) * unit

\* Each cell with a confident prediction gives one detection, with the best
\* class, the lowest of equals, and nothing else does: every row is read for
\* its own cell, also after rows that are skipped.
DetectionsMatchPredictions ==
  pc # "decode" =>
    /\ \A cell \in Cell, class \in Class :
         Predicts(cell, class) <=>
           \E i \in 1 .. Len(detections) :
             detections[i].classId = class /\ IsOf(detections[i], cell)
    /\ \A i, j \in 1 .. Len(detections) :
         detections[i].index = detections[j].index => i = j
    /\ \A i \in 1 .. Len(detections) : \E cell \in Cell : IsOf(detections[i], cell)

\* The half pixels that a box covers.
Pixels(box) == (box.x .. box.x + box.width - 1) \X (box.y .. box.y + box.height - 1)

\* Two detections of one object, by counting pixels.
SameObject(d, e) ==
  /\ d.classId = e.classId
  /\ Overlap.den * Cardinality(Pixels(d.box) \cap Pixels(e.box))
       > Overlap.num * Cardinality(Pixels(d.box) \cup Pixels(e.box))

Stronger(d, e) ==
  d.score > e.score \/ (d.score = e.score /\ d.index < e.index)

\* Of each object the strongest detection is kept: no two kept ones are of one
\* object, one is dropped only for a stronger one that is kept, and the order is
\* by score, then by cell.
StrongestKept ==
  pc = "done" =>
    /\ \A i, j \in 1 .. Len(kept) :
         i < j => Stronger(kept[i], kept[j]) /\ ~SameObject(kept[i], kept[j])
    /\ \A i \in 1 .. Len(detections) :
         \E k \in 1 .. Len(kept) :
           \/ kept[k] = detections[i]
           \/ Stronger(kept[k], detections[i]) /\ SameObject(kept[k], detections[i])
    /\ \A k \in 1 .. Len(kept) : \E i \in 1 .. Len(detections) : kept[k] = detections[i]

=============================================================================
