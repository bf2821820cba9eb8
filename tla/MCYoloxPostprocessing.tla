------------------------- MODULE MCYoloxPostprocessing -------------------------
(***************************************************************************)
(* Five cells: two by two of one pixel and one of two pixels. The rows give *)
(* boxes that touch, coincide, contain one another or overlap by exactly   *)
(* the threshold of a third, equal scores of two classes, and predictions  *)
(* that must be skipped.                                                   *)
(***************************************************************************)
EXTENDS YoloxPostprocessing, TLC

Row(width, height, first, second) ==
  [x |-> 0, y |-> 0, width |-> width, height |-> height,
   score |-> (0 :> first @@ 1 :> second)]

MCStrides == <<1, 2>>

MCOverlap == [num |-> 1, den |-> 3]

MCPrediction ==
  {Row(1, 1, 1, 0),           \* below the threshold
   Row(0, 2, 3, 0),           \* the width underflows
   Row(2, NotFinite, 0, 3),   \* the height overflows
   Row(2, 1, 2, 2),
   Row(2, 1, 3, NotFinite),
   Row(2, 2, 2, 0),
   Row(1, 1, 2, 3)}
=============================================================================
