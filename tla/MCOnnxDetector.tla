----------------------------- MODULE MCOnnxDetector -----------------------------
(***************************************************************************)
(* An input that is wider than high, and all small frames: smaller, larger *)
(* and of the input's own shape, empty, in another format, and too long.   *)
(***************************************************************************)
EXTENDS OnnxDetector

MCPicture ==
  [width : 0 .. 5, height : 0 .. 5, format : {"RGB888"}]
    \cup {[width |-> 2, height |-> 2, format |-> "other"],
          [width |-> 9, height |-> 2, format |-> "RGB888"],
          [width |-> 1, height |-> 7, format |-> "RGB888"]}
=============================================================================
