------------------------------ MODULE MCRecording ------------------------------
(***************************************************************************)
(* Recording on a small instance: two runs and two attempts, so that what  *)
(* an attempt leaves meets a reconnection or a restart; two seconds with   *)
(* two presses each, so that one file can be pending while another is      *)
(* active or finished, and a file can be named once or twice.              *)
(***************************************************************************)
EXTENDS Recording
=============================================================================
