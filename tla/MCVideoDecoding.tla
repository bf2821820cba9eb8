---------------------------- MODULE MCVideoDecoding ----------------------------
(***************************************************************************)
(* Two attempts, for what the first leaves to the second; two packets with *)
(* two frames at once, so that a frame can be left behind; two formats and *)
(* two contexts, so that one could be leaked or freed beside another; a    *)
(* recording of two seconds.                                               *)
(***************************************************************************)
EXTENDS VideoDecoding
=============================================================================
