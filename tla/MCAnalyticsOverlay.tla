--------------------------- MODULE MCAnalyticsOverlay ---------------------------
(***************************************************************************)
(* The overlay on a small instance: two runs, so that a result may come    *)
(* after the restart, and activations and frames enough for a failure and  *)
(* a result of one activation to meet the next.                            *)
(***************************************************************************)
EXTENDS AnalyticsOverlay
=============================================================================
