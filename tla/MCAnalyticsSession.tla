-------------------------- MODULE MCAnalyticsSession --------------------------
(***************************************************************************)
(* AnalyticsSession on a small instance: three activations, so that a       *)
(* failure, the activation that overtakes it and the next failure meet;    *)
(* two runs, so that an activation may keep or change the run; and enough  *)
(* frames for one in hand, one waiting and one already published.          *)
(***************************************************************************)
EXTENDS AnalyticsSession
=============================================================================
