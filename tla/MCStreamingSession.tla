-------------------------- MODULE MCStreamingSession --------------------------
(***************************************************************************)
(* StreamingSession on a small instance. Three runs let a queued run, the  *)
(* run in progress and the newest one all differ; two retries are a budget *)
(* that is neither empty nor spent at once; three frames are an old, a     *)
(* newer and the newest one.                                               *)
(***************************************************************************)
EXTENDS StreamingSession
=============================================================================
