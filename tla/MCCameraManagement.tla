-------------------------- MODULE MCCameraManagement --------------------------
(***************************************************************************)
(* Camera management on a small instance: two cameras, so that the list    *)
(* can move under the selection; one good name, one blank URL, one with a  *)
(* wrong scheme, and two that can be streamed, so that an update changes   *)
(* what is stored. The two are interchangeable, hence the symmetry.        *)
(***************************************************************************)
EXTENDS CameraManagement

Interchangeable == Permutations(StreamUrl)
=============================================================================
