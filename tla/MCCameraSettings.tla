-------------------------- MODULE MCCameraSettings --------------------------
(***************************************************************************)
(* Instance of CameraSettings: two cameras, a profile name that the        *)
(* administrator or the dashboard may own, one setting to override, which  *)
(* the cameras refuse.                                                     *)
(***************************************************************************)
EXTENDS CameraSettings

CONSTANTS c1, c2, p, w1, w2

Overrides == {{"exposure"}}
=============================================================================
