------------------------------ MODULE MCGateway ------------------------------
(***************************************************************************)
(* Instance of Gateway: two operations of which one may run and one is     *)
(* remembered, two connections, one camera.                                *)
(***************************************************************************)
EXTENDS Gateway

CONSTANTS k1, k2, cam
=============================================================================
