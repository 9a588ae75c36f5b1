---------------------------- MODULE MCEnrollment ----------------------------
(***************************************************************************)
(* Instance of Enrollment: two approved ports with room for two cameras    *)
(* when switched, one of which the machine file configures direct.         *)
(***************************************************************************)
EXTENDS Enrollment

CONSTANTS left, right, port1, port2, j1, j2

Serials == [c \in Camera |-> c]
Modes == [n \in Network |-> IF n = port1 THEN "direct" ELSE "switched"]
Devices == [n \in Network |-> IF n = port1 THEN 1 ELSE 2]
RoomForTwo == [n \in Network |-> 2]
Connected == (left :> port1) @@ (right :> port2)
=============================================================================
