------------------------------ MODULE MCRegistry ------------------------------
(***************************************************************************)
(* Instance of Registry: two ports of two addresses; a camera an older     *)
(* release enrolled, and two cameras of two vendors with one serial.       *)
(***************************************************************************)
EXTENDS Registry

CONSTANTS veteran, twin1, twin2, port1, port2, all

Cameras == {veteran, twin1, twin2}
Serials == [c \in Cameras |-> IF c = veteran THEN "s1" ELSE "s2"]
Modes == [n \in {port1, port2} |-> IF n = port1 THEN "direct" ELSE "switched"]
Devices == [n \in {port1, port2} |-> IF n = port1 THEN 1 ELSE 2]

VeteranAt == [network |-> port1, address |-> 1]
Role == (veteran :> VeteranAt)

\* A schema 1 inventory with the veteran enrolled, in the group.
OldFile ==
  [version |-> 1,
   inventory |-> [sensors |-> (<<"old", veteran>> :> [camera |-> veteran, at |-> VeteranAt]),
                  known |-> <<>>, modes |-> Modes,
                  groups |-> (all :> {<<"old", veteran>>})],
   retired |-> <<>>]
Files == {OldFile}
=============================================================================
