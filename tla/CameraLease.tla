---------------------------- MODULE CameraLease ----------------------------
(***************************************************************************)
(* What the inventory manager promises about camera leases, without groups, *)
(* targets, clocks or threads: a lease is granted once, on a fixed set of  *)
(* cameras, compatible with every lease still held; it ends once and its   *)
(* name is never granted again; what the providers are shown as reserved   *)
(* is, at the moment it is shown, held by some lease.                      *)
(***************************************************************************)
EXTENDS Naturals

CONSTANTS Camera, Lease

VARIABLES
  state,    \* "free", "held" or "over"
  cameras,  \* the cameras of each lease that is held
  sole,     \* whether the lease shares its cameras with no other
  shown     \* the cameras the providers were last told are reserved

vars == <<state, cameras, sole, shown>>

Held == {l \in Lease : state[l] = "held"}
HeldCameras == UNION {cameras[l] : l \in Held}

Compatible(S, alone, l) == S \cap cameras[l] # {} => ~alone /\ ~sole[l]

Init ==
  /\ state = [l \in Lease |-> "free"]
  /\ cameras = [l \in Lease |-> {}]
  /\ sole = [l \in Lease |-> FALSE]
  /\ shown = {}

Grant(l, S, alone) ==
  /\ state[l] = "free"
  /\ S # {}
  /\ \A other \in Held : Compatible(S, alone, other)
  /\ state' = [state EXCEPT ![l] = "held"]
  /\ cameras' = [cameras EXCEPT ![l] = S]
  /\ sole' = [sole EXCEPT ![l] = alone]
  /\ UNCHANGED shown

(* One lease ends when it is released; several may expire in one sweep.    *)
End(ids) ==
  /\ ids # {} /\ ids \subseteq Held
  /\ state' = [l \in Lease |-> IF l \in ids THEN "over" ELSE state[l]]
  /\ cameras' = [l \in Lease |-> IF l \in ids THEN {} ELSE cameras[l]]
  /\ sole' = [l \in Lease |-> IF l \in ids THEN FALSE ELSE sole[l]]
  /\ UNCHANGED shown

Show(S) ==
  /\ S \subseteq HeldCameras
  /\ shown' = S
  /\ UNCHANGED <<state, cameras, sole>>

Next ==
  \/ \E l \in Lease, S \in SUBSET Camera, alone \in BOOLEAN : Grant(l, S, alone)
  \/ \E ids \in SUBSET Lease : End(ids)
  \/ \E S \in SUBSET Camera : Show(S)

Spec == Init /\ [][Next]_vars
============================================================================
