------------------------- MODULE MCCaptureSessions -------------------------
(***************************************************************************)
(* Small instance of CaptureSessions: two overlapping groups over two      *)
(* cameras, a third camera that can be enrolled or take another's place.   *)
(***************************************************************************)
EXTENDS CaptureSessions, TLC

CONSTANTS left, right, spare, front, all

GroupLease(groups, interval, exclusive) ==
  [kind |-> "group", groups |-> groups, sensors |-> {}, interval |-> interval,
   exclusive |-> exclusive]

SensorLease(cameras, exclusive) ==
  [kind |-> "sensor", groups |-> {}, sensors |-> cameras, interval |-> 0,
   exclusive |-> exclusive]

EditOf(op, group, cameras, camera, mode) ==
  [op |-> op, group |-> group, members |-> cameras, sensor |-> camera, mode |-> mode]

MCSensor == {left, right, spare}
MCGroup == {front, all}

MCInitialGroups == [g \in MCGroup |-> IF g = front THEN {right} ELSE {left, right}]

MCLeaseRequest ==
  {GroupLease({front}, 2, FALSE), GroupLease({all}, 1, FALSE), SensorLease({spare}, TRUE)}

MCEditRequest ==
  {EditOf("upsert", front, {left}, right, "idle"),
   EditOf("delete", front, {}, right, "idle"),
   EditOf("group_mode", front, {}, right, "preview"),
   EditOf("sensor_mode", front, {}, spare, "preview"),
   EditOf("forget", front, {}, spare, "idle")}

MCReplacePair == {<<right, spare>>}

(* Lease names are only compared; the run that uses this checks no liveness.*)
LeaseNames == Permutations(SessionId)

(* Without operators: both cameras in groups, none to enrol.               *)
TwoSensors == {left, right}

TwoSensorsLeaseRequest ==
  {GroupLease({front}, 2, FALSE), GroupLease({all}, 1, FALSE), SensorLease({left}, TRUE)}
============================================================================
