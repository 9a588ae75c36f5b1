SPECIFICATION Spec
CONSTANTS
  front = front
  back = back
  Group = {front, back}
  Operation = {o1, o2, o3}
  Request <- SmallRequest
  MaxCycle = 1
  MaxActive = 2
  MaxInflight = 1
  HistoryLimit = 1
SYMMETRY OperationIds
INVARIANTS ActiveRetained ActiveLimit
CHECK_DEADLOCK FALSE
