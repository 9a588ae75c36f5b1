SPECIFICATION Spec
CONSTANTS
  front = front
  back = back
  Group = {front, back}
  Operation = {o1}
  Request <- EveryRequest
  MaxCycle = 2
  MaxActive = 1
  MaxInflight = 3
  HistoryLimit = 1
PROPERTY StoppedOperationEnds
CHECK_DEADLOCK FALSE
