SPECIFICATION Spec
CONSTANTS
  left = left
  right = right
  spare = spare
  front = front
  all = all
  Idle = Idle
  Temporary = Temporary
  Sensor <- MCSensor
  Group <- MCGroup
  Client = {recorder}
  SessionId = {s1, s2}
  Editor = {editor}
  Shot = {}
  TTL = 1
  DefaultMode = "idle"
  LeaseRequest <- MCLeaseRequest
  EditRequest <- MCEditRequest
  ReplacePair <- MCReplacePair
  InitialGroups <- MCInitialGroups
SYMMETRY LeaseNames
INVARIANT ExclusiveMeansAlone
