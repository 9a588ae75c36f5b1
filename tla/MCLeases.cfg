SPECIFICATION Spec
CONSTANTS
  left = left
  right = right
  spare = spare
  front = front
  all = all
  Idle = Idle
  Temporary = Temporary
  Sensor <- TwoSensors
  Group <- MCGroup
  Client = {recorder, gateway}
  SessionId = {s1, s2}
  Editor = {editor}
  Shot = {oneshot}
  TTL = 1
  DefaultMode = "idle"
  LeaseRequest <- TwoSensorsLeaseRequest
  EditRequest = {}
  ReplacePair = {}
  InitialGroups <- MCInitialGroups
INVARIANTS ExclusiveLease TemporaryLeaseHasShot
PROPERTIES CrashedClientLosesLeases BaselineRestored
