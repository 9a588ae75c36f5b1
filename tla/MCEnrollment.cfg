SPECIFICATION LiveSpec
CONSTANTS
  left = left
  right = right
  port1 = port1
  port2 = port2
  j1 = j1
  j2 = j2
  Camera = {left, right}
  Serial <- Serials
  Network = {port1, port2}
  Address = {1, 2}
  Group = {}
  MachineMode <- Modes
  MaxDevices <- Devices
  SwitchedMax <- RoomForTwo
  Approved = {port1, port2}
  Automatic = {port2}
  Requests = {0}
  FirstSeen <- Connected
  Job = {j1, j2}
  MaxGoals = 2
  MaxEvents = 2
INVARIANTS TypeOK EnrollmentsExclusive PlacementsExclusive AddressesDistinct
PROPERTIES NoCameraLeftOut
CHECK_DEADLOCK FALSE
