SPECIFICATION LiveSpec
CONSTANTS
  veteran = veteran
  twin1 = twin1
  twin2 = twin2
  port1 = port1
  port2 = port2
  all = all
  Camera <- Cameras
  Serial <- Serials
  Network = {port1, port2}
  Address = {1, 2}
  Group = {all}
  MachineMode <- Modes
  MaxDevices <- Devices
  SwitchedMax <- Devices
  OldFiles <- Files
  Legacy <- Role
  Steady = {veteran, twin1}
  MaxFaults = 2
  MaxEdits = 2
INVARIANTS TypeOK FileLoads AcknowledgedSurvives ActsOnWhatIsSaved OnlyTwinsPoison
PROPERTIES CatalogueReachesDisk
CHECK_DEADLOCK FALSE
