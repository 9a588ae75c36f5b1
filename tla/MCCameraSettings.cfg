SPECIFICATION LiveSpec
CONSTANTS
  c1 = c1
  c2 = c2
  p = p
  w1 = w1
  w2 = w2
  Camera = {c1, c2}
  Name = {p}
  Key = {"exposure"}
  Worker = {w1, w2}
  Impossible <- Overrides
  MaxEdits = 4
  MaxCrashes = 1
INVARIANTS TypeOK SelectionLostOnlyByRace CatalogIsOnDisk
PROPERTIES ChangesSettle
CHECK_DEADLOCK FALSE
