SPECIFICATION LiveSpec
CONSTANTS
  k1 = k1
  k2 = k2
  cam = cam
  MaxOperations = 2
  Connection = {k1, k2}
  Sensor = {cam}
  max_active_operations = 1
  operation_history_limit = 1
  max_connections = 2
INVARIANTS TypeOK ActiveLimit SlotsConserved
PROPERTIES OutcomeKept OperationsEnd LeavingFreesSlot PreviewReleased
