CONSTANTS
  c1 = c1
  c2 = c2
  c3 = c3
  None = None
  Cells = {c1, c2}
  MaxPendingCells = 1
  CanSpill = TRUE
  Parkable = {"idle", "parked"}
  Kinds = {"reset", "domain"}
  Eager = TRUE
  EarlyCommands = FALSE
  MaxCommands = 2
  MaxFailures = 1
SPECIFICATION FairSpec
CHECK_DEADLOCK FALSE
INVARIANTS
  TypeOK
  SerialInProcess
PROPERTIES
  RestartIsTold
  EveryCellAnswered
