CONSTANTS
  c1 = c1
  c2 = c2
  c3 = c3
  None = None
  Cells = {c1, c2}
  Together = FALSE
  Retires = {"restart", "evict"}
  MaxHosts = 2
  MaxProcesses = 5
  MaxCommands = 1
  MaxFaults = 2
SPECIFICATION FairSpec
CHECK_DEADLOCK FALSE
INVARIANTS
  TypeOK
  OneKernel
  EpochNamesKernel
  QuietCellRunsWhereBound
PROPERTIES
  LostNamespaceIsTold
  EveryCellReturns
