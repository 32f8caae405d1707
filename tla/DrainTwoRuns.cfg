CONSTANTS
  t1 = t1
  t2 = t2
  t3 = t3
  c1 = c1
  c2 = c2
  c3 = c3
  Tasks = {t1, t2}
  Children = {c1, c2}
  NameOf <- MCNameOf
  NoChild = NoChild
  Free = Free
  NoRun = NoRun
  run1 = run1
  run2 = run2
  Runs = {run1, run2}
  TasksOf <- OwnTasks
  Costs = {1}
  Cost = 1
  Ceiling = 2
  RootReserve = 1
  HostCapacity = 1
  Targets = {0, 1}
  EndsEarly = TRUE
  UncleanEnds = FALSE
  MaxWakes = 1
  MaxFaults = 0
  MaxCrashes = 0
SYMMETRY SwapRuns
SPECIFICATION Spec
INVARIANTS
  OccupiedWithinCapacity
  GateAgreesWithRecords
