CONSTANTS
  t1 = t1
  t2 = t2
  t3 = t3
  c1 = c1
  c2 = c2
  c3 = c3
  Tasks = {t1}
  Children = {c1, c2}
  NameOf <- MCNameOf
  NoChild = NoChild
  Free = Free
  NoRun = NoRun
  run1 = run1
  run2 = run2
  Runs = {run1}
  TasksOf <- SharedTasks
  Costs = {1}
  Cost = 1
  Ceiling = 4
  RootReserve = 1
  HostCapacity = 2
  Targets = {2}
  EndsEarly = TRUE
  UncleanEnds = FALSE
  MaxWakes = 1
  MaxFaults = 0
  MaxCrashes = 0
SPECIFICATION Spec
INVARIANTS
  AcceptedChildRuns
