\* Two tasks, charges below, at and above a reservation, one readmission each.
CONSTANTS
  Tasks = {t1, t2}
  Children = {c1}
  NoChild = NoChild
  Costs = {1}
  Ceiling = 3
  RootReserve = 1
  Targets = {1, 2}
  Charges = {1, 2}
  Releases = {FALSE}
  MaxAttempts = 2
  MaxCharged = 2
SYMMETRY Symmetry
SPECIFICATION Spec
INVARIANTS
  HeldWorkIsReserved
PROPERTIES
  ClosedTasksStayClosed
  HeldRisesOnlyWithinTarget
