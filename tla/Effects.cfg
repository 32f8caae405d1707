CONSTANTS
  o1 = o1
  d1 = d1
  d2 = d2
  None = None
  MaxCalls = 3
  Operations = {o1}
  Digests = {d1, d2}
  Straggling = FALSE
  MaxCrashes = 1
  MaxFaults = 1
SPECIFICATION Spec
CHECK_DEADLOCK FALSE
INVARIANTS
  SentOnce
  RowTellsTheTruth
PROPERTIES
  AnswersAreTrue
