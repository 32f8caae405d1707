CONSTANTS
  first = first
  again = again
  conflict = conflict
  other = other
  stale = stale
  r1 = r1
  r2 = r2
  a1 = a1
  a2 = a2
  Frames = {first, again, conflict, other}
  Requests = {r1, r2}
  Arguments = {a1, a2}
  RequestOf <- RequestsOfFrames
  ArgumentsOf <- ArgumentsOfFrames
  Mismatched <- MCMismatched
  HandoffMounted = TRUE
  Undigestible = TRUE
  NoArguments = NoArguments
  MaxFaults = 1
  MaxCalls = 4
SPECIFICATION FairSpec
CHECK_DEADLOCK FALSE
INVARIANTS
  LedgerTellsTheTruth
  ClosedRecordComplete
  FrameGetsItsOwnCall
PROPERTIES
  ClosedIsFinal
  ImplementsOnce
  AnsweredWhileRunnerLives
  CloseCompletes
