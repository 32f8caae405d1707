CONSTANTS
  r1 = r1
  r2 = r2
  r3 = r3
  o1 = o1
  o2 = o2
  a1 = a1
  a2 = a2
  None = None
  Requests = {r1, r2}
  Ids = {o1}
  Contents = {a1, a2}
  Limit = 2
  Chunks = 1
  MaxCrashes = 1
  MaxFaults = 1
SPECIFICATION FairSpec
INVARIANTS
  SlotsAreExact
  DurableIsReadable
PROPERTIES
  EveryReadReturns
