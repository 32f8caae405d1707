CONSTANTS
  s1 = s1
  s2 = s2
  s3 = s3
  t1 = t1
  t2 = t2
  w1 = w1
  Starts = {s1, s2, s3}
  Submits = {t1}
  Wakes = {w1}
  Boot = Boot
  None = None
  Crowded = FALSE
  MaxCrashes = 1
  MaxFaults = 2
SPECIFICATION FairSpec
CHECK_DEADLOCK FALSE
INVARIANTS
  AnswersFollowALook
PROPERTIES
  RunSurvivesStarts
  EveryCallReturns
