CONSTANTS
  r1 = r1
  r2 = r2
  Runs <- TwoRuns
  NoRun = NoRun
  MaxConversions = 2
SPECIFICATION Spec
INVARIANT BuildIsReviewed
CHECK_DEADLOCK FALSE
