CONSTANTS
  r1 = r1
  r2 = r2
  Runs <- TwoRuns
  NoRun = NoRun
  MaxConversions = 2
SPECIFICATION RunsOnly
INVARIANT OutcomesOfThisRun
CHECK_DEADLOCK FALSE
