CONSTANTS
  Jobs = {j1, j2}
  NoJob = NoJob
  MaxJobs = 1
  MaxLogLines = 2
  MaxPrinted = 3
  MaxInFlight = 1
SPECIFICATION FairSpec
INVARIANTS
  RunningIsPolled
  LogInOrder
  LogWithoutGap
  FinishedMeansSettled
PROPERTIES
  SettledIsNoticed
