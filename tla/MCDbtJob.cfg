CONSTANTS
  MaxLogLines = 2
  MaxPrinted = 3
  Jobs = {1, 2, 3, 4, 5}
  MaxJobs = 2
SPECIFICATION MCSpec
INVARIANTS
  CancelDecides
  SuccessMeansBuilt
  WorkerLeavesNothing
  RunningIsRegistered
PROPERTIES
  ImplementsRun
  NoStartAfterCancel
  TerminateEndsRun
  StartsBounded
