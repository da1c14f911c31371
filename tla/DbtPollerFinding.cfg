CONSTANTS
  Jobs = {j1}
  NoJob = NoJob
  MaxJobs = 1
  MaxLogLines = 2
  MaxPrinted = 3
  MaxInFlight = 1
SPECIFICATION Spec
INVARIANT LogDelivered
CHECK_DEADLOCK FALSE
