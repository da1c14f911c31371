CONSTANTS
  Input <- FourModels
  MaxRepairs = 1
  NotACreate = NotACreate
  AIKeepsTarget = TRUE
SPECIFICATION FindingSpec
INVARIANT UpstreamProcessed
CHECK_DEADLOCK FALSE
