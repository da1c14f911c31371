CONSTANTS
  Input <- ThreeModels
  MaxRepairs = 1
  NotACreate = NotACreate
  AIKeepsTarget = TRUE
SPECIFICATION MCSpec
INVARIANTS
  BuiltOnBuilt
  SuccessIsPopulated
  OnlyGuardedRuns
  LossIsReported
PROPERTIES
  BuildAnswers
  ImplementsRequest
CHECK_DEADLOCK FALSE
