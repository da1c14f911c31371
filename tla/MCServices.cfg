CONSTANTS
  Transforms = {"j1", "j2"}
  Tables = {"a", "b", "c"}
  JobOf <- MCJobOf
  Workers = 2
  MaxAttempts = 2
  Known = {"j1"}
  Sessions = {1, 2, 3}
  Polls = {q1, q2}
  MaxSessions = 1
  Loads = {l1, l2}
  Files = {f1, f2}
  Calls <- MCCalls
  Deploys = {d1, d2}
  Pushes = {p1, p2}
  Checks = {c1, c2}
  Paths = {x1, x2}
  KindOf <- MCKindOf
  NoDeploy = NoDeploy
SPECIFICATION MCSpec
INVARIANTS
  LoneLoadIsExact
  OpenIsReported
  DuplicatesNeedOverlap
  PushedIsThere
PROPERTIES
  StaysSignedIn
  ConversionAnswers
  LoadAnswers
CHECK_DEADLOCK FALSE
