CONSTANT Input <- FourModels
SPECIFICATION OrderSpec
INVARIANTS
  DependenciesFirst
  CycleIsExact
  NothingLost
PROPERTY SortEnds
CHECK_DEADLOCK FALSE
