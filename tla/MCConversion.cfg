CONSTANTS
  Sources <- MCSources
  ModelName <- MCModelName
  Procedural = {"proc"}
  ScriptOutputs <- MCOutputs
  WithAi = TRUE
  Configs <- MCConfigs
  Flows <- MCFlows
  KeyOf <- MCKeyOf
  Requests <- MCRequests
  IdColumns <- MCIdColumns
  Surrogates = {}
  Null = Null
SPECIFICATION MCSpec
INVARIANTS
  PlanFollowsLineage
  GateCoversConversion
  ContractFitsModel
  RunsInOrder
  EmittedInOrder
  PassMeansSame
CHECK_DEADLOCK FALSE
