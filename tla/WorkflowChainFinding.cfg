CONSTANTS
  Sources <- MCSources
  ModelName <- MCModelName
  Procedural = {"proc"}
  ScriptOutputs <- MCOutputs
  WithAi = TRUE
  Configs <- MCConfigs
  Flows <- MCBackward
  KeyOf <- MCKeyOf
  Requests <- MCRequests
  IdColumns <- MCIdColumns
  Surrogates = {}
  Null = Null
SPECIFICATION MCSpec
INVARIANT ChainsRunInOrder
CHECK_DEADLOCK FALSE
