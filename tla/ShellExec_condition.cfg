CONSTANTS
  Lines <- ConditionLines
  Aliases <- AliasesDef
  MAX_PARAMS = 18
  MaxLen = 9
  MaxText = 1
  MAX_FAULTS = 0
SPECIFICATION Spec
CHECK_DEADLOCK FALSE
PROPERTY ConditionFailed
