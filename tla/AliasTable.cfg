CONSTANTS
  Key <- KeyDef
  Val = {v1, v2}
  NoVal = NoVal
  MAX_OV = 2
SPECIFICATION TableSpec
CHECK_DEADLOCK FALSE
INVARIANT TableOK
INVARIANT HeldOnce
PROPERTY IsAMap
