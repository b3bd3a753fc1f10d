CONSTANTS
  Key <- KeyDef
  Val = {"v1", "v2"}
  NoVal = "none"
  MAX_OV = 1
  Profiles <- ProfilesDef
  AliasFiles <- AliasFilesDef
  MAX_JOBS = 2
  MAX_PROCS = 2
  MAX_INTS = 1
  MAX_SHELLS = 1
SPECIFICATION Spec
CHECK_DEADLOCK FALSE
PROPERTY ForegroundEnded
