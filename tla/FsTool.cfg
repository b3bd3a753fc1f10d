CONSTANTS
  Disks <- DisksDef
  NDZONES = 2
  NINDIRS = 2
  BLOCK_SIZE = 4
  BITS = 3
  NR_BUFS = 4
  NR_INODES = 4
  MaxReq = 2
  Proc = {1, 2}
  OPEN_MAX = 1
  NR_PROCS = 4
  DevLists <- DevListsDef
  ThisDev = "1"
  MaxArgs = 2
  ListDisks <- TreeDisks
SPECIFICATION ToolSpec
CHECK_DEADLOCK FALSE
INVARIANT ToolTypeOK
INVARIANT RunsAreVisits
INVARIANT BuffersReturned
PROPERTY ListsTheFile
PROPERTY TreeMeasured
PROPERTY ScanMeasuresAll
PROPERTY CallReturns
PROPERTY DevicesMeasuredOnce
