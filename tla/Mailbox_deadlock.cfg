\* Deposits to two destinations, the deadlock walks, and liveness.
CONSTANTS
  Proc = {1, 2}
  MAX_MAILBOXES = 2
  MAX_DEST = 2
  MAX_SENDERS = 1
  MB_CAPACITY = 1
  Uid <- MCUid
  Gid <- MCUid
  Permissions = {{"EVERYONE"}}
  BadIds = {}
  MaxMsg = 2
SPECIFICATION Spec
PROPERTIES WGSpec HandlerReturns
CHECK_DEADLOCK FALSE
