CONSTANTS
  Proc = {1, 2}
  MAX_MAILBOXES = 2
  MAX_DEST = 1
  MAX_SENDERS = 2
  MB_CAPACITY = 1
  Uid <- MCUid
  Gid <- MCUid
  Permissions = {{"EVERYONE"}}
  BadIds = {}
  MaxMsg = 3
SPECIFICATION Spec
INVARIANT BlockedOnlyWhileFull
CHECK_DEADLOCK FALSE
