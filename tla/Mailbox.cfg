\* Permissions, ids outside the table, destruction, lists of two messages.
CONSTANTS
  Proc = {1, 2}
  MAX_MAILBOXES = 2
  MAX_DEST = 1
  MAX_SENDERS = 2
  MB_CAPACITY = 2
  Uid <- MCUid
  Gid <- MCUid
  Permissions = {{"EVERYONE"}, {"GROUP"}}
  BadIds <- MCBadIds
  MaxMsg = 3
SPECIFICATION Spec
INVARIANTS TypeOK PoolMatchesTable OwnersAreFound MailIsAuthorised
INVARIANTS QueueCounted NoMailBehindReceiver FifoOrder
PROPERTY KeepsPromise
CHECK_DEADLOCK FALSE
