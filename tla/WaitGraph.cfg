\* Four mailboxes: cycles of one to four senders, one destination each.
CONSTANTS
  Proc = {1, 2}
  MAX_MAILBOXES = 4
  MAX_DEST = 1
SPECIFICATION WGSpec
INVARIANTS WGTypeOK NoWaitCycle WalkOnEveryCycle
PROPERTY WalkReturns
CHECK_DEADLOCK FALSE
