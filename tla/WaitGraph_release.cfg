\* Three mailboxes: the shortest cycle on which indicate_deadlock skips a sender.
CONSTANTS
  Proc = {1, 2, 3}
  MAX_MAILBOXES = 3
  MAX_DEST = 1
SPECIFICATION WGSpec
PROPERTY DeadlockReleasesAll
CHECK_DEADLOCK FALSE
