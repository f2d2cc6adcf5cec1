SPECIFICATION FairLocks
CONSTANTS
  PodCount = 1
  NotifyCap = 1
  InboxCap = 2
  MaxRelists = 1
  LockWorlds = {{"events", "relists"}}
PROPERTY
  ResyncFinishes
CHECK_DEADLOCK FALSE
