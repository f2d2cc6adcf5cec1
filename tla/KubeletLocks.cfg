SPECIFICATION FairLocks
CONSTANTS
  PodCount = 3
  NotifyCap = 1
  InboxCap = 3
  MaxRelists = 1
  LockWorlds = {{"events"}, {"relists"}}
INVARIANTS
  CirclesNeedFullQueues
PROPERTIES
  ResyncFinishes
CHECK_DEADLOCK FALSE
