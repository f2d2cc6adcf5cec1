SPECIFICATION FairSpec
CONSTANTS
  Key = {k1, k2}
  Content = {a, b}
  Absent = Absent
  NotifyCap = 2
  ResyncCap = 1
  MaxRev = 3
  MaxFaults = 2
INVARIANTS
  SyncInv
  HandlersCanFollow
PROPERTIES
  MirrorsEtcd
  EventuallySettled
CHECK_DEADLOCK FALSE
