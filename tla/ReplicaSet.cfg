SPECIFICATION FairSpec
CONSTANTS
  Pod = {p1, p2, p3, p4}
  NoPod = NoPod
  NoRS = NoRS
  QueueCap = 2
  Worlds <- AllWorlds
INVARIANTS
  StaleCountIsNoticed
  NeverCrashes
PROPERTIES
  StepsTowardDesired
  SettlesInTheEnd
  ScalingsStand
CHECK_DEADLOCK FALSE
