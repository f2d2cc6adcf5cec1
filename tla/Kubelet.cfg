SPECIFICATION FairSpec
CONSTANTS
  Container = {c1, c2}
  NoPod = NoPod
  QueueCap = 2
  MaxInFlight = 1
  Worlds <- AllWorlds
INVARIANTS
  NoInterference
  NoOrphans
PROPERTIES
  Recovers
  EndedStaysEnded
CHECK_DEADLOCK FALSE
