SPECIFICATION FairSpec
CONSTANTS
  NoHpa = NoHpa
  QueueCap = 2
  Sync = 1
  Horizon = 2
  Word = 64
  RoundedUp <- Excess
  MaxPods = 3
  Worlds <- AllWorlds
INVARIANTS
  StaysScheduled
  CarriesTheLoad
PROPERTIES
  RisesSlowly
  FallsSlowly
  SettlesOnMetrics
CHECK_DEADLOCK FALSE
