SPECIFICATION FairSpec
CONSTANTS
  Pod = {p1, p2, p3, p4}
  Node = {n1, n2}
  Unbound = Unbound
  Gone = Gone
  QueueCap = 2
  Word = 8
  Worlds <- AllWorlds
INVARIANTS
  CountsExact
  NoPodForgotten
PROPERTIES
  BoundOnce
  EventuallyBound
CHECK_DEADLOCK FALSE
