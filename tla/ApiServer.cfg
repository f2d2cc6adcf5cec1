SPECIFICATION MCSpec
CONSTANTS
  Spec0 = s0
  Specs = {s1, s2}
  Statuses = {t1, t2}
  None = None
  Absent = Absent
  MaxInFlight = 2
  MaxCreates = 2
  MaxRequests = 3
  Node = {n1, n2}
  NewAddr = n3
  Extra = {x1}
  Label0 = l0
  Label = {l1, l2}
  Slot = {h1}
  NodeWorlds <- NodesOnce
INVARIANTS
  LabelsKept
  NodesAreScraped
PROPERTIES
  UndoneOnlyInARace
CHECK_DEADLOCK FALSE
