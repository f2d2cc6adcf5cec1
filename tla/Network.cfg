SPECIFICATION Spec
CONSTANTS
  Svc = {s1, s2}
  Pod = {p1, p2}
  p1 = p1
  p2 = p2
  Ing = {g1}
  Addr = {a1, a2}
  Ip = {i1, i2}
  Port = {http, https}
  None = None
  NoIp = NoIp
  QueueCap = 4
  Worlds <- AllWorlds
INVARIANTS
  KernelServesStore
  ConfigFollowsStores
  WorksAtRest
PROPERTIES
  TrafficArrives
CHECK_DEADLOCK FALSE
