SPECIFICATION ServerlessSpec
CONSTANTS
  Fun = {f1, f2}
  SvcName <- ThreeNames
  Client = {u1, u2}
  Request = {r1, r2}
  Nothing = Nothing
  PollLimit = 1
  MaxReplicas = 2
  Worlds <- AllWorlds
PROPERTIES
  FunctionsComplete
  NothingLeftBehind
  BuildsEnd
  ActivationKeepsScale
CHECK_DEADLOCK FALSE
