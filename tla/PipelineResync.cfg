SPECIFICATION FairPipeline
CONSTANTS
  Store <- RSStores
  ChannelCap = 1
  QueueCap = 1
  ResyncPlaces = 1
  OnEvent <- RSOnEvent
  OnResync <- RSOnResync
  Burst = 0
  Relists = TRUE
PROPERTY
  HandlersReturn
CHECK_DEADLOCK FALSE
