SPECIFICATION Spec
CONSTANTS
  Files = {f1}
  Channels = {0, 1}
  MapIds = {m1}
  DriverMaps = {}
  NoFile = NoFile
  Driver = Driver
  Free = Free
  NoMap = NoMap
  NoChannel = NoChannel
  ModesOf <- Dedicated
  ShareMaps = TRUE
  StreamStartFails = FALSE
  ResetKeepsIrq = TRUE
  WaitExpires = FALSE
INVARIANTS EngineOnLiveMapping
