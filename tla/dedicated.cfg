SPECIFICATION LiveSpec
CONSTANTS
  Files = {f1}
  Channels = {0, 1, 2}
  MapIds = {m1, dm}
  DriverMaps = {dm}
  NoFile = NoFile
  Driver = Driver
  Free = Free
  NoMap = NoMap
  NoChannel = NoChannel
  ModesOf <- Dedicated
  ShareMaps = FALSE
  StreamStartFails = FALSE
  ResetKeepsIrq = TRUE
  WaitExpires = FALSE
INVARIANTS EngineOnLiveMapping EngineIsOwned CompletionIsReal FastMaskOnlyWhileStreaming CompletionNotLost WakeupNotLost
PROPERTIES CallsReturn ContractSpec
