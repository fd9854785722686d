SPECIFICATION Spec
CONSTANTS
  Files = {f1}
  Channels = {0}
  MapIds = {m1}
  DriverMaps = {}
  NoFile = NoFile
  Driver = Driver
  Free = Free
  NoMap = NoMap
  NoChannel = NoChannel
  ModesOf <- OneShots
  ShareMaps = FALSE
  StreamStartFails = FALSE
  ResetKeepsIrq = FALSE
  WaitExpires = TRUE
INVARIANTS CompletionIsReal
