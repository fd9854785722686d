SPECIFICATION Spec
CONSTANTS
  Files = {f1}
  Channels = {0, 1}
  MapIds = {m1, dm}
  DriverMaps = {dm}
  NoFile = NoFile
  Driver = Driver
  Free = Free
  NoMap = NoMap
  NoChannel = NoChannel
  ModesOf <- OneMixed
  ShareMaps = FALSE
  StreamStartFails = TRUE
  ResetKeepsIrq = TRUE
  WaitExpires = TRUE
INVARIANTS TypeOK ActiveIsBusy MapOutlivesTransfer InterruptsComeBack
