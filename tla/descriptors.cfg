SPECIFICATION Spec
CONSTANTS
  Mappings <- SmallMappings
  Page = 2
  MaxTransfer = 4
  StreamDesc = 1
  StreamInterval = 2
  Modulus = 16
  SizeMod = 14
  MaxBytes = 14
  PerDescs = {0, 1, 2, 3, 4}
  Intervals = {0, 1, 2, 3}
  UserLists <- SmallLists
INVARIANTS TypeOK WritesInBounds CoversRequest ChainIsClosed InterruptsComplete ReasonableIsAccepted
