SPECIFICATION FairSpec
CONSTANTS
  Rings <- SmallRings
  SeqMod = 4
  MaxDone = 5
  MaxVmas = 1
  MaxCarried = 1
INVARIANTS TypeOK  ProducedIsReal SyncedBeforePublished
PROPERTIES CatchesUp
