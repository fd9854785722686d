SPECIFICATION FairSpec
CONSTANTS
  Devs = {d1}
  Minors = {0}
  Files = {f1, f2}
  MaxVmas = 2
  Races = {}
  NoDev = NoDev
  NoFile = NoFile
  NoMinor = NoMinor
  Driver = Driver
  Lost = Lost
CHECK_DEADLOCK FALSE
INVARIANTS TypeOK MemoryOutlivesUsers QuietWhenUnplugged OnlyCloseMeetsRemoval StreamStateCounted NothingLeaks
PROPERTIES TeardownEnds
