SPECIFICATION FairSpec
CONSTANTS
  Devs = {d1}
  Minors = {0}
  Files = {f1}
  MaxVmas = 1
  Races = {}
  NoDev = NoDev
  NoFile = NoFile
  NoMinor = NoMinor
  Driver = Driver
  Lost = Lost
CHECK_DEADLOCK FALSE
PROPERTIES RemovalResetsDma
