SPECIFICATION Spec
CONSTANTS
  Channels = {0, 1}
  TableSize = 3
  Pages = {p1, p2, p3}
  Workloads <- NeverReturning
  MaxPages = 4
  NoChannel = NoChannel
  NoPage = NoPage
  Intact = Intact
  Garbled = Garbled
INVARIANTS TypeOK TranslationRight NoSlotLeaks
SYMMETRY PageSymmetry
