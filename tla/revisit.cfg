SPECIFICATION Spec
CONSTANTS
  Channels = {0}
  TableSize = 4
  Pages = {p1, p2, p3}
  Workloads <- AllWorkloads
  MaxPages = 4
  NoChannel = NoChannel
  NoPage = NoPage
  Intact = Intact
  Garbled = Garbled
INVARIANTS TranslationRight
