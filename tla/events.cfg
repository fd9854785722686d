SPECIFICATION FairSpec
CONSTANTS
  Events = {e1, e2}
  Procs = {p1, p2}
  MaxRaises = 2
CHECK_DEADLOCK FALSE
INVARIANTS EventsNotLost EventsNotRepeated EventsAnnounced
PROPERTIES EventsDelivered
