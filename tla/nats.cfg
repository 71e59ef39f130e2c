SPECIFICATION Spec
CONSTANTS
  MaxDrops = 3
  None = None
INVARIANTS
  TypeOK
  TickersExact
  AnnouncedWhenSettled
PROPERTIES
  EveryConnectionAnnounced
  ClosedEnds
CHECK_DEADLOCK FALSE
