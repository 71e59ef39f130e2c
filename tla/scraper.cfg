SPECIFICATION Spec
CONSTANTS
  Scrapes = {s1, s2}
  MaxHops = 2
  None = None
INVARIANTS
  TypeOK
  HeldOnlyAfterBadStatus
  AnswerFromWholeResponse
PROPERTIES
  EveryConnectionReleased
  ImplementsContract
CHECK_DEADLOCK FALSE
