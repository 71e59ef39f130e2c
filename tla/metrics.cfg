SPECIFICATION Spec
CONSTANTS
  Workers = {w1, w2}
  RequestKinds <- SmallRequests
  Families = {"up"}
  None = None
INVARIANTS
  TypeOK
  WaitGroupExact
  NoLateWriter
  HeadersToInstancesOnly
  ResponseRight
PROPERTIES
  EveryRequestEnds
CHECK_DEADLOCK FALSE
