SPECIFICATION FetcherSpec
CONSTANTS
  Hosts = {"h1", "h2"}
  Uri <- PlainUri
  Messages <- PlainMessages
  a1 = a1
  a2 = a2
  a3 = a3
  a4 = a4
  Arrays = {a1, a2, a3}
  Readers = {}
  Nil = Nil
  NoSlice = NoSlice
  NoApp = NoApp
  Idle = Idle
INVARIANTS
  FetcherTypeOK
  TableOK
PROPERTIES
  ImplementsRegistry
CHECK_DEADLOCK FALSE
