SPECIFICATION RequestSpec
CONSTANTS
  Hosts = {"h1", "h2"}
  Uri <- TwoUris
  Messages <- AppMessages
  Queries <- AppQueries
  Exporters <- OneExporter
  a1 = a1
  a2 = a2
  a3 = a3
  a4 = a4
  a5 = a5
  p1 = p1
  p2 = p2
  Arrays = {a1, a2, a3, a4}
  Readers = {p1}
  Nil = Nil
  NoSlice = NoSlice
  NoApp = NoApp
  Idle = Idle
SYMMETRY Symmetric
INVARIANTS
  RequestTypeOK
  AllInstancesCalled
  CalledOnce
  QueueFitsPool
  NoForeignRoutes
  NoCrash
PROPERTIES
  ImplementsRegistry
CHECK_DEADLOCK FALSE
