SPECIFICATION RequestSpec
CONSTANTS
  Hosts = {"h1", "h2"}
  Uri <- OneUri
  Messages <- OneHostMessages
  Queries <- NameQueries
  Exporters <- OneExporter
  a1 = a1
  a2 = a2
  a3 = a3
  a4 = a4
  a5 = a5
  p1 = p1
  p2 = p2
  Arrays = {a1, a2, a3}
  Readers = {p1}
  Nil = Nil
  NoSlice = NoSlice
  NoApp = NoApp
  Idle = Idle
SYMMETRY Symmetric
INVARIANT
  NoForeignRoutes
CHECK_DEADLOCK FALSE
