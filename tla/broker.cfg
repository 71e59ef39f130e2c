SPECIFICATION Spec
CONSTANTS
  Bindings = {1, 2, 3}
  AppOf <- TwoApps
  Endpoints = {e1, e2}
  Handlers = {h1, h2}
  Scrapes = {s1}
  None = None
INVARIANTS
  TypeOK
PROPERTIES
  EndpointIsRegular
SYMMETRY Interchangeable
