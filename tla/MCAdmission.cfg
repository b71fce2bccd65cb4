SPECIFICATION Spec
CONSTANTS
  Requests = {r1, r2, r3, r4}
  Clients = {c1, c2}
  NoClient = NoClient
  MAX_DB_CONNS = 3
  Reserved = 2
  MaxInFlight = 2
  Workers = 2
  AuthConfigured = TRUE
SYMMETRY Interchangeable
INVARIANTS
  SlotsExact
  WorkIsPaidFor
  ClientCapped
  OvershootBounded
PROPERTY
  RefusedOnlyByPeers
