SPECIFICATION Spec
CONSTANTS
  Requests = {r1, r2, r3}
  Clients = {c1}
  NoClient = NoClient
  MAX_DB_CONNS = 2
  Reserved = 1
  MaxInFlight = 0
  Workers = 2
  AuthConfigured = TRUE
PROPERTY PermitsComeBack
