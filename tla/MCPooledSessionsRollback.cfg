CONSTANTS
  Threads = {t1, t2}
  Conns = {c1, c2}
  NoConn = NoConn
SPECIFICATION Spec
SYMMETRY Interchangeable
INVARIANT RolledBackOnEveryExit
