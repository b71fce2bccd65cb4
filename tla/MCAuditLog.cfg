\* Two threads, crashes, failed writes and a changed file.
CONSTANTS
  main = main
  worker = worker
  Threads <- MCThreads
  Main = main
  Free = Free
  NoMark = NoMark
  MaxSeq = 4
  MaxMishaps = 3
SPECIFICATION Spec
INVARIANTS
  BrokenLinkHasFailedAppend
  MarkNeverAhead
  MarkIsLastWhenQuiet
  TearCostsAtMostOneEntry
PROPERTIES
  NoFalseMissingAlarm
  LossOfMarkedEntryNoticed
  NoticedLossLeavesScar
  ImplementsTrail
\* A server with no request to audit waits, and the bounds end every behaviour.
CHECK_DEADLOCK FALSE
