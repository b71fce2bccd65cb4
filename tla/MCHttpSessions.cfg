\* Two clients over a table of two sessions; the third session opened
\* finds the table full. Two revisions and two threads that take turns.
CONSTANTS
  Clients = {alice, bob}
  Nobody = nobody
  Ids = {s1, s2, s3}
  NoId = noid
  Workers = {w}
  BlockingThreads = {t1, t2}
  Revs = {v2025, v2026}
  NoRev = norev
  NoThread = nothread
  Oldest = v2025
  Latest = v2026
  Asked = {norev, v2025}
  Stated = {v2026}
  MAX_SESSIONS = 2

SPECIFICATION Spec
SYMMETRY Symmetric
CONSTRAINT OneTroubled

INVARIANTS
  TableBounded
  EndedStayEnded
  NoForeignContract
  ThreadsLeftClean
  RecordNamesItsCaller
PROPERTY
  ActiveLostOnlyWhenFull
