\* Two threads, nothing goes wrong.
CONSTANTS
  main = main
  worker = worker
  Threads <- MCThreads
  Main = main
  Free = Free
  NoMark = NoMark
  MaxSeq = 4
  MaxMishaps = 0
SPECIFICATION Spec
INVARIANT GapMeansRemoval
CHECK_DEADLOCK FALSE
