\* Five addresses, a table of four, a bucket of two requests that takes four ticks to fill.
CONSTANTS
  a1 = a1
  a2 = a2
  a3 = a3
  a4 = a4
  a5 = a5
  Addresses <- MCAddresses
  Watched <- MCWatched
  Proxy = Proxy
  Blank = Blank
  Forged <- MCForged
  TrustProxy = TRUE
  MAX_KEYS = 4
  IDLE_SECS = 4
  RATE = 1
  CAP = 4
  COST = 2
  MaxTime = 5
SPECIFICATION Spec
SYMMETRY Interchangeable
INVARIANT RateHolds
PROPERTIES OnlyCrowdedOutForgiven PatienceIsEnough
