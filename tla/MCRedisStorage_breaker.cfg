SPECIFICATION FairSpec

CONSTANTS
  w1 = w1
  w2 = w2
  k1 = k1
  k2 = k2
  k3 = k3
  k4 = k4
  k5 = k5
  NoKey = NoKey
  Workers <- TwoWorkers
  Keys <- TwoKeys
  MaxFallbackKeys = 1
  MaxReports <- OneOfTwo
  MaxOutages = 1
  MaxFaults = 1

INVARIANTS TypeOK Accounted NoStaleFallback NoImmortalKey
PROPERTIES BreakerCloses

CHECK_DEADLOCK TRUE
