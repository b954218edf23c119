SPECIFICATION Spec

CONSTANTS
  w1 = w1
  w2 = w2
  k1 = k1
  k2 = k2
  k3 = k3
  k4 = k4
  k5 = k5
  NoKey = NoKey
  Workers <- TwoWorkers
  Keys <- FiveKeys
  MaxFallbackKeys = 1
  MaxReports <- OneEach
  MaxOutages = 1
  MaxFaults = 1

SYMMETRY Symmetry
VIEW FallbackView

INVARIANTS FallbackBounded

CHECK_DEADLOCK TRUE
