SPECIFICATION Spec

CONSTANTS
  w1 = w1
  w2 = w2
  k1 = k1
  k2 = k2
  k3 = k3
  k4 = k4
  k5 = k5
  NoKey = NoKey
  Workers <- TwoWorkers
  Keys <- OneKey
  MaxFallbackKeys = 1
  MaxReports <- ThreeOfOne
  MaxOutages = 1
  MaxFaults = 0

SYMMETRY Symmetry

INVARIANTS NoSilentLoss

CHECK_DEADLOCK TRUE
