SPECIFICATION FairSpec

CONSTANTS
  StreamsA = {a1, a2}
  StreamsB = {b1}
  Keys = {k1}

INVARIANTS
  NoClusterOrphan
  DrainedExitClean
  NoticeBeforeCut

PROPERTIES
  ProcessExits
