CONSTANTS
  s1 = s1  s2 = s2  d1 = d1  d2 = d2  b1 = b1  b2 = b2  b3 = b3
  Streams = {s1, s2}
  Domains = {d1, d2}
  Buckets = {b1, b2, b3}
  Messages <- MCMessages
  MaxBucketsPerStream = 2
  MaxReportsPerMessage = 2
  Abandonable = {b1}
  Overflowing = {d2}
  EngineMayFail = TRUE
  MayStall = {}
  MaxSwaps = 0
  NoDomain = NoDomain
  NoBucket = NoBucket
  BadBucket = BadBucket
  UnknownDomain = UnknownDomain
  NoStream = NoStream
SPECIFICATION Spec
INVARIANTS TypeOK RefCountExact NoOrphanedState GaugeExact SubscriptionLimit
PROPERTIES ImplementsLifecycle
SYMMETRY StreamSymmetry
