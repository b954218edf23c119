CONSTANTS
  s1 = s1  s2 = s2  d1 = d1  d2 = d2  b1 = b1  b2 = b2  b3 = b3
  Streams = {s1}
  Domains = {d1}
  Buckets = {b1}
  Messages <- OneBucketMessages
  MaxBucketsPerStream = 0
  MaxReportsPerMessage = 0
  Abandonable = {}
  Overflowing = {}
  EngineMayFail = FALSE
  MayStall = {}
  MaxSwaps = 1
  NoDomain = NoDomain
  NoBucket = NoBucket
  BadBucket = BadBucket
  UnknownDomain = UnknownDomain
  NoStream = NoStream
SPECIFICATION Spec
INVARIANTS FreshAssignments
