SPECIFICATION Spec

CONSTANTS
  Binders = {b1, b2}
  Domains <- MCDomains
  Patterns <- MCPatterns
  BucketIds <- MCBucketIds
  Files <- MCFiles
  Envs <- MCEnvs
  EmptyPattern = EmptyPattern
  NoPattern = EmptyPattern
  Uncompilable = {BadPattern}
  UnknownDomain = UnknownDomain
  NoDomain = NoDomain
  Unset = Unset
  Garbled = Garbled
  DefaultTokens = 1
  DefaultInterval = 10
  DefaultDomains = 2
  Int64 = 64
  DefaultMaxDomains = 2
  Uint32 = 4
  Uint64 = 2
  DefaultKeyTTL = 60
  MaxSwaps = 1
  MaxMessages = 3

SYMMETRY Symmetry

INVARIANTS
  TypeOK
  CapRespected
  OneLabelPerDomain
  LabelsBounded
  StoreKeepsApart
  DebugListsDomain
  SettingsPrecedence
  UnmatchedUnaffected
  EarlierPoliciesWin
  LabelsFollowPolicies

CHECK_DEADLOCK TRUE
