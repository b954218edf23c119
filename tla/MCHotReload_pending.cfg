SPECIFICATION Spec

CONSTANTS
  r1 = r1
  r2 = r2
  e1 = e1
  e2 = e2
  withPolicies = withPolicies
  bad = bad
  Configs <- AllConfigs
  InitialConfig <- Start
  BadEngines = {bad}
  WithPolicies = {withPolicies, bad}
  Broken = Broken
  Missing = Missing
  Reloads <- OneReload
  MayReplace = FALSE
  MaxWrites = 2

INVARIANTS PendingKept

\* After shutdown, or a panic, nothing happens any more.
CHECK_DEADLOCK FALSE
