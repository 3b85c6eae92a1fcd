SPECIFICATION FairSpec
CONSTANTS
  c1 = c1
  c2 = c2
  k1 = k1
  k2 = k2
  Clients = {c1}
  Keys = {k1, k2}
  Holder <- SameClient
  Windows = {"day"}
  Limits <- AllLimits
  NoLimit = none
  WarningRatio = 50
  Expiring = {c1}
  MaxBytes = 2
  MaxRolls = 1
  MaxChanges = 1
  MaxFaults = 1
INVARIANTS
  TypeOK
  NeverOvercounted
  ExactUntilRestart
PROPERTIES
  TrafficCounted
  LimitEnforced
  Restored
