SPECIFICATION FairSpec
CONSTANTS
  h1 = h1
  h2 = h2
  k1 = k1
  Handlers <- TwoHandlers
  Keys <- OneKey
  MaxTasks = 2
  MaxRequests = 3
  MaxFaults = 1
  None = none
INVARIANTS
  TypeOK
  LocksInUse
  TokenOnce
  OneTaskPerKey
PROPERTIES
  Answered
  Settles
CHECK_DEADLOCK FALSE
