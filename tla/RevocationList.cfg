SPECIFICATION FairSpec
CONSTANTS
  h1 = h1
  h2 = h2
  c1 = c1
  c2 = c2
  s1 = s1
  Handlers <- TwoHandlers
  Worker = worker
  Certs <- TwoCerts
  Strays <- OneStray
  None = none
  MaxRequests = 2
  MaxFaults = 1
INVARIANTS
  TypeOK
  RevokedStaysListed
PROPERTIES
  NodeListFollows
