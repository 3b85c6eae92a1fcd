SPECIFICATION FairSpec
CONSTANTS
  c1 = c1
  c2 = c2
  Clients = {c1}
  Keys = {k1, k2}
  Requests = {r1, r2}
  Worker = worker
  None = none
  Metered = {c1}
  Expiring = {c1}
  MaxRequests = 2
  MaxFaults = 1
INVARIANTS
  TypeOK
  OneLiveCredential
  NoOrphanCredential
PROPERTIES
  ImplementsLedger
  RequestsAnswered
  KeysCutOff
  KeysServed
  NodeRecovers
