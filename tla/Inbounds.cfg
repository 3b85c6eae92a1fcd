SPECIFICATION FairSpec
CONSTANTS
  h1 = h1
  h2 = h2
  a = a
  b = b
  w0 = w0
  w1 = w1
  p51820 = p51820
  p443 = p443
  Handlers <- TwoHandlers
  Ids <- TwoIds
  Ifaces <- TwoIfaces
  Ports <- TwoPorts
  From = p51820
  To = p443
  None = none
  MaxRequests = 4
  MaxFaults = 1
INVARIANTS
  TypeOK
  PortsDistinct
PROPERTIES
  RequestsAnswered
  NodeFollowsRows
CHECK_DEADLOCK FALSE
