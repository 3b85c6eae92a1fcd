SPECIFICATION Spec
CONSTANTS
  h1 = h1
  h2 = h2
  r1 = r1
  i1 = i1
  i2 = i2
  a = a
  b = b
  p24 = p24
  p32 = p32
  None = None
  Reps <- OneRep
  Inbounds <- TwoInbounds
  Ids <- TwoIds
  Handlers <- TwoHandlers
  Hosts <- ThreeHosts
  Server = 1
  Prefixes <- TwoPrefixes
  MaxRequests = 4
SYMMETRY Symmetry
INVARIANTS TypeOK AddressesDistinct ScopeAsAsked LimitsHaveStart
