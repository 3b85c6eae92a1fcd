SPECIFICATION FairSpec
CONSTANTS
  p9443 = p9443
  p10443 = p10443
  p443 = p443
  Candidates <- TwoCandidates
  Https = p443
  None = none
  MaxTakes = 1
  MaxFaults = 1
  Files = 2
  InstallFails = TRUE
  MaxVersion = 2
  MaxFailures = 1
INVARIANTS
  TypeOK
  LocalRedirectIsCurrent
  RebootKeepsPath
PROPERTIES
  Recovers
  LaterVersionsLoaded
