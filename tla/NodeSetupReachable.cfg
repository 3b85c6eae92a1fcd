SPECIFICATION Spec
CONSTANTS
  p9443 = p9443
  p10443 = p10443
  p443 = p443
  Candidates <- ThreeCandidates
  Https = p443
  None = none
  MaxTakes = 0
  MaxFaults = 0
  Files = 1
  InstallFails = FALSE
  MaxVersion = 0
  MaxFailures = 0
INVARIANT
  CheckedIsReachable
