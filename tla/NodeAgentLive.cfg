SPECIFICATION FairSpec
CONSTANTS
  Keys = {k1}
  Slots = {s1, s2}
  Inodes = {i1, i2, i3, i4}
  Torn = Torn
  None = None
  MaxCalls = 1
  MaxFaults = 1
PROPERTIES Converges
