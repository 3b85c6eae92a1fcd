SPECIFICATION Spec
CONSTANTS
  Keys = {k1}
  Slots = {s1}
  Inodes = {i1, i2, i3}
  Torn = Torn
  None = None
  MaxCalls = 2
  MaxFaults = 1
INVARIANTS RestoredOnFailure
