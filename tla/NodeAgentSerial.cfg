SPECIFICATION Spec
CONSTANTS
  Keys = {k1, k2}
  Slots = {s1}
  Inodes = {i1, i2, i3}
  Torn = Torn
  None = None
  MaxCalls = 4
  MaxFaults = 3
SYMMETRY KeySymmetry
INVARIANTS TypeOK Durable RevokedStaysOut
