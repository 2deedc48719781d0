CONSTANTS
  Proc = {p1, p2}
  LastPos = 1
  MaxFaults = 1
SPECIFICATION Spec
SYMMETRY Symmetry
PROPERTY ExpiredNotReplayed
