CONSTANTS
  Proc = {p1}
  LastPos = 1
  MaxFaults = 2
SPECIFICATION FairSpec
PROPERTIES
  Settles
  Quiesces
