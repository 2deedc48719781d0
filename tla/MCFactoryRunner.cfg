CONSTANTS
  Proc = {p1, p2}
  LastPos = 1
  MaxFaults = 2
SPECIFICATION Spec
SYMMETRY Symmetry
INVARIANTS
  TypeOK
  OneActor
  NoReplayAfterCrash
PROPERTIES
  KeepsJob
