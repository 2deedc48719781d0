CONSTANTS
  Agent = {a1, a2}
  Role = {global, dev}
  Global = global
  Item = {x}
  MaxMergeAttempts = 1
  MaxCalls = 4
  MaxIncidents = 1
SPECIFICATION Spec
SYMMETRY Symmetry
INVARIANTS
  TypeOK
  VersionsIdentify
  GivesUpOnlyUnderContention
PROPERTY SavesKeepBoth
