CONSTANTS
  Agent = {a1, a2}
  Role = {global}
  Global = global
  Item = {x}
  MaxMergeAttempts = 1
  MaxCalls = 4
  MaxIncidents = 0
SPECIFICATION Spec
SYMMETRY Symmetry
PROPERTY NothingClobbered
