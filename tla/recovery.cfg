SPECIFICATION Spec
CONSTANTS
  Writes = {w0, w1}
  Existing = {w0}
  Servers = {s1}
  Codes = {1, 2}
  Versions = {v1, v2}
  KeyVersions = {k1, k2}
  MaxCommands = 2
  MaxFailures = 1
SYMMETRY Symmetry
INVARIANTS
  CopiesWhole
  Survives
  SwitchWhole
  RestoredWhole
CHECK_DEADLOCK FALSE
