SPECIFICATION Spec
CONSTANTS
  Agents = {c}
  Codex = {c}
  Owners = {p1, p2}
  Ids = {x1, x2}
  CodexIds = {x1, x2}
  MaxFaults = 0
  None = None
SYMMETRY OwnerSymmetry

INVARIANTS OneWriter
CHECK_DEADLOCK FALSE
