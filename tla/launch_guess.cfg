SPECIFICATION Spec
CONSTANTS
  Agents = {c, d}
  Codex = {}
  Owners = {p1}
  Ids = {x1, x2}
  CodexIds = {}
  MaxFaults = 0
  None = None
SYMMETRY OwnerSymmetry

INVARIANTS RightBinding
CHECK_DEADLOCK FALSE
