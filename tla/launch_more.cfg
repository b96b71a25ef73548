SPECIFICATION Spec
CONSTANTS
  Agents = {c}
  Codex = {c}
  Owners = {p1, p2, p3}
  Ids = {x1}
  CodexIds = {x1}
  MaxFaults = 1
  None = None
INVARIANTS ExactBinding
PROPERTIES NoSteal Forward
SYMMETRY OwnerSymmetry
CHECK_DEADLOCK FALSE
