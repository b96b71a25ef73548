SPECIFICATION Spec
CONSTANTS
  Agents = {a1, a2}
  Slots = {primary, secondary}
  Recoverers = {r1}
  None = None
  MaxPads = 2
  MaxInst = 1
  MaxTx = 2
  MaxFaults = 0
  MaxActs = 0
  Overlap = FALSE
  IdentityFaults = FALSE
INVARIANTS AwayIsKept
SYMMETRY Symmetry
CHECK_DEADLOCK FALSE
