SPECIFICATION Spec
CONSTANTS
  Agents = {a1}
  Slots = {primary}
  Recoverers = {r1}
  None = None
  MaxPads = 2
  MaxInst = 1
  MaxTx = 1
  MaxFaults = 0
  MaxActs = 1
  Overlap = TRUE
  IdentityFaults = FALSE
PROPERTIES NeverDestroyed
CHECK_DEADLOCK FALSE
