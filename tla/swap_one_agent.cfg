SPECIFICATION FairSpec
CONSTANTS
  Agents = {a1}
  Slots = {primary}
  Recoverers = {r1}
  None = None
  MaxPads = 3
  MaxInst = 2
  MaxTx = 2
  MaxFaults = 1
  MaxActs = 1
  Overlap = FALSE
  IdentityFaults = FALSE
INVARIANTS TypeOK AwayIsMarked NoDestructiveTarget
PROPERTIES NeverDestroyed StrandedReturns
CHECK_DEADLOCK FALSE
