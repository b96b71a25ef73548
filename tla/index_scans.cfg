SPECIFICATION IndexFairSpec
CONSTANTS
  Files = {f1, f2}
  MaxSerial = 3
  Transient = TRUE
  Wipes = TRUE
INVARIANTS IndexTypeOK NeverReappears
PROPERTIES WalkEvicts FenceSound Answered
CHECK_DEADLOCK FALSE
