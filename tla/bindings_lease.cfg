SPECIFICATION Spec
CONSTANTS
  Railmuxes = {p1, p2}
  None = None
  WindowOf <- Apart
  Core = {F8, F9}
  Optional = {Tab}
  Hooks = {}
  Tokens = {t1, t2}
  MaxReloads = 2
  MaxFaults = 1
  RacingReload = FALSE
  Kills = TRUE
  PaneOutlives = TRUE
INVARIANTS TypeOK NewestAuthority NoOrphan ControllerServed
SYMMETRY TokenSymmetry
CHECK_DEADLOCK FALSE
