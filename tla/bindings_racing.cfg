SPECIFICATION Spec
CONSTANTS
  Railmuxes = {p1, p2}
  None = None
  WindowOf <- Apart
  Core = {F8, F9}
  Optional = {Tab}
  Hooks = {}
  Tokens = {t1, t2}
  MaxReloads = 1
  MaxFaults = 0
  RacingReload = TRUE
  Kills = FALSE
  PaneOutlives = FALSE
SYMMETRY TokenSymmetry
INVARIANTS NewestAuthority
CHECK_DEADLOCK FALSE
