SPECIFICATION Spec
CONSTANTS
  Railmuxes = {p1, p2}
  None = None
  WindowOf <- Apart
  Core = {F8, F9}
  Optional = {Tab}
  Hooks = {}
  Tokens = {t1, t2}
  MaxReloads = 1
  MaxFaults = 0
  RacingReload = FALSE
  Kills = TRUE
  PaneOutlives = TRUE
SYMMETRY TokenSymmetry
PROPERTIES RefusedForOthers
CHECK_DEADLOCK FALSE
