SPECIFICATION Spec
CONSTANTS
  Railmuxes = {p1, p2, p3}
  None = None
  WindowOf <- Together
  Core = {F8, F9}
  Optional = {Tab}
  Hooks = {}
  Tokens = {t1, t2}
  MaxReloads = 0
  MaxFaults = 0
  RacingReload = FALSE
  Kills = TRUE
  PaneOutlives = FALSE
SYMMETRY TokenSymmetry
INVARIANTS ControllerServed
CHECK_DEADLOCK FALSE
