SPECIFICATION Spec
CONSTANTS
  Clients = {c1, c2}
  Reconnects = {c1, c2}
  Shown = {c1, c2}
  Helpers = {h1, h2}
  None = None
  Local = 1
  Protocol = 1
  Packages <- OnlySame
  Firsts <- Alone
  MaxSessions = 2
  MaxServers = 2
  MaxEvents = 1
  c1 = c1
  c2 = c2
  h1 = h1
  h2 = h2
  h3 = h3
PROPERTIES HardIsFinal
CHECK_DEADLOCK FALSE
