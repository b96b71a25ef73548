SPECIFICATION Spec
CONSTANTS
    m1 = m1  m2 = m2  d = d  a = a
    None = None  Empty = Empty  Closed = Closed
    Panes = {m1, m2, d}
    Managed = {m1, m2}
    Agents = {a}
    Codex = {a}
    Firsts <- Found
    Legacy = TRUE
    QueryFails = FALSE
    MaxSpent <- Few
    MaxEvents = 3
PROPERTIES KeptUntilRestored
CHECK_DEADLOCK FALSE
