SPECIFICATION FairSpec
CONSTANTS
    m1 = m1  m2 = m2  d = d  a = a
    None = None  Empty = Empty  Closed = Closed
    Panes = {m1, m2, d}
    Managed = {m1, m2}
    Agents = {a}
    Codex = {a}
    Firsts <- Found
    Legacy = TRUE
    QueryFails = FALSE
    MaxSpent <- Fewer
    MaxEvents = 2
INVARIANTS TypeOK OwnOrInherited
PROPERTIES NothingForgotten LiveFilesKept PendingSettles
CHECK_DEADLOCK FALSE
