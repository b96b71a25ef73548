SPECIFICATION Spec
CONSTANTS
    p1 = p1  p2 = p2
    left = left  right = right
    Side = Side  Edge = Edge  Bar = Bar  None = None
    t1 = t1  t2 = t2  t3 = t3  t4 = t4  t5 = t5  Blank = Blank
    Panes = {p1, p2}
    Cells = {left, right}
    Texts = {t1, t2, t3, t4, t5, Blank}
    Layouts <- Pages
    FirstLayout <- Both
    Scrollbacks <- Various
    NewTexts = {t5, t2}
    Height = 3
    HotLines = 4
    InitialLines = 5
    PageLines = 1
    LoadAhead = 1
    HistoryLimit = 6
    CacheLimit = 1
    ScrollSteps = {1, 2}
    MaxIds = 4
    MaxUp = 2
    MaxDown = 1
    MaxSpent <- Few
    MaxEvents = 3
INVARIANTS RoutesAfterInput
PROPERTIES ClickOnly
CHECK_DEADLOCK FALSE
