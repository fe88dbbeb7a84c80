CONSTANTS
    p1 = p1
    p2 = p2
    Project = {p1, p2}
    Affordable <- MCAffordable
SPECIFICATION WorkbenchSpec
INVARIANTS
    CursorIsHonest
    CommandsFitTheTask
PROPERTIES
    WorkbenchCatchesUp
CHECK_DEADLOCK FALSE
