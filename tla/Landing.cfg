CONSTANTS
    r1 = r1
    r2 = r2
    t1 = t1
    s1 = s1
    s2 = s2
    Run = {r1, r2}
    Task = {t1}
    TaskOf <- SameTask
    Supervisor = {s1, s2}
    None = None
    PushRequired = TRUE
    MaxInProgress = 2
    MaxFaults = 2
SPECIFICATION Spec
SYMMETRY SupervisorSymmetry
INVARIANTS
    LandedOnce
    LedgerTellsTheTruth
    RestartFinishesLandings
PROPERTIES
    Refines
CHECK_DEADLOCK FALSE
