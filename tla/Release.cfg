CONSTANTS
    h1 = h1
    h2 = h2
    g1 = g1
    g2 = g2
    ev1 = ev1
    ev2 = ev2
    e1 = e1
    None = None
    Handler = {h1, h2}
    Gate = {g1}
    Evidence = {ev1, ev2}
    EventId = {e1}
    Hour = 1
    RequiredHours = 2
    MaxTime = 2
    MaxCanaryCommands = 6
    MaxReleaseCommands = 4
    MaxAttempts = 2
SPECIFICATION Spec
SYMMETRY ReleaseSymmetry
INVARIANTS
    PassedMeansObserved
    CommandOnce
    ApprovedIsAttested
CHECK_DEADLOCK FALSE
