CONSTANTS
    j1 = j1
    j2 = j2
    n1 = n1
    n2 = n2
    s1 = s1
    s2 = s2
    p1 = p1
    Job = {j1}
    Node = {n1}
    Supervisor = {s1, s2}
    Project = {p1}
    Global = Global
    None = None
    ProjectOf <- OneProject
    HomeNode <- AtHome
    Capable <- Everywhere
    Capacity <- One
    Deadline <- DeadlineTwo
    MaxAttempts = 2
    LeaseDuration = 1
    NodeTtl = 2
    RetryDelay = 0
    CircuitPeriod = 1
    MaxTime = 2
    MaxVersion = 5
    MaxCrashes = 1
    MaxCommands = 1
    Outcome = {"succeeded"}
    Operation = {"stop"}
SPECIFICATION Spec
SYMMETRY SupervisorSymmetry
INVARIANTS
    LaunchedOnce
    SingleOwner
    OutcomesAgree
PROPERTIES
    FlaggedNeverStarts
    CommittedRun
