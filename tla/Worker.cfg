CONSTANTS
    w1 = w1
    w2 = w2
    w3 = w3
    t1 = t1
    t2 = t2
    t3 = t3
    p1 = p1
    p2 = p2
    codex = codex
    port = port
    Worker = {w1, w2, w3}
    Supervised = {w1}
    Project = {p1, p2}
    ProjectOrder <- Projects
    Provider = {codex}
    ProviderLimit <- OneCall
    Builder <- Codex
    Evaluator <- Codex
    ResourcesOf <- Resources
    None = None
    MaxInProgress = 1
    MaxActiveWorkers = 2
    Task = {t1, t2}
    TaskOf <- Attempts
    QueueOf <- Queues
    DependsOn <- NoDependency
    FailureLimit = 1
    MaxSpec = 1
    MaxFaults = 2
    Proposed = {}
SPECIFICATION Spec
INVARIANTS
    HostLimits
    ClaimStands
PROPERTIES
    DoneMeansReviewed
CHECK_DEADLOCK FALSE
