CONSTANTS
    w1 = w1
    w2 = w2
    w3 = w3
    t1 = t1
    t2 = t2
    t3 = t3
    p1 = p1
    p2 = p2
    codex = codex
    port = port
    Worker = {w1, w2, w3}
    Supervised = {w1, w3}
    Project = {p1, p2}
    ProjectOrder <- Projects
    Provider = {codex}
    ProviderLimit <- OneCall
    Builder <- Codex
    Evaluator <- Codex
    ResourcesOf <- Resources
    None = None
    MaxInProgress = 1
    MaxActiveWorkers = 2
    Task = {t1, t2, t3}
    TaskOf <- OwnTasks
    QueueOf <- ThreeQueues
    DependsOn <- AfterFirst
    FailureLimit = 2
    MaxSpec = 0
    MaxFaults = 1
    Proposed = {t3}
SPECIFICATION FairSpec
PROPERTIES
    WaitersServed
CHECK_DEADLOCK FALSE
