CONSTANTS
    owner = owner
    admin = admin
    p1 = p1
    p2 = p2
    k1 = k1
    k2 = k2
    i1 = i1
    i2 = i2
    c1 = c1
    c2 = c2
    s1 = s1
    s2 = s2
    r1 = r1
    r2 = r2
    log = log
    failure = failure
    d1 = d1
    d2 = d2
    builder = builder
    reviewer = reviewer
    q1 = q1
    q2 = q2
    Actor = {owner, admin}
    Founder = owner
    GlobalOperators = {owner}
    Site = {p1}
    GivenRole = {"project_admin", "operator"}
    TriedOperation = {"stop"}
    CommandKey = {k1}
    MaxBindings = 3
    MaxRequests = 2
    MaxControls = 2
    TransactionTtl = 1
    CookieAge = 2
    SessionTtl = 2
    MaxTime = 3
    MaxAttempts = 2
    MaxCallbacks = 3
    MaxProviderFaults = 1
    Issue = {i1, i2}
    Needs <- IssueNeeds
    Call = {c1, c2}
    ImportKey = {k1, k2}
    Process = {s1, s2}
    Runtime = 1
    MaxClock = 1
    MaxMoves = 7
    MaxExits = 1
    Run = {r1, r2}
    Kind = {log, failure}
    Content = {d1}
    Retention = {0, 1}
    Reviewer = {builder, reviewer}
    ReviewKey = {k1}
    MaxIngests = 2
    MaxReviews = 2
    MaxDays = 1
    Question = {q1}
    MaxRounds = 2
    MaxVersions = 2
    MaxAnswers = 3
    MaxPending = 2
    Key = {1, 2, 3}
    Claim <- SomeClaims
    Part = {"access", "signIn", "admission", "evidence", "clarification", "waves"}
SYMMETRY Symmetry
SPECIFICATION Spec
INVARIANTS
    AuthorityDescends
    ControlsAreTraced
    SessionsAreEarned
    RunsWereReady
    EvidenceStands
    DecisionsFollowAnswers
    WavesRespectThePlan
CHECK_DEADLOCK FALSE
