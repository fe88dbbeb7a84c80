CONSTANTS
    h1 = h1
    h2 = h2
    k1 = k1
    k2 = k2
    Handler = {h1, h2}
    Key = {k1, k2}
    MaxChanges = 2
    MaxSpecs = 1
    MaxPlans = 2
    MaxPlanVersion = 2
    MaxRemedied = 3
    MaxVplans = 1
    MaxVerdicts = 1
    MaxReports = 3
SPECIFICATION Spec
SYMMETRY GoalSymmetry
INVARIANTS
    ReceiptsNameOnePlan
    ReportsWereVerified
PROPERTIES
    DecisionsStand
CHECK_DEADLOCK FALSE
