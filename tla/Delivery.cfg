CONSTANTS
    h1 = h1
    h2 = h2
    k1 = k1
    k2 = k2
    Handler = {h1, h2}
    Keys <- MCKeys
    MaxFaults = 1
    MaxOutside = 1
    MaxPulls = 2
SPECIFICATION LiveSpec
INVARIANTS
    MergedIsReviewed
    CandidateIsTrue
PROPERTIES
    LandingCompletes
CHECK_DEADLOCK FALSE
