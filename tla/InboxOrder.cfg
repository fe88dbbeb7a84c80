CONSTANTS
    p1 = p1
    p2 = p2
    w1 = w1
    w2 = w2
    Poller = {p1, p2}
    Writer = {w1, w2}
    None = None
    Persistence = "database"
    Target = {"running", "failed"}
    MaxEvents = 3
    MaxLost = 1
    MaxCrashes = 0
    MaxFound = 0
SPECIFICATION LiveSpec
INVARIANTS
    DrainedInOrder
PROPERTIES
    FlagKeptForGaps
    ReadsInOrder
    JournalDrains
