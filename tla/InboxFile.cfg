CONSTANTS
    p1 = p1
    p2 = p2
    w1 = w1
    w2 = w2
    Poller = {p1, p2}
    Writer = {w1}
    None = None
    Persistence = "file"
    Target = {"running", "failed", "none"}
    MaxEvents = 3
    MaxLost = 0
    MaxCrashes = 1
    MaxFound = 1
SPECIFICATION Spec
INVARIANTS
    FileNeverParks
