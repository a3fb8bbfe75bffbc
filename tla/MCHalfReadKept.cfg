SPECIFICATION Spec
CONSTANTS
    Seqs = {s1}
    Prefixes = {}
    PageCount = 3
    PagePositions = 2
    ContextCap = 3
    NumLayers = 2
    Budgets = {2}
    WholeReserve = FALSE
    Saving = {}
    FailWithinToken = TRUE
    MaxFeed = 2
    NoToken = NoToken
    s1 = s1
INVARIANTS HalfReadKept
CHECK_DEADLOCK FALSE
