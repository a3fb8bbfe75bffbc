SPECIFICATION Spec
CONSTANTS
    Seqs = {s1}
    Prefixes = {q1}
    PageCount = 5
    PagePositions = 2
    ContextCap = 5
    NumLayers = 2
    Budgets = {2}
    WholeReserve = TRUE
    Saving = {s1}
    FailWithinToken = FALSE
    MaxFeed = 1
    NoToken = NoToken
    s1 = s1
    q1 = q1
INVARIANTS ReserveCovers
PROPERTY TextsKept
CHECK_DEADLOCK FALSE
