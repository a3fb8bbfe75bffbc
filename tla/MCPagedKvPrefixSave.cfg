SPECIFICATION Spec
SYMMETRY Symmetry
CONSTANTS
    Seqs = {s1}
    Prefixes = {q1, q2}
    PageCount = 3
    PagePositions = 2
    ContextCap = 3
    NumLayers = 1
    Budgets = {2}
    WholeReserve = FALSE
    Saving = {q1, q2}
    FailWithinToken = FALSE
    MaxFeed = 1
    NoToken = NoToken
    s1 = s1
    q1 = q1
    q2 = q2
PROPERTY TextsKept
CHECK_DEADLOCK FALSE
