SPECIFICATION Spec
SYMMETRY Symmetry
CONSTANTS
    Seqs = {s1, s2}
    Prefixes = {q1}
    PageCount = 6
    PagePositions = 2
    ContextCap = 5
    NumLayers = 2
    Budgets = {1, 2}
    WholeReserve = FALSE
    Saving = {}
    FailWithinToken = FALSE
    MaxFeed = 2
    NoToken = NoToken
    s1 = s1
    s2 = s2
    q1 = q1
INVARIANTS ReserveCovers ReservationWhole WithinLimit HiddenMatches
PROPERTY TextsKept
CHECK_DEADLOCK FALSE
