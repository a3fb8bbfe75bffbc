CONSTANTS
    Pages = {p1, p2}
    Seqs = {s1}
    Prefixes = {q1, q2}
    TableEntries = 2
    MaxRef = 3
SPECIFICATION FairSpec
INVARIANTS
    RefcountLaw
    OnePlace
    NoStaleRows
    NoUnderflow
    SharedStats
    WritesExclusive
PROPERTIES
    SharedBytesFixed
    Leases
    InFlightReturns
