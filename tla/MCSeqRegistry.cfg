CONSTANTS
    Threads = {t1, t2}
    Handles = {1, 2}
    Adapters = {a1}
    MaxCreates = 2
SPECIFICATION FairSpec
INVARIANTS
    NoUseAfterFree
    HoldersNeverWait
    BodiesExclusive
    AdapterRefs
    BoundIsMapped
PROPERTIES
    ErasedIsDeleted
