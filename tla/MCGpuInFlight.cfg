SPECIFICATION FairSpec
CONSTANTS
    Threads = {t1, t2, t3}
    Dedicated = {d1, d2}
    Pooled = {q1, q2}
    Batches <- SomeBatches
    NoWork = NoWork
    Parts = {1, 2}
    MaxFence = 4
    t1 = t1
    t2 = t2
    t3 = t3
    d1 = d1
    d2 = d2
    q1 = q1
    q2 = q2
INVARIANTS RecordingAlone ExecutingIsKept SubmittedHolds QuietAdmits
PROPERTIES SeatIsFree CallsReturn
CHECK_DEADLOCK FALSE
