\* Every placement of three keys in three buckets, up to three runs.  The
\* operator stops after MaxRuns runs, so deadlock is not checked.
CONSTANTS
    g1 = g1
    g2 = g2
    other = other
    k1 = k1
    k2 = k2
    kd = kd
    Guilds = {g1, g2}
    OtherBuckets = {other}
    Keys = {k1, k2, kd}
    DotDot = {kd}
    MaxRuns = 3
    Absent = Absent
SPECIFICATION Spec
CHECK_DEADLOCK FALSE
INVARIANTS
    TypeOK
    MergedHoldsOwnObject
    CompletedMergeCopiesAll
PROPERTIES
    ImplementsMergedBucket
