CONSTANTS
    g1 = g1
    g2 = g2
    other = other
    b1 = b1
    b2 = b2
    d1 = d1
    d2 = d2
    Guilds = {g1, g2}
    OtherBucket = other
    Backups = {b1, b2}
    Dts = {d1, d2}
    Objects <- MCObjects
    ListLimit = 2
    MaxRuns = 3
    Absent = Absent
    Torn = Torn

SPECIFICATION Spec

\* The operator stops after MaxRuns runs; the last run ends done or failed.
CHECK_DEADLOCK FALSE

INVARIANT
    AllBackupsRegistered
