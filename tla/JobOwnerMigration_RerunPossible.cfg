\* Two jobs whose owners range over every guild and user id, up to three
\* runs.  The operator stops after MaxRuns runs, so deadlock is not checked.
CONSTANTS
    j1 = j1
    j2 = j2
    i1 = i1
    i2 = i2
    Jobs <- MCJobs
    Ids <- MCIds
    GuildTable <- MCGuildTable
    MaxRuns = 2
SPECIFICATION Spec
CHECK_DEADLOCK FALSE
INVARIANT
    RerunPossible
