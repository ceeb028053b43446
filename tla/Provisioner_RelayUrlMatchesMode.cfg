CONSTANTS
    a = a
    sp = sp
    nl = nl
    dockerconf = dockerconf
    alt = alt
    nested = nested
    localfs = localfs
    Char <- MCCharLetters
    Space = sp
    Newline = nl
    MaxLen = 1
    OutPaths <- MCOutPaths
    DockerConf = dockerconf
    NoParent <- MCNoParent
    LocalPaths <- MCLocalPaths
    NoPath = NoPath
    PreexistingDirs <- MCPreexisting
    Unset = Unset
    NoVal = NoVal
    Absent = Absent
    MaxRuns = 2

SPECIFICATION Spec

\* The operator stops after MaxRuns runs; no state with a running script
\* is stuck, since Crash is always enabled there.
CHECK_DEADLOCK FALSE

INVARIANT
    RelayUrlMatchesMode
