\* One guild, two roles to migrate, one valid permission list and index,
\* and one bad value per prompt check; four script runs in all.  The
\* operators stop after MaxOps runs, so deadlock is not checked.
CONSTANTS
    g1 = g1
    k1 = k1
    k2 = k2
    p1 = p1
    x0 = x0
    Guilds = {g1}
    Keys = {k1, k2}
    Perms = {p1}
    Indexes = {x0}
    GuildRoles <- MCGuildRoles
    Blank = Blank
    NotJson = NotJson
    NotList = NotList
    NonStrItem = NonStrItem
    NotInt = NotInt
    MaxOps = 4
SPECIFICATION Spec
CHECK_DEADLOCK FALSE
INVARIANTS
    TypeOK
    RowsWellFormed
    MigrationCoversRoles
