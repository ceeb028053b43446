------------------------ MODULE MC_JobOwnerMigration ------------------------
(* Two jobs, two ids of which only i1 is a guild in guilds.               *)
EXTENDS JobOwnerMigration

CONSTANTS j1, j2, i1, i2

MCJobs == {j1, j2}
MCIds == {i1, i2}
MCGuildTable == {i1}

=============================================================================
