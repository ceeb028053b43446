-------------------------- MODULE JobOwnerMigration --------------------------
(***************************************************************************)
(* src/devutils/helper_scripts/migration_job_owner_to_guild.py: rewrites   *)
(* every jobs.owner of the form "g/<guild id>" to the bare guild id, then  *)
(* renames the column to guild_id and adds a foreign key to guilds.  Every *)
(* statement commits on its own (no transaction), the process may die     *)
(* between any two, and the operator may run the script again.            *)
(*                                                                         *)
(* An owner is kept as the list of its "/"-separated segments: <<p, i>>    *)
(* for "p/i" and <<i>> for a bare id.                                     *)
(***************************************************************************)
EXTENDS Naturals, Sequences

CONSTANTS
    Jobs,        \* job ids
    Ids,         \* guild and user ids
    GuildTable,  \* the ids present in guilds.id
    MaxRuns      \* the number of runs the operator makes

ASSUME JobConstants ==
    /\ GuildTable \subseteq Ids
    /\ MaxRuns \in Nat

(* Owners before the migration: a guild ("g/") or a user ("u/") id.       *)
InitialOwners == {<<p, i>> : p \in {"g", "u"}, i \in Ids}

Owners == InitialOwners \cup {<<i>> : i \in Ids}

VARIABLES
    owner,    \* owner[j]: the value of job j's owner (later guild_id) column
    column,   \* the column's name: "owner" or "guild_id"
    fk,       \* whether the constraint fk_guild_id exists
    phase,    \* "idle", "loop", "rename", "constrain", "done" or "failed"
    pending,  \* the fetched jobs the loop has not processed yet
    run,      \* number of runs started
    orig      \* history: the owners before the first run

vars == <<owner, column, fk, phase, pending, run, orig>>

(* The operator starts the script.  Line 10: SELECT id, owner fails once  *)
(* the column has been renamed.                                           *)
Start ==
    /\ phase \in {"idle", "done", "failed"}
    /\ run < MaxRuns
    /\ run' = run + 1
    /\ \/ /\ column = "owner"
          /\ phase' = "loop"
          /\ pending' = Jobs
       \/ /\ column = "guild_id"
          /\ phase' = "failed"
          /\ UNCHANGED pending
    /\ UNCHANGED <<owner, column, fk, orig>>

(* Mutant of GuildIdOf: the id is taken from the first segment.           *)
GuildIdFirstSegment(o) == <<o[1]>>

(* Line 16: owner.split("/")[1].                                          *)
GuildIdOf(o) == <<o[2]>>

(* Mutant of UserOwned: the "u/" check of lines 13-14 is missing.         *)
UserOwnedUnchecked(o) == FALSE

(* Line 13: job["owner"].startswith("u/").                                *)
UserOwned(o) == Len(o) = 2 /\ o[1] = "u"

(* Lines 12-18, one iteration in the unspecified order of the fetch.  A   *)
(* user-owned job raises ValueError; an owner without "/" makes the       *)
(* split's [1] raise IndexError; otherwise the row is UPDATEd at once.    *)
Migrate(j) ==
    /\ phase = "loop"
    /\ j \in pending
    /\ \/ /\ UserOwned(owner[j])
          /\ phase' = "failed"
          /\ UNCHANGED <<owner, pending>>
       \/ /\ ~UserOwned(owner[j])
          /\ Len(owner[j]) < 2
          /\ phase' = "failed"
          /\ UNCHANGED <<owner, pending>>
       \/ /\ ~UserOwned(owner[j])
          /\ Len(owner[j]) >= 2
          /\ owner' = [owner EXCEPT ![j] = GuildIdOf(owner[j])]
          /\ pending' = pending \ {j}
          /\ UNCHANGED phase
    /\ UNCHANGED <<column, fk, run, orig>>

(* Mutant of EndLoop: the script moves on with fetched rows left.         *)
EndLoopEarly ==
    /\ phase = "loop"
    /\ phase' = "rename"
    /\ UNCHANGED <<owner, column, fk, pending, run, orig>>

(* The loop over the fetched rows is exhausted.                           *)
EndLoop ==
    /\ phase = "loop"
    /\ pending = {}
    /\ phase' = "rename"
    /\ UNCHANGED <<owner, column, fk, pending, run, orig>>

(* Line 21: ALTER TABLE jobs RENAME COLUMN owner TO guild_id.             *)
Rename ==
    /\ phase = "rename"
    /\ column' = "guild_id"
    /\ phase' = "constrain"
    /\ UNCHANGED <<owner, fk, pending, run, orig>>

(* Line 22: adding the foreign key checks every existing row against      *)
(* guilds, and raises if one has no guild.                                *)
AddConstraint ==
    /\ phase = "constrain"
    /\ \/ /\ \A j \in Jobs : owner[j] \in {<<g>> : g \in GuildTable}
          /\ fk' = TRUE
          /\ phase' = "done"
       \/ /\ \E j \in Jobs : owner[j] \notin {<<g>> : g \in GuildTable}
          /\ phase' = "failed"
          /\ UNCHANGED fk
    /\ UNCHANGED <<owner, column, pending, run, orig>>

(* The process dies between two statements.                               *)
Crash ==
    /\ phase \in {"loop", "rename", "constrain"}
    /\ phase' = "failed"
    /\ UNCHANGED <<owner, column, fk, pending, run, orig>>

Init ==
    /\ owner \in [Jobs -> InitialOwners]
    /\ orig = owner
    /\ column = "owner"
    /\ fk = FALSE
    /\ phase = "idle"
    /\ pending = {}
    /\ run = 0

Next ==
    \/ Start
    \/ \E j \in Jobs : Migrate(j)
    \/ EndLoop \/ Rename \/ AddConstraint \/ Crash

Spec == Init /\ [][Next]_vars

-----------------------------------------------------------------------------
(* Every variable has the type the script gives it.                       *)
TypeOK ==
    /\ owner \in [Jobs -> Owners]
    /\ column \in {"owner", "guild_id"}
    /\ fk \in BOOLEAN
    /\ phase \in {"idle", "loop", "rename", "constrain", "done", "failed"}
    /\ pending \subseteq Jobs
    /\ run \in 0..MaxRuns
    /\ orig \in [Jobs -> InitialOwners]

(* Once the foreign key exists, whatever runs failed or died before, the  *)
(* column is guild_id and every job holds the guild that owned it before  *)
(* the migration: no user-owned job was attached to a guild that happens  *)
(* to share the user's id.                                                *)
ConstraintMeansMigrated ==
    fk =>
        /\ column = "guild_id"
        /\ \A j \in Jobs : orig[j] = <<"g", owner[j][1]>>

(* After a failed run the operator can run the script again: the table   *)
(* still has its owner column, and every owner still has the "g/" or     *)
(* "u/" form the script parses.                                           *)
RerunPossible ==
    phase = "failed" =>
        /\ column = "owner"
        /\ \A j \in Jobs : owner[j] \in InitialOwners

(* The table as JobTable describes it: the script's own variables map to   *)
(* the abstract table unchanged, and its control state is hidden.          *)
Table == INSTANCE JobTable

(* Every step of every run of the script, including the failed, crashed   *)
(* and repeated ones, is a step JobTable allows or leaves the table as it *)
(* is: the script never migrates a user's job, never renames the column   *)
(* while a row is unmigrated, and adds the key only to a migrated table.  *)
ImplementsJobTable == Table!Spec

=============================================================================
