------------------------------- MODULE GuildKv -------------------------------
(***************************************************************************)
(* The three scripts that INSERT permission rows into guild_templates_kv: *)
(*   - src/devutils/migrate_guild_data.py copies every guild_roles entry, *)
(*     one INSERT per entry, each committed on its own;                   *)
(*   - src/devutils/add_perm.py and add_perm_override.py read one row's   *)
(*     fields at prompts, validate them and INSERT one row.               *)
(* Every row gets a fresh random id (secrets.token_hex), and the table has *)
(* no key over (guild_id, key, scopes) in this repository, so nothing but *)
(* the scripts' own checks stands between an input and a row.  Operators  *)
(* may run the scripts in any order and several times; the migration may  *)
(* die between two INSERTs.                                                *)
(***************************************************************************)
EXTENDS Naturals

CONSTANTS
    Guilds,      \* guild ids
    Keys,        \* role ids and member ids
    Perms,       \* valid permission lists (JSON lists of strings)
    Indexes,     \* integer role indexes
    GuildRoles,  \* the guild_roles table, as records of RoleRec
    Blank,       \* an input line of only whitespace
    NotJson,     \* a permissions input json.loads rejects
    NotList,     \* a JSON value that is not a list
    NonStrItem,  \* a JSON list with a non-string item
    NotInt,      \* an index input int() rejects
    MaxOps       \* the number of script runs the operators make

RoleRec == [guild : Guilds, role : Keys, perms : Perms, index : Indexes]

ASSUME GuildKvConstants ==
    /\ GuildRoles \subseteq RoleRec
    /\ MaxOps \in Nat

(* What can be typed at each prompt.                                       *)
GuildInputs == Guilds \cup {Blank}
KeyInputs == Keys \cup {Blank}
PermInputs == Perms \cup {NotJson, NotList, NonStrItem}
IndexInputs == Indexes \cup {Blank, NotInt}

PermScope == "builtins.guild_permissions"
OverrideScope == "builtins.guild_permissions.overrides"

VARIABLES
    kv,       \* the rows of guild_templates_kv these scripts write
    mphase,   \* the migration script: "idle", "running", "done" or "failed"
    mpending, \* the fetched guild_roles entries not inserted yet
    ops       \* script runs started; also makes every row id fresh

vars == <<kv, mphase, mpending, ops>>

(* Mutant of MigratedRow: the key is taken from the wrong column.          *)
MigratedRowKeyIsIndex(e) ==
    [guild |-> e.guild, key |-> e.index, scope |-> PermScope,
     value |-> [index |-> e.index, perms |-> e.perms], id |-> <<"automigrated", ops, e>>]

(* Lines 12-21 of migrate_guild_data.py: the row copied from entry e.      *)
MigratedRow(e) ==
    [guild |-> e.guild, key |-> e.role, scope |-> PermScope,
     value |-> [index |-> e.index, perms |-> e.perms], id |-> <<"automigrated", ops, e>>]

(* migrate_guild_data.py lines 6-8: fetch every guild_roles entry.         *)
StartMigration ==
    /\ mphase # "running"
    /\ ops < MaxOps
    /\ ops' = ops + 1
    /\ mphase' = "running"
    /\ mpending' = GuildRoles
    /\ UNCHANGED kv

(* Lines 10-21: one iteration of the loop inserts one entry's row.         *)
InsertRole(e) ==
    /\ mphase = "running"
    /\ e \in mpending
    /\ kv' = kv \cup {MigratedRow(e)}
    /\ mpending' = mpending \ {e}
    /\ UNCHANGED <<mphase, ops>>

(* Mutant of FinishMigration: the run ends with entries left.             *)
FinishMigrationEarly ==
    /\ mphase = "running"
    /\ mphase' = "done"
    /\ UNCHANGED <<kv, mpending, ops>>

(* Lines 23-25: the loop is exhausted.                                     *)
FinishMigration ==
    /\ mphase = "running"
    /\ mpending = {}
    /\ mphase' = "done"
    /\ UNCHANGED <<kv, mpending, ops>>

(* The migration dies between two INSERTs.                                 *)
CrashMigration ==
    /\ mphase = "running"
    /\ mphase' = "failed"
    /\ UNCHANGED <<kv, mpending, ops>>

(* Mutant of PermsValid: the isinstance(v, str) loop is missing.          *)
PermsValidListOnly(p) == p \in Perms \cup {NonStrItem}

(* add_perm.py lines 18-32: json.loads succeeds, the value is a list, and *)
(* every item is a string.                                                 *)
PermsValid(p) == p \in Perms

(* add_perm.py lines 34-43: the index is non-blank and an integer.         *)
IndexValid(i) == i \in Indexes

(* add_perm.py, a whole run: four prompts, each followed by its check and  *)
(* an early return; only input that passes all of them is INSERTed, with  *)
(* a fresh token_hex(32) id (lines 45-52).                                 *)
AddPerm(g, r, p, i) ==
    /\ ops < MaxOps
    /\ ops' = ops + 1
    /\ \/ /\ g # Blank /\ r # Blank /\ PermsValid(p) /\ IndexValid(i)
          /\ kv' = kv \cup {[guild |-> g, key |-> r, scope |-> PermScope,
                             value |-> [index |-> i, perms |-> p],
                             id |-> <<"add_perm", ops>>]}
       \/ /\ ~(g # Blank /\ r # Blank /\ PermsValid(p) /\ IndexValid(i))
          /\ UNCHANGED kv
    /\ UNCHANGED <<mphase, mpending>>

(* add_perm_override.py, a whole run: three prompts with the same checks  *)
(* (lines 8-32) and one INSERT of the bare list under the overrides scope *)
(* (lines 34-41).                                                          *)
AddPermOverride(g, m, p) ==
    /\ ops < MaxOps
    /\ ops' = ops + 1
    /\ \/ /\ g # Blank /\ m # Blank /\ PermsValid(p)
          /\ kv' = kv \cup {[guild |-> g, key |-> m, scope |-> OverrideScope,
                             value |-> p, id |-> <<"override", ops>>]}
       \/ /\ ~(g # Blank /\ m # Blank /\ PermsValid(p))
          /\ UNCHANGED kv
    /\ UNCHANGED <<mphase, mpending>>

Init ==
    /\ kv = {}
    /\ mphase = "idle"
    /\ mpending = {}
    /\ ops = 0

Next ==
    \/ StartMigration
    \/ \E e \in GuildRoles : InsertRole(e)
    \/ FinishMigration
    \/ CrashMigration
    \/ \E g \in GuildInputs, r \in KeyInputs, p \in PermInputs, i \in IndexInputs :
          AddPerm(g, r, p, i)
    \/ \E g \in GuildInputs, m \in KeyInputs, p \in PermInputs :
          AddPermOverride(g, m, p)

Spec == Init /\ [][Next]_vars

-----------------------------------------------------------------------------
(* Every variable has the type the scripts give it.                        *)
TypeOK ==
    /\ \A row \in kv :
          /\ row.guild \in GuildInputs /\ row.key \in KeyInputs
          /\ row.scope \in {PermScope, OverrideScope}
    /\ mphase \in {"idle", "running", "done", "failed"}
    /\ mpending \subseteq GuildRoles
    /\ ops \in 0..MaxOps

(* Every permission row the bot will read is well formed, whichever of    *)
(* the three scripts wrote it: its guild and key were not blank, its      *)
(* permissions are a list of strings, and a role row has an integer index. *)
RowsWellFormed ==
    \A row \in kv :
        /\ row.guild \in Guilds /\ row.key \in Keys
        /\ row.scope = PermScope =>
              row.value.perms \in Perms /\ row.value.index \in Indexes
        /\ row.scope = OverrideScope => row.value \in Perms

(* Once a migration run completes, every guild_roles entry has its row,   *)
(* with its index and permissions, even when earlier runs died part way   *)
(* and other scripts inserted rows in between.                            *)
MigrationCoversRoles ==
    mphase = "done" =>
        \A e \in GuildRoles : \E row \in kv :
            /\ row.guild = e.guild /\ row.key = e.role /\ row.scope = PermScope
            /\ row.value = [index |-> e.index, perms |-> e.perms]

=============================================================================
