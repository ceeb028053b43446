--------------------------- MODULE BackupMigration ---------------------------
(***************************************************************************)
(* src/devutils/migrate_nonencrypted_backups.py: an operator runs it, as   *)
(* often as needed, to move every legacy (non-encrypted) guild backup in   *)
(* object storage to the new format and register it for the bot.          *)
(*                                                                         *)
(* A run first scans the guild buckets (lines 34-63): one list_objects_v2 *)
(* call per bucket, and a ranged read of each object's header to tell an  *)
(* encrypted backup from a legacy one; find_encrypted.py performs the same *)
(* scan.  The scan only reads, so it is one step.  The run then takes the *)
(* collected objects in the arbitrary order of a Python set (lines        *)
(* 71-108): for each backup file it runs the external converter, which    *)
(* writes a local file, and then, in two statements outside any           *)
(* transaction, deletes and inserts the backup's guild_templates_kv row.  *)
(* The process may die between any two statements, and a failed          *)
(* conversion raises.  Local files and table rows persist across runs.    *)
(***************************************************************************)
EXTENDS Naturals, FiniteSets, FiniteSetsExt

CONSTANTS
    Guilds,       \* guild ids; the bucket of guild g is "antiraid.guild.<g>"
    OtherBucket,  \* a bucket whose name lacks the "antiraid.guild." prefix
    Backups,      \* backup ids: the second segment of an object key
    Dts,          \* backup timestamps: the third segment of an object key
    Objects,      \* the objects in storage, as records of ObjectRec
    ListLimit,    \* the most keys one list_objects_v2 response returns
    MaxRuns,      \* the number of runs the operator makes
    Absent,       \* a local file that does not exist
    Torn          \* a local output the converter left half-written

(* What the code reads of an object: its bucket, the two key segments     *)
(* lines 79-80 split out, whether the key ends in ".iblfile", whether its *)
(* header names the aes256 encryptor, and its place in the bucket's       *)
(* listing, which is in key order.                                        *)
ObjectRec ==
    [bucket : Guilds \cup {OtherBucket}, backup : Backups, dt : Dts,
     ibl : BOOLEAN, enc : BOOLEAN, rank : Nat]

ASSUME BackupConstants ==
    /\ OtherBucket \notin Guilds
    /\ Objects \subseteq ObjectRec
    /\ \A o, p \in Objects : o.bucket = p.bucket /\ o.rank = p.rank => o = p
    /\ ListLimit \in Nat \ {0}
    /\ MaxRuns \in Nat

VARIABLES
    phase,   \* "idle", "migrate", "done" or "failed"
    queue,   \* the collected objects the loop has not taken yet
    cur,     \* the backup file the loop body is processing, or NoObject
    step,    \* the loop body's next statement: "convert", "delete", "insert"
    run,     \* number of runs started; ids of inserted rows are fresh per run
    local,   \* local[f]: the content of local file f, or Absent
    kv       \* the rows of guild_templates_kv this migration writes

vars == <<phase, queue, cur, step, run, local, kv>>

NoObject == [none |-> TRUE]

(***************************************************************************)
(* The scan.                                                               *)
(***************************************************************************)
(* list_objects_v2 without a continuation token returns the first         *)
(* ListLimit keys of the bucket.                                          *)
Listed(b) ==
    {o \in Objects : o.bucket = b /\
        Quantify(Objects, LAMBDA p : p.bucket = b /\ p.rank < o.rank) < ListLimit}

(* Lines 34-41: only buckets named "antiraid.guild.<id>" are searched.    *)
Scanned == UNION {Listed(g) : g \in Guilds}

(* find_encrypted.py lines 44-56 and migrate lines 48-59: the header's    *)
(* encryptor field is b"aes256$$$$$$$$$$".                                *)
FoundEncrypted == {o \in Scanned : o.enc}

(* Mutant of NonEncrypted: the encryptor test is left out.               *)
NonEncryptedAll == Scanned

(* Lines 60-61: every other listed object is collected.                   *)
NonEncrypted == Scanned \ FoundEncrypted

(***************************************************************************)
(* The migration loop.                                                     *)
(***************************************************************************)
(* Mutant of OutputPath: the file is named after the backup id.          *)
OutputPathById(o) == <<"antiraidbackup", o.backup>>

(* Line 82: the output file is named after the backup's timestamp only.   *)
OutputPath(o) == <<"antiraidbackup", o.dt>>

OutputPaths == {<<"antiraidbackup", d>> : d \in Dts}

(* What the converter writes for o: the backup of that guild and id.      *)
Converted(o) == [guild |-> o.bucket, backup |-> o.backup]

(* Lines 100-108: the row of key "migrated.<backupid>" in the guild.      *)
Row(o) == [guild |-> o.bucket, key |-> o.backup, file |-> OutputPath(o),
           id |-> <<run, o>>]

(* The operator starts the script; the scan reads storage and nothing     *)
(* else, so a run that dies during the scan is a run that fails at once.  *)
Start ==
    /\ phase \in {"idle", "done", "failed"}
    /\ run < MaxRuns
    /\ run' = run + 1
    /\ phase' = "migrate"
    /\ queue' = NonEncrypted
    /\ cur' = NoObject
    /\ step' = "convert"
    /\ UNCHANGED <<local, kv>>

(* Lines 71-74: an object whose key does not end in ".iblfile" is skipped. *)
Skip(o) ==
    /\ phase = "migrate" /\ cur = NoObject
    /\ o \in queue
    /\ ~o.ibl
    /\ queue' = queue \ {o}
    /\ UNCHANGED <<phase, cur, step, run, local, kv>>

(* Mutant of Take: the taken object stays in the set being iterated.     *)
TakeKeepsQueue(o) ==
    /\ phase = "migrate" /\ cur = NoObject
    /\ o \in queue
    /\ o.ibl
    /\ cur' = o
    /\ step' = "convert"
    /\ UNCHANGED <<phase, queue, run, local, kv>>

(* Lines 71-82: the loop takes the next backup file.                      *)
Take(o) ==
    /\ phase = "migrate" /\ cur = NoObject
    /\ o \in queue
    /\ o.ibl
    /\ queue' = queue \ {o}
    /\ cur' = o
    /\ step' = "convert"
    /\ UNCHANGED <<phase, run, local, kv>>

(* Lines 84-97: the converter writes the output file; a non-zero exit     *)
(* raises RuntimeError.  Whether a failed conversion has truncated its    *)
(* output is up to the external converter, so both outcomes are kept.    *)
Convert ==
    /\ phase = "migrate" /\ cur # NoObject /\ step = "convert"
    /\ \/ /\ local' = [local EXCEPT ![OutputPath(cur)] = Converted(cur)]
          /\ step' = "delete"
          /\ UNCHANGED <<phase, cur>>
       \/ /\ local' \in {local, [local EXCEPT ![OutputPath(cur)] = Torn]}
          /\ phase' = "failed"
          /\ cur' = NoObject
          /\ UNCHANGED step
    /\ UNCHANGED <<queue, run, kv>>

(* Mutant of Delete: the DELETE statement is missing.                     *)
DeleteMissing ==
    /\ phase = "migrate" /\ cur # NoObject /\ step = "delete"
    /\ step' = "insert"
    /\ UNCHANGED <<phase, queue, cur, run, local, kv>>

(* Line 100: DELETE the guild's "migrated.<backupid>" row.                *)
Delete ==
    /\ phase = "migrate" /\ cur # NoObject /\ step = "delete"
    /\ kv' = {r \in kv : ~(r.guild = cur.bucket /\ r.key = cur.backup)}
    /\ step' = "insert"
    /\ UNCHANGED <<phase, queue, cur, run, local>>

(* Lines 101-108: INSERT the row that points the bot at the output file.  *)
Insert ==
    /\ phase = "migrate" /\ cur # NoObject /\ step = "insert"
    /\ kv' = kv \cup {Row(cur)}
    /\ cur' = NoObject
    /\ step' = "convert"
    /\ UNCHANGED <<phase, queue, run, local>>

(* Mutant of Finish: the loop ends with objects left.                     *)
FinishEarly ==
    /\ phase = "migrate" /\ cur = NoObject
    /\ phase' = "done"
    /\ UNCHANGED <<queue, cur, step, run, local, kv>>

(* Line 111: the loop is exhausted and asyncio.run returns.               *)
Finish ==
    /\ phase = "migrate" /\ cur = NoObject /\ queue = {}
    /\ phase' = "done"
    /\ UNCHANGED <<queue, cur, step, run, local, kv>>

(* The process dies between two statements (a lost connection, Ctrl-C).  *)
Crash ==
    /\ phase = "migrate"
    /\ phase' = "failed"
    /\ cur' = NoObject
    /\ UNCHANGED <<queue, step, run, local, kv>>

Init ==
    /\ phase = "idle"
    /\ queue = {}
    /\ cur = NoObject
    /\ step = "convert"
    /\ run = 0
    /\ local = [f \in OutputPaths |-> Absent]
    /\ kv = {}

(* The statements of the script itself, which its single process runs one *)
(* after another while it is alive.                                       *)
ScriptStep ==
    \/ \E o \in Objects : Skip(o) \/ Take(o)
    \/ Convert \/ Delete \/ Insert \/ Finish

Next == Start \/ ScriptStep \/ Crash

Spec == Init /\ [][Next]_vars

(* A live process executes its next statement: weak fairness on the      *)
(* script's steps; none on the operator's restarts or on crashes.         *)
FairSpec == Spec /\ WF_vars(ScriptStep)

-----------------------------------------------------------------------------
(***************************************************************************)
(* Properties.                                                             *)
(***************************************************************************)
RowRec == [guild : Guilds, key : Backups, file : OutputPaths,
           id : (0..MaxRuns) \X Objects]

(* Every variable has the type the script gives it.                       *)
TypeOK ==
    /\ phase \in {"idle", "migrate", "done", "failed"}
    /\ queue \subseteq Objects
    /\ cur \in Objects \cup {NoObject}
    /\ step \in {"convert", "delete", "insert"}
    /\ run \in 0..MaxRuns
    /\ local \in [OutputPaths -> {Converted(o) : o \in Objects} \cup {Absent, Torn}]
    /\ kv \subseteq RowRec

(* A legacy backup the script should migrate: a ".iblfile" object in a    *)
(* guild bucket whose header is not the encrypted one.                    *)
Migratable(o) == o.bucket \in Guilds /\ o.ibl /\ ~o.enc

(* However runs are interleaved with crashes and failed conversions, a    *)
(* guild has at most one row per backup: each rerun deletes the row an    *)
(* earlier run inserted before it inserts its own.                        *)
AtMostOneRowPerBackup ==
    \A g \in Guilds, b \in Backups :
        Quantify(kv, LAMBDA r : r.guild = g /\ r.key = b) <= 1

(* Every row names a legacy backup of that guild, and the file the        *)
(* script converted it to: encrypted backups, other files and other       *)
(* buckets are never registered.                                          *)
RowsOnlyForMigratable ==
    \A r \in kv : \E o \in Objects :
        Migratable(o) /\ r.guild = o.bucket /\ r.key = o.backup
        /\ r.file = OutputPath(o)

(* A run that reaches the end of its loop has registered every legacy    *)
(* backup its scan collected.                                             *)
CompletedRunRegistersScanned ==
    phase = "done" =>
        \A o \in NonEncrypted : o.ibl =>
            \E r \in kv : r.guild = o.bucket /\ r.key = o.backup

(* Every run the operator starts eventually ends, completed or failed.    *)
RunEnds == (phase = "migrate") ~> (phase \in {"done", "failed"})

(* When a run completes, every legacy backup in storage is registered.    *)
AllBackupsRegistered ==
    phase = "done" =>
        \A o \in Objects : Migratable(o) =>
            \E r \in kv : r.guild = o.bucket /\ r.key = o.backup

(* The file a row points to, if it holds a converted backup, holds the   *)
(* backup that row registers.                                             *)
RegisteredFileIsOwnBackup ==
    \A r \in kv :
        local[r.file] \notin {Absent, Torn} =>
            local[r.file] = [guild |-> r.guild, backup |-> r.key]

=============================================================================
