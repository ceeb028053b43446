# Formal models of template-worker's provisioning and maintenance scripts

This directory holds TLA+ models of the Python code under `src/`, the TLC
configurations that model-check them, and TLAPS proofs about them.

## The system

The repository's Python code falls into these parts:

| part | sources | what it does |
|---|---|---|
| Provisioner | `src/deploy/setup.py`, `src/deploy/docker/setup.py` | An operator runs one of these scripts to produce the configuration for a deployment. Each reads credentials from the environment or from prompts, generates random secrets, and writes four artifacts. The artifacts are the main config, the proxy's token mapping (`secrets*.json`), the gateway relay's config (`sandwich*.yaml`) and the object-storage identity (`s3.json`). |
| Events extraction | `src/deploy/events/events_extract.py` | A pure text transformation. |
| Backup migration | `src/devutils/migrate_nonencrypted_backups.py`, `find_encrypted.py` | Converts each legacy backup and registers it in `guild_templates_kv`. |
| Job owner migration | `src/devutils/helper_scripts/migration_job_owner_to_guild.py` | Rewrites `jobs.owner` row by row, then alters the table. |
| Guild data and permission inserts | `migrate_guild_data.py`, `add_perm.py`, `add_perm_override.py` | INSERTs into `guild_templates_kv`. |
| Bucket merge | `merge_guilds_to_single_bucket.py` | Copies every per-guild bucket's objects into one bucket under a prefixed key. |
| Listing, download and diagnostics | `all_buckets_list.py`, `single_bucket_list.py`, `download_backups.py`, `check_guild_count.py`, `proxytester.py` | Read-only calls to external services. |

Every part is a short script that an operator runs by hand, as often as
needed, against state that outlives the run: files on disk, the database
tables `jobs` and `guild_templates_kv`, and object-storage buckets. None of
them uses a transaction or a lock, so the questions worth a model checker
are what a crash between two statements, a rerun, or two scripts run one
after the other leave behind.

The two setup scripts write the same files and share a filesystem that
persists from one run to the next:

- `setup.py --docker` writes `config.docker.yaml` in the working directory
  and `s3.json` under `deploy/docker/seaweed/`;
- `docker/setup.py` writes those same two paths;
- both also write the token mapping and relay config into `./deploy/dockerconf`.

The four artifacts refer to one another:

- the main config and the relay config carry a synthetic bot token;
- the proxy's mapping maps that synthetic token to the real token;
- the relay uses the real token;
- both configs name the same OAuth client;
- s3-like storage should use the key pair that `s3.json` grants.

An environment works only if all of these links hold in the files on disk
together.

## Modules

| module | models |
|---|---|
| `Provisioner.tla` | both setup scripts and the persistent filesystem |
| `ProvisionerProofs.tla` | TLAPS proofs of every property of the passing Provisioner run |
| `BackupMigration.tla` | `migrate_nonencrypted_backups.py` and the scan it shares with `find_encrypted.py` |
| `JobOwnerMigration.tla` | `migration_job_owner_to_guild.py` |
| `JobTable.tla` | the abstract job table that the job owner migration implements |
| `JobOwnerMigrationProofs.tla` | TLAPS proofs of the job owner migration's invariants and of its refinement |
| `GuildKv.tla` | `migrate_guild_data.py`, `add_perm.py`, `add_perm_override.py` over one table |
| `BucketMerge.tla` | `merge_guilds_to_single_bucket.py` |
| `MergedBucket.tla` | the abstract merged bucket that the bucket merge implements |
| `BucketMergeProofs.tla` | TLAPS proofs of the bucket merge's invariants and of its refinement |
| `GuildKvProofs.tla` | TLAPS proofs of the three permission scripts' invariants |
| `BackupMigrationProofs.tla` | TLAPS proofs of the backup migration's invariants |
| `MC_*.tla` | the finite instances TLC checks |

### Provisioner: state

- `status`, `script`, `args` and `pc` record the current run:
  - `pc` indexes the script's straight-line step list `Order(script)`;
  - `SetupOrder` lists `setup.py`'s statements from line 26 to line 273;
  - `DockerOrder` lists `docker/setup.py`'s statements from line 9 to line 247.
- `vals` holds what `get_var` returned for each input.
- `run` counts the runs started. A secret is `<<call site, run>>`, because
  `secrets.token_urlsafe` never repeats. Base64 is the injective tag `B64`.
- `dirs` and `files` are the filesystem, which survives from one run to the
  next:
  - a file is `Absent`, `Torn` (truncated by `open(..., "w")` and not yet
    written) or the record of the fields that other artifacts refer to;
  - addresses are `<<directory, name>>` pairs computed exactly as lines 86-90
    of `setup.py` compute them.

### Provisioner: actions

| action | code |
|---|---|
| `Start(s, a)` | argparse and the mode check (`setup.py` 10-28). A bad combination exits at once. |
| `MakeDirs` | `setup.py` 30-33. `os.mkdir` of a path that does not exist. It fails if the parent is missing (`NoParent`). |
| `MakeDockerConf` | `docker/setup.py` 9. It raises on an existing directory. |
| `GetVar(v)` | `get_var`. The value comes from a set, non-empty environment variable, or else from a typed non-empty line. It is then stripped of spaces and newlines. |
| `Open(k)` / `Write(k)` | the two halves of every `with open(path, "w")` block. |
| `MakeSeaweedDir` | `setup.py` 241-242 and `docker/setup.py` 218-219. |
| `Crash` | the process dying at the current step: EOF or Ctrl-C at a prompt, a failed write, `exit(1)`. |

Rendering keeps only the fields that link artifacts, plus the mode-dependent
URLs. The missing f-prefix of `SEAWEED_DATA` (`setup.py` line 92) is modelled
as it behaves: the s3-like section carries `Placeholder(...)` values, not the
generated keys.

Left out, because no property concerns them:

- the root-user list formatting;
- `vapid_*` and `dp_secret`, which `setup.py` generates but never writes;
- the dead `if not value` branch after the prompt loop (lines 52-54), which
  no path can reach with an empty value.

### Backup migration (`BackupMigration.tla`)

State:

- `phase` and `run`: the current run, and how many have started.
- `queue`: the collected objects the loop has not taken. It is a set, because
  the script iterates a Python set in no defined order.
- `cur` and `step`: the backup being processed, and its next statement
  (convert, DELETE or INSERT).
- `local`: the converted files in the working directory.
- `kv`: the `guild_templates_kv` rows the script writes.

Objects are records of what the code reads:

- the bucket;
- the backup id and the timestamp that lines 79-80 split out of the key;
- whether the key ends in `.iblfile`;
- whether the header names the `aes256` encryptor;
- the object's place in the bucket's key-ordered listing.

| action | code |
|---|---|
| `Start` | the scan (lines 34-63): guild buckets only, one `list_objects_v2` page (`Listed`), the header test (`NonEncrypted`) |
| `Skip(o)` / `Take(o)` | the loop head (71-80) |
| `Convert` | the converter call and its exit-code check (84-97). On failure the output may be left torn. |
| `Delete` / `Insert` | the two autocommitted statements (100-108) |
| `Finish` | the loop ends |
| `Crash` | the process dies between two statements |

`FairSpec` adds weak fairness on `ScriptStep`, the script's own statements:
a live single process keeps executing. There is no fairness on `Start`
(the operator) or on `Crash`.

| run | cfg | expect | shows |
|---|---|---|---|
| backup_migration | `BackupMigration.cfg` | pass | `AtMostOneRowPerBackup`, `RowsOnlyForMigratable`, `CompletedRunRegistersScanned`, and `RunEnds` under `FairSpec` |
| backup_listing_limit | `BackupMigration_AllBackupsRegistered.cfg` | violation | with more keys in a bucket than one listing returns, a completed run misses a legacy backup (line 40 never paginates) |
| backup_output_collision | `BackupMigration_RegisteredFileIsOwnBackup.cfg` | violation | two guilds' backups with one timestamp share `antiraidbackup-{dt}.arb2`, so a row names another guild's backup (line 82) |

The instance has two guild buckets and a bucket without the prefix:

- guild g1 holds two legacy backups, with a non-backup file listed between
  them;
- guild g2 holds a legacy backup whose id and timestamp equal g1's first,
  and an encrypted backup.

`ListLimit` is 3, so every object is listed in the passing run; it is 2 in
the listing run, which cuts g1's last backup. With three runs, the passing
run reaches a rerun after a crash between DELETE and INSERT, a rerun after a
failed conversion, and a rerun after a completed run.

### Job owner migration (`JobOwnerMigration.tla`, `JobTable.tla`)

State:

- `owner`: each job's owner, as its `/`-separated segments.
- `column` and `fk`: the column's name and whether the foreign key exists.
- `phase`, `pending` and `run`: the current run, the fetched rows not yet
  processed, and how many runs have started.
- `orig`: a history variable holding the owners before the first run.

The loop takes the fetched rows in any order, as `SELECT` without
`ORDER BY` allows. `Migrate(j)` has three outcomes:

- a `u/` owner raises `ValueError`;
- an owner without `/` makes `split("/")[1]` raise `IndexError`;
- otherwise the row is UPDATEd, and the UPDATE commits at once.

`Rename` and `AddConstraint` are the two ALTERs. The foreign key fails
unless every row names a guild in `GuildTable`. `Crash` can strike between
any two statements, and `Start` fails at once once the column is renamed.

`JobTable` states what the script promises the table, and nothing of its
control:

- a row only goes from `g/<id>` to `<id>`;
- the column is renamed only when no row keeps a prefixed owner;
- the key is added once, on the renamed column, when every row names a
  guild.

`ImplementsJobTable == Table!Spec` is checked as a PROPERTY, under the
identity mapping on `owner`, `column` and `fk`. The script's control state
is hidden.

| run | cfg | expect | shows |
|---|---|---|---|
| job_owner_migration | `JobOwnerMigration.cfg` | pass | `ConstraintMeansMigrated`: the key exists only when every job holds its former guild's id, so no user's job is attached to a guild sharing the user's id. Also `ImplementsJobTable`. |
| job_owner_rerun | `JobOwnerMigration_RerunPossible.cfg` | violation | after a failure past the first UPDATE, every rerun fails (line 16), so the table needs fixing by hand |

The instance has two jobs whose owners range over every guild and user
owner of two ids, one of which is a guild. That gives all 16 starting
tables, and up to three runs.

### Guild permission rows (`GuildKv.tla`)

State:

- `kv`: the table's rows;
- `mphase` and `mpending`: the role migration's progress;
- `ops`: the number of script runs, which also keeps random ids fresh.

Actions:

- The migration's fetch, its per-entry INSERT, its end and its crash are
  actions of their own.
- A whole run of `add_perm.py` or `add_perm_override.py` is one action,
  `AddPerm` or `AddPermOverride`. Each draws one input per prompt, from
  valid values plus one invalid value per check the script makes. An
  invalid input ends at its early return and writes nothing.

The repository defines no unique key over `(guild_id, key, scopes)`, so the
model assumes none. The model therefore reaches two rows for one role:

- `add_perm` run twice for the same role;
- a rerun of the migration after it died.

Whether such rows are wrong depends on how the bot reads the table, and the
bot is not in this repository. No run claims either way.

| run | cfg | expect | shows |
|---|---|---|---|
| guild_kv | `GuildKv.cfg` | pass | `RowsWellFormed` and `MigrationCoversRoles` under any interleaving of four runs |

### Bucket merge (`BucketMerge.tla`)

State:

- `bq`, `cur` and `oq`: the paginated walk over buckets and objects;
- `merged`: the merged bucket, a set of (key, object) pairs that a copy
  overwrites;
- `store`: the source buckets, chosen at `Init` from every placement of the
  keys.

`CopyObject` has two outcomes: it fails the `..` assertion, or it copies to
`<id>/<key>`. The constant `Absent` stands for "no bucket being copied"; the
assumption `MergeConstants` says it is not a listed bucket.

`MergedBucket.tla` is what the script promises of the merged bucket, with
buckets, listings and runs left out: each guild owns a set of keys, and one
`Copy(g, k)` at a time adds an object of guild `g` whose key holds no `..`.
`Merged == INSTANCE MergedBucket WITH ...` maps the script's state onto it:

- `source[g]` is `store` of the bucket `antiraid.guild.<g>`;
- `copied` is the set of merged keys present, `{p[1] : p \in merged}`.

`ImplementsMergedBucket == Merged!Spec` is checked as a PROPERTY. It fails
if a copy skips the assert (mutant `CopyObjectNoAssert`), if an object lands
under another guild's key, or if an overwrite loses a key.

| run | cfg | expect | shows |
|---|---|---|---|
| bucket_merge | `BucketMerge.cfg` | pass | `MergedHoldsOwnObject`: no guild's object lands under another guild's key, across crashes and reruns. `CompletedMergeCopiesAll`: a run that walks every bucket has copied every guild object. `ImplementsMergedBucket`: every step is a `Copy` of `MergedBucket` or leaves the mapped state alone. |

## Provisioner runs

The Provisioner runs use `MC_Provisioner` with these bounds:

- one character plus the two stripped characters, and `MaxLen = 1`;
- three output paths: the default `dockerconf`, another path `alt`, and
  `nested`, whose parent is missing;
- one local storage path;
- `dockerconf` and the seaweed directory may pre-exist;
- `MaxRuns = 3` (2 in the violation runs).

Three runs are enough for every ordering of interest:

- a `setup` run overwriting a `docker_setup` run, and the reverse;
- a crashed run followed by a rerun;
- a mode error between two runs.

Every action fires in the passing run, and it visits 640,093 distinct states.
Deadlock is not checked (`CHECK_DEADLOCK FALSE`): the operator stops after
`MaxRuns` runs, and a state with a running script always has `Crash`
enabled, so no running state is stuck.

| run | cfg | expect | shows |
|---|---|---|---|
| provisioner_safety | `Provisioner.cfg` | pass | see below |
| relay_url | `Provisioner_RelayUrlMatchesMode.cfg` | violation | `sandwich_http_api` is a file name (`setup.py` line 89 overwrites `sandwich_url`) |
| prior_environment | `Provisioner_PriorEnvironmentPreserved.cfg` | violation | a second `setup.py` run in an output directory an earlier run wrote to truncates that run's files; the spec says the tool must refuse an existing output directory |
| resolved_nonempty | `Provisioner_ResolvedNonEmpty.cfg` | violation | `get_var` returns `""` for an input of spaces: it strips after the emptiness check |
| storage_keys | `Provisioner_StorageKeysMatchIdentity.cfg` | violation | in s3-like mode the main config holds `{s3_access_key}` literally, not the key `s3.json` grants |

The passing run checks:

- `TypeOK`.
- `CompletedRunConsistent`: when a run prints "Done!", the four artifacts at
  its paths exist and agree on every link above. This holds even though
  earlier runs, crashed or complete, of either script wrote to the same
  places.
- `WrittenStepsHold`: the inductive strengthening of the property above. It
  is checked here before it is proved.
- `InputsBeforeWrites`: no artifact of a run exists before all of that run's
  inputs have been read.
- `DockerSetupPreservesPrior`: `docker/setup.py` never changes a file an
  earlier run left. It writes outside the directory whose `mkdir` guards it,
  but every run that writes those files has created that directory first.
  This rests on `setup.py`'s mode check (lines 26-28): with it dropped,
  `setup.py --docker --output_path alt` writes `./config.docker.yaml`
  without creating `./deploy/dockerconf`, and a later `docker/setup.py`
  overwrites it. The mode check is not a property of its own: in the model
  it is `Start`'s guard, and a property about it alone would restate it.

Each of these properties has a mutant in `PROJECT.json`: a plausible bug in
the mapped code that TLC catches.

## Proofs

`ProvisionerProofs.tla` proves, for every value of the constants that
satisfies `ConstantsAssumption`:

- `TypeCorrect`: `Spec => []TypeOK`.
- `CompletedRunCorrect`: `Spec => []CompletedRunConsistent`.

The invariant is not inductive as it stands: a step in the middle of a run
knows nothing about the files written so far. The proof uses
`IInv == TypeOK /\ WrittenStepsHold`, which says:

1. a done run has passed its last line;
2. every artifact whose write line lies before `pc` still holds what this
   run rendered for it.

Each action preserves `IInv` because of four lemmas:

- `ReadsAndOpenBeforeWrite`: in both scripts every `get_var` and an
  artifact's own `open` come before that artifact's write. Therefore no later
  line changes what an already written artifact renders, or truncates it.
- `LocsInjective`: the four artifacts of one command line go to four distinct
  files.
- `RenderedUnchanged`: rendering depends only on script, arguments, inputs
  and run number.
- `EveryArtifactWritten`: both scripts write all four artifacts.

Together with `RenderedConsistent`, the links between what one run renders,
these give `IInv => CompletedRunConsistent`.

`JobOwnerMigrationProofs.tla` proves, for every set of jobs and ids, every
guild table and every number of runs (assumption `JobConstants`):

- `JobTypeCorrect`: `Spec => []TypeOK`.
- `ConstraintCorrect`: `Spec => []ConstraintMeansMigrated`.
- `Refinement`: `Spec => ImplementsJobTable`, which says the script
  implements `JobTable`.

All three rest on one inductive invariant,
`IInv == TypeOK /\ RowsTrackOrig /\ PhaseFacts`. TLC checks it on the
instance above before it is proved.

- `RowsTrackOrig`: each row holds its original owner, or the bare id of what
  was a guild owner. It is needed because `ConstraintMeansMigrated` speaks
  of the table before the first run, which no single step sees.
- `PhaseFacts`: what each phase knows of the table.
  - The loop and the rename run on the `owner` column.
  - Rows the loop has done, and all rows once it has ended, are bare ids.
  - In the constrain phase the key does not exist yet.
  - If the key exists, every row names a guild.

  It is needed because `Rename` and `AddConstraint` read nothing of the
  table: only the phase tells them the loop has finished.

Under `IInv`, the steps map to `JobTable` as follows (lemma `StepRefines`):

- an UPDATE is a `MigrateRow`, because lemma `OwnerShapes` makes a
  two-segment non-user owner a `g/` owner;
- `Rename` is a `RenameColumn`;
- a successful `AddConstraint` is an `AddForeignKey`;
- every other step leaves the table unchanged.

`ProvisionerProofs.tla` also proves the other three properties of the
passing Provisioner run, so every property that run checks is a theorem:

- `WrittenStepsInvariant`: `Spec => []WrittenStepsHold`. It follows directly
  from `IInv`.
- `InputsFirst`: `Spec => []InputsBeforeWrites`. The inductive invariant
  `InputsIInv` says three things:
  - no file is from a later run than the current one;
  - every `get_var` line the run has passed has returned a value;
  - once a file of the current run exists, the run has passed all its
    `get_var` lines.

  The step that matters is an `open` or `write`. Lemma `ReadsBeforeOpen`,
  with `ReadsAndOpenBeforeWrite`, puts every `get_var` line before it.
  `Start` increments the run number, so no file belongs to the new run. The
  proof needs the assumption `NoValAssumption`: the marker of "not read
  yet" is not a string.
- `DockerSetupPreservesPriorHolds`: `Spec => DockerSetupPreservesPrior`, an
  action property. The invariant `DockerIInv` says four things:
  - `docker/setup.py` runs with the argparse defaults;
  - a file exists at one of its four places (`DockerLocs`) only once
    `./deploy/dockerconf` exists;
  - a docker-mode run past its first line has that directory;
  - a `docker/setup.py` run past line 9 sees only its own files at those
    places.

  The argument rests on the lemmas `ModeOKInit` and `ModeOKStep`: a running
  script was started with a command line that passed the mode check, since
  only `Start` sets the command line. Only a docker-mode command line writes there (lemma
  `DockerLocsNeedDocker`: every other file name differs). The mode check
  (`ModeOK`) gives every docker-mode run the output path
  `./deploy/dockerconf`. That run makes the directory on its first line
  (lemma `FirstLines`). So when line 9's `os.mkdir` succeeds, none of the
  four files exists.

`BucketMergeProofs.tla` proves, for every set of guilds, buckets and keys and
every number of runs (assumption `MergeConstants`):

- `MergeTypeCorrect`: `Spec => []TypeOK`.
- `OwnObjectsOnly`: `Spec => []MergedHoldsOwnObject`.
- `CompletedMergeCorrect`: `Spec => []CompletedMergeCopiesAll`.
- `MergeRefinement`: `Spec => ImplementsMergedBucket`.

The inductive invariant adds `CopyProgress` to the three properties. During
a run:

- every guild bucket the outer loop has passed, other than the current one,
  is copied entirely;
- the current bucket is a guild bucket;
- its objects outside `oq` are copied.

`CompletedMergeCopiesAll` needs this because `Finish` sees only an empty
bucket queue. The key lemma is `GuildBucketNames`: the bucket name determines
the guild. It shows that the pair an overwrite removes is the pair it writes
back (lemma `CopyStep`). Under the invariant, a copy that passes the assert is
a `Copy` of `MergedBucket`, and every other step leaves `store` and `merged`
unchanged.

`GuildKvProofs.tla` proves `KvTypeCorrect`, `KvRowsWellFormed` and
`MigrationComplete` (`Spec => []MigrationCoversRoles`), for every
`guild_roles` table (assumption `GuildKvConstants`). The inductive invariant
adds `MigrationProgress`: while a migration runs, every entry it has taken off
its list has its row. Its lemma `RowsStay` holds because no script deletes a
row. A crashed run needs nothing, since a restart fetches every entry again.

`BackupMigrationProofs.tla` proves `BackupTypeCorrect`, `OneRowPerBackup`
(`AtMostOneRowPerBackup`), `OnlyMigratableRows` (`RowsOnlyForMigratable`) and
`CompletedRunCorrect` (`CompletedRunRegistersScanned`), for every storage
content, list limit and number of runs (assumption `BackupConstants`). The
inductive invariant adds four parts:

- `CurFacts`: the file being processed was collected by a live run.
- `queue \subseteq NonEncrypted`.
- `UniqueRows`:
  - no two rows share a guild and a key;
  - between line 100's DELETE and the INSERT, the current backup has no row.

  This is why a crash between the two statements cannot lead to a duplicate:
  the next run deletes again before it inserts.
- `ScanProgress`: during a run, each collected backup file is one of three
  things:
  - still queued;
  - registered;
  - sharing its guild and id with the file being processed.

  The third case is needed because the DELETE removes the row of an earlier
  object with the same guild and id.

The count in `AtMostOneRowPerBackup` (`Quantify`, a `Cardinality`) follows
from `UniqueRows` by lemma `AtMostOneElement`, which rests on `FS_Subset` and
`FS_Singleton` of `FiniteSetTheorems`. The proofs use only membership in the
scan's result (lemma `CollectedFacts`), never how many keys a listing page
returns. So they hold for every `ListLimit`.

Every inductive invariant above was first checked by TLC, as an invariant of
the run of its module, before it was proved.

The remaining properties are only model-checked:

- The violation runs. Each is a counterexample, not a theorem.
- `RunEnds`, and every other liveness question. Liveness needs `ENABLED` and
  fairness, which are out of TLAPS's reach. No fairness on the operator's
  input or reruns is justified by the code.

## Not modelled

- **Events extraction** (`events_extract.py`) is a one-pass scrape of a
  saved HTML table into Rust source text. It has no state: its control is a
  row loop whose errors all abort, a fixed exclusion list and one rename.
  Every property of it would restate a single line.
- **Listing, download and diagnostic scripts** are read-only calls to
  external services, or downloads to a local file. They are pure I/O.
- **The bot and the converter** are not in this repository. Both are only
  what the scripts see of them:
  - the converter either succeeds or fails, possibly leaving a torn file;
  - the tables have no constraint beyond what the scripts create.
- **An "atomic environment" abstraction of the Provisioner** (a run installs
  a whole consistent environment or leaves the old one) would not be
  implemented. The findings above show where it breaks. `CompletedRunConsistent`
  and its proof state the part that does hold.
