------------------------ MODULE BackupMigrationProofs ------------------------
(***************************************************************************)
(* Proofs, for every set of guilds, objects and list limits and every     *)
(* number of runs, that the backup migration keeps its types, registers   *)
(* only legacy backups, never leaves two rows for one backup, and has     *)
(* registered every collected backup when a run completes.                *)
(***************************************************************************)
EXTENDS BackupMigration, FiniteSetTheorems, TLAPS

(* Backup o of its guild has a row in guild_templates_kv.                  *)
Registered(o) == \E r \in kv : r.guild = o.bucket /\ r.key = o.backup

(* The file the loop body holds: taken by a live run from the collected   *)
(* backup files.                                                           *)
CurFacts ==
    cur # NoObject => phase = "migrate" /\ cur \in NonEncrypted /\ cur.ibl

(* No two rows share a guild and a key, and between line 100's DELETE and *)
(* the INSERT of lines 101-108 the current backup has no row.             *)
UniqueRows ==
    /\ \A r1, r2 \in kv : r1.guild = r2.guild /\ r1.key = r2.key => r1 = r2
    /\ cur # NoObject /\ step = "insert" => ~Registered(cur)

(* While a run is live, each collected backup file is still queued, is    *)
(* registered, or shares its guild and id with the file being processed. *)
ScanProgress ==
    phase = "migrate" =>
        \A o \in NonEncrypted : o.ibl =>
            \/ o \in queue
            \/ Registered(o)
            \/ cur # NoObject /\ cur.bucket = o.bucket /\ cur.backup = o.backup

IInv ==
    /\ TypeOK
    /\ CurFacts
    /\ queue \subseteq NonEncrypted
    /\ RowsOnlyForMigratable
    /\ UniqueRows
    /\ ScanProgress
    /\ CompletedRunRegistersScanned

(* What the scan collects: objects of guild buckets whose header is not  *)
(* the encrypted one.  Only membership is used, not how many keys a      *)
(* listing page returns.                                                   *)
LEMMA CollectedFacts ==
    ASSUME NEW o \in NonEncrypted
    PROVE  o \in Objects /\ o.bucket \in Guilds /\ ~o.enc
BY DEF NonEncrypted, FoundEncrypted, Scanned, Listed

(* An object's fields have their types, and NoObject is not an object.   *)
LEMMA ObjectFacts ==
    ASSUME NEW o \in Objects
    PROVE  /\ o # NoObject
           /\ o.backup \in Backups
           /\ OutputPath(o) \in OutputPaths
           /\ Converted(o) \in {Converted(p) : p \in Objects}
<1>1. o \in ObjectRec
  BY BackupConstants
<1>2. DOMAIN o # DOMAIN NoObject
  BY <1>1 DEF ObjectRec, NoObject
<1>3. QED
  BY <1>1, <1>2 DEF ObjectRec, OutputPath, OutputPaths

(* A set none of whose elements differ has at most one element.          *)
LEMMA AtMostOneElement ==
    ASSUME NEW S, \A x, y \in S : x = y
    PROVE  Cardinality(S) <= 1
<1>1. CASE S = {}
  BY <1>1, FS_EmptySet
<1>2. CASE S # {}
  <2>1. PICK x \in S : TRUE
    BY <1>2
  <2>2. S \subseteq {x}
    OBVIOUS
  <2>3. IsFiniteSet({x}) /\ Cardinality({x}) = 1
    BY FS_Singleton
  <2>4. QED
    BY <2>2, <2>3, FS_Subset
<1>3. QED
  BY <1>1, <1>2

(* The first conjunct of UniqueRows is what AtMostOneRowPerBackup counts. *)
LEMMA UniqueRowsCount == UniqueRows => AtMostOneRowPerBackup
<1> SUFFICES ASSUME UniqueRows, NEW g \in Guilds, NEW b \in Backups
             PROVE  Cardinality({r \in kv : r.guild = g /\ r.key = b}) <= 1
  BY DEF AtMostOneRowPerBackup, Quantify
<1>1. \A x, y \in {r \in kv : r.guild = g /\ r.key = b} : x = y
  BY DEF UniqueRows
<1>2. QED
  BY <1>1, AtMostOneElement

LEMMA IInvInit == Init => IInv
<1> SUFFICES ASSUME Init PROVE IInv
  OBVIOUS
<1>1. TypeOK
  BY BackupConstants DEF Init, TypeOK
<1>2. QED
  BY <1>1 DEF Init, IInv, CurFacts, RowsOnlyForMigratable, UniqueRows,
              ScanProgress, CompletedRunRegistersScanned

(* Line 100's DELETE: every row it removes shares the current backup's   *)
(* guild and id, and afterwards the current backup has no row.            *)
LEMMA DeleteStep ==
    ASSUME IInv, Delete
    PROVE  IInv'
<1> USE DEF IInv
<1>1. kv' \subseteq kv /\ ~Registered(cur)'
  BY DEF Delete, Registered
<1>2. TypeOK'
  BY <1>1 DEF Delete, TypeOK
<1>3. RowsOnlyForMigratable' /\ UniqueRows'
  BY <1>1 DEF Delete, RowsOnlyForMigratable, UniqueRows
<1>4. ScanProgress'
  <2> SUFFICES ASSUME NEW o \in NonEncrypted, o.ibl, ~Registered(o)'
               PROVE  o \in queue \/ (cur.bucket = o.bucket /\ cur.backup = o.backup)
    BY DEF Delete, ScanProgress
  <2>1. CASE Registered(o)
    BY <2>1 DEF Delete, Registered
  <2>2. CASE ~Registered(o)
    BY <2>2 DEF Delete, ScanProgress
  <2>3. QED
    BY <2>1, <2>2
<1>5. QED
  BY <1>2, <1>3, <1>4 DEF Delete, CurFacts, CompletedRunRegistersScanned

(* Lines 101-108's INSERT: the new row registers the current backup,      *)
(* which is a legacy backup of its guild with no row yet.                 *)
LEMMA InsertStep ==
    ASSUME IInv, Insert
    PROVE  IInv'
<1> USE DEF IInv
<1>1. cur \in NonEncrypted /\ cur.ibl /\ phase = "migrate"
  BY DEF Insert, CurFacts
<1>2. cur \in Objects /\ cur.bucket \in Guilds /\ ~cur.enc
  BY <1>1, CollectedFacts
<1>3. Row(cur) \in RowRec
  BY <1>2, ObjectFacts DEF Row, RowRec, TypeOK
<1>4. kv' = kv \cup {Row(cur)} /\ cur' = NoObject
  BY DEF Insert
<1>5. TypeOK'
  BY <1>3, <1>4 DEF Insert, TypeOK
<1>6. RowsOnlyForMigratable'
  BY <1>1, <1>2, <1>4 DEF RowsOnlyForMigratable, Migratable, Row
<1>7. UniqueRows'
  <2>1. ~Registered(cur)
    BY DEF Insert, UniqueRows
  <2>2. QED
    BY <1>4, <2>1 DEF UniqueRows, Registered, Row
<1>8. ScanProgress'
  <2> SUFFICES ASSUME NEW o \in NonEncrypted, o.ibl, o \notin queue'
               PROVE  Registered(o)'
    BY <1>4 DEF Insert, ScanProgress
  <2>1. CASE Registered(o)
    BY <1>4, <2>1 DEF Registered
  <2>2. CASE cur.bucket = o.bucket /\ cur.backup = o.backup
    <3>1. Row(cur) \in kv' /\ Row(cur).guild = o.bucket /\ Row(cur).key = o.backup
      BY <1>4, <2>2 DEF Row
    <3>2. QED
      BY <3>1 DEF Registered
  <2>3. QED
    BY <1>1, <2>1, <2>2 DEF Insert, ScanProgress
<1>9. QED
  BY <1>4, <1>5, <1>6, <1>7, <1>8 DEF Insert, CurFacts, CompletedRunRegistersScanned

LEMMA IInvStep == IInv /\ [Next]_vars => IInv'
<1> SUFFICES ASSUME IInv, [Next]_vars PROVE IInv'
  OBVIOUS
<1> USE BackupConstants DEF IInv
<1>1. CASE Start
  <2>1. NonEncrypted \subseteq Objects
    BY CollectedFacts
  <2>2. TypeOK'
    BY <1>1, <2>1 DEF Start, TypeOK
  <2>3. QED
    BY <1>1, <2>2 DEF Start, CurFacts, RowsOnlyForMigratable, UniqueRows,
                      ScanProgress, CompletedRunRegistersScanned, Registered
<1>2. ASSUME NEW o \in Objects, Skip(o) PROVE IInv'
  BY <1>2 DEF Skip, TypeOK, CurFacts, RowsOnlyForMigratable, UniqueRows,
              ScanProgress, CompletedRunRegistersScanned, Registered
<1>3. ASSUME NEW o \in Objects, Take(o) PROVE IInv'
  <2>1. o # NoObject /\ o \in NonEncrypted
    BY <1>3, ObjectFacts DEF Take
  <2>2. TypeOK' /\ CurFacts'
    BY <1>3, <2>1 DEF Take, TypeOK, CurFacts
  <2>3. ScanProgress'
    BY <1>3, <2>1 DEF Take, ScanProgress, Registered
  <2>4. QED
    BY <1>3, <2>2, <2>3 DEF Take, RowsOnlyForMigratable, UniqueRows,
                            CompletedRunRegistersScanned, Registered
<1>4. CASE Convert
  <2>1. cur \in Objects
    BY <1>4, CollectedFacts DEF Convert, CurFacts
  <2>2. OutputPath(cur) \in OutputPaths
       /\ Converted(cur) \in {Converted(p) : p \in Objects}
    BY <2>1, ObjectFacts
  <2>3. TypeOK'
    BY <1>4, <2>2 DEF Convert, TypeOK
  <2>4. QED
    BY <1>4, <2>3 DEF Convert, CurFacts, RowsOnlyForMigratable, UniqueRows,
                      ScanProgress, CompletedRunRegistersScanned, Registered
<1>5. CASE Delete
  BY <1>5, DeleteStep
<1>6. CASE Insert
  BY <1>6, InsertStep
<1>7. CASE Finish
  BY <1>7 DEF Finish, TypeOK, CurFacts, RowsOnlyForMigratable, UniqueRows,
              ScanProgress, CompletedRunRegistersScanned, Registered
<1>8. CASE Crash
  BY <1>8 DEF Crash, TypeOK, CurFacts, RowsOnlyForMigratable, UniqueRows,
              ScanProgress, CompletedRunRegistersScanned, Registered
<1>9. CASE UNCHANGED vars
  BY <1>9 DEF vars, TypeOK, CurFacts, RowsOnlyForMigratable, UniqueRows,
              ScanProgress, CompletedRunRegistersScanned, Registered
<1>10. QED
  BY <1>1, <1>2, <1>3, <1>4, <1>5, <1>6, <1>7, <1>8, <1>9
     DEF Next, ScriptStep

(* The script keeps every variable within its type, for every storage     *)
(* content, list limit and number of runs.                                *)
THEOREM BackupTypeCorrect == Spec => []TypeOK
BY IInvInit, IInvStep, PTL DEF Spec, IInv

(* However runs interleave with crashes and failed conversions, a guild   *)
(* never has two rows for one backup: line 100's DELETE always precedes   *)
(* the INSERT of lines 101-108 in the same run.                           *)
THEOREM OneRowPerBackup == Spec => []AtMostOneRowPerBackup
<1>1. IInv => AtMostOneRowPerBackup
  BY UniqueRowsCount DEF IInv
<1>2. QED
  BY <1>1, IInvInit, IInvStep, PTL DEF Spec

(* Every row the script inserts names a legacy backup of that guild and   *)
(* the file it was converted to.                                          *)
THEOREM OnlyMigratableRows == Spec => []RowsOnlyForMigratable
BY IInvInit, IInvStep, PTL DEF Spec, IInv

(* A run whose loop reaches its end has registered every legacy backup    *)
(* its scan collected, whatever earlier runs did.                         *)
THEOREM CompletedRunCorrect == Spec => []CompletedRunRegistersScanned
BY IInvInit, IInvStep, PTL DEF Spec, IInv

=============================================================================
