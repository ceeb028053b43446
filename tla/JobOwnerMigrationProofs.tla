----------------------- MODULE JobOwnerMigrationProofs -----------------------
(***************************************************************************)
(* Proofs, for all jobs, ids and guild tables, that the job owner          *)
(* migration keeps its types, that the foreign key only ever exists on a  *)
(* correctly migrated table, and that the script implements JobTable.     *)
(***************************************************************************)
EXTENDS JobOwnerMigration, TLAPS

(* A row holds what it held before the first run, or the bare guild id of *)
(* what was then a guild owner.                                           *)
RowsTrackOrig ==
    \A j \in Jobs :
        \/ owner[j] = orig[j]
        \/ \E i \in Ids : orig[j] = <<"g", i>> /\ owner[j] = <<i>>

(* What each phase of a run knows of the table: the loop and the rename  *)
(* run on the owner column; the rows the loop has done, and all rows once *)
(* the loop has ended, are bare ids; the key is added once at most, after *)
(* the rename, and only when every row names a guild.                     *)
PhaseFacts ==
    /\ phase \in {"loop", "rename"} => column = "owner"
    /\ phase = "loop" => \A j \in Jobs \ pending : Len(owner[j]) = 1
    /\ phase = "rename" => \A j \in Jobs : Len(owner[j]) = 1
    /\ phase = "constrain" => column = "guild_id" /\ ~fk
    /\ fk => /\ column = "guild_id"
             /\ \A j \in Jobs : owner[j] \in {<<g>> : g \in GuildTable}

IInv == TypeOK /\ RowsTrackOrig /\ PhaseFacts

(* The shape of an owner value: a two-segment owner that is not a user's  *)
(* is a guild's, and the others are bare ids of length one.              *)
LEMMA OwnerShapes ==
    ASSUME NEW o \in Owners
    PROVE  /\ Len(o) >= 2 /\ ~UserOwned(o) => \E i \in Ids : o = <<"g", i>>
           /\ Len(o) < 2 => Len(o) = 1 /\ \E i \in Ids : o = <<i>>
           /\ o \in InitialOwners => Len(o) = 2
BY DEF Owners, InitialOwners, UserOwned

LEMMA IInvInit == Init => IInv
<1> SUFFICES ASSUME Init PROVE IInv
  OBVIOUS
<1>1. owner \in [Jobs -> Owners]
  BY DEF Init, Owners
<1>2. run \in 0..MaxRuns
  BY JobConstants DEF Init
<1>3. TypeOK
  BY <1>1, <1>2 DEF Init, TypeOK
<1>4. RowsTrackOrig /\ PhaseFacts
  BY DEF Init, RowsTrackOrig, PhaseFacts
<1>5. QED
  BY <1>3, <1>4 DEF IInv

LEMMA IInvStep == IInv /\ [Next]_vars => IInv'
<1> SUFFICES ASSUME IInv, [Next]_vars PROVE IInv'
  OBVIOUS
<1> USE JobConstants DEF IInv
<1>1. CASE Start
  BY <1>1 DEF Start, TypeOK, RowsTrackOrig, PhaseFacts
<1>2. ASSUME NEW j \in Jobs, Migrate(j) PROVE IInv'
  <2>1. owner[j] \in Owners
    BY DEF TypeOK
  <2>2. CASE UserOwned(owner[j]) /\ phase' = "failed" /\ UNCHANGED <<owner, pending>>
    BY <1>2, <2>2 DEF Migrate, TypeOK, RowsTrackOrig, PhaseFacts
  <2>3. CASE ~UserOwned(owner[j]) /\ Len(owner[j]) < 2 /\ phase' = "failed"
             /\ UNCHANGED <<owner, pending>>
    BY <1>2, <2>3 DEF Migrate, TypeOK, RowsTrackOrig, PhaseFacts
  <2>4. CASE /\ ~UserOwned(owner[j]) /\ Len(owner[j]) >= 2
             /\ owner' = [owner EXCEPT ![j] = GuildIdOf(owner[j])]
             /\ pending' = pending \ {j}
             /\ UNCHANGED phase
    <3>1. PICK i \in Ids : owner[j] = <<"g", i>>
      BY <2>1, <2>4, OwnerShapes
    <3>2. owner' = [owner EXCEPT ![j] = <<i>>]
      BY <2>4, <3>1 DEF GuildIdOf
    <3>3. owner[j] = orig[j]
      BY <3>1 DEF RowsTrackOrig
    <3>4. phase = "loop" /\ column = "owner" /\ ~fk
      BY <1>2 DEF Migrate, PhaseFacts
    <3>5. TypeOK'
      BY <1>2, <2>4, <3>2 DEF Migrate, TypeOK, Owners
    <3>6. RowsTrackOrig'
      BY <1>2, <3>1, <3>2, <3>3 DEF Migrate, RowsTrackOrig, TypeOK
    <3>7. PhaseFacts'
      BY <1>2, <2>4, <3>2, <3>4 DEF Migrate, PhaseFacts, TypeOK
    <3>8. QED
      BY <3>5, <3>6, <3>7
  <2>5. QED
    BY <1>2, <2>2, <2>3, <2>4 DEF Migrate
<1>3. CASE EndLoop
  BY <1>3 DEF EndLoop, TypeOK, RowsTrackOrig, PhaseFacts
<1>4. CASE Rename
  BY <1>4 DEF Rename, TypeOK, RowsTrackOrig, PhaseFacts
<1>5. CASE AddConstraint
  <2>1. CASE fk' = TRUE
    BY <1>5, <2>1 DEF AddConstraint, TypeOK, RowsTrackOrig, PhaseFacts
  <2>2. CASE fk' # TRUE
    BY <1>5, <2>2 DEF AddConstraint, TypeOK, RowsTrackOrig, PhaseFacts
  <2>3. QED
    BY <2>1, <2>2
<1>6. CASE Crash
  BY <1>6 DEF Crash, TypeOK, RowsTrackOrig, PhaseFacts
<1>7. CASE UNCHANGED vars
  BY <1>7 DEF vars, TypeOK, RowsTrackOrig, PhaseFacts
<1>8. QED
  BY <1>1, <1>2, <1>3, <1>4, <1>5, <1>6, <1>7 DEF Next

(* The script keeps every variable within its type, whatever the number *)
(* of jobs, ids and runs.                                                  *)
THEOREM JobTypeCorrect == Spec => []TypeOK
<1>1. IInv => TypeOK
  BY DEF IInv
<1>2. QED
  BY <1>1, IInvInit, IInvStep, PTL DEF Spec

(* For every table, whatever runs failed or crashed before, the foreign  *)
(* key of line 22 exists only when the column is renamed and every job   *)
(* holds the guild that owned it before the migration.                    *)
THEOREM ConstraintCorrect == Spec => []ConstraintMeansMigrated
<1>1. IInv => ConstraintMeansMigrated
  <2> SUFFICES ASSUME IInv, fk, NEW j \in Jobs
               PROVE  orig[j] = <<"g", owner[j][1]>>
    BY DEF IInv, PhaseFacts, ConstraintMeansMigrated
  <2>1. PICK g \in GuildTable : owner[j] = <<g>>
    BY DEF IInv, PhaseFacts
  <2>2. orig[j] \in InitialOwners
    BY DEF IInv, TypeOK
  <2>3. owner[j] # orig[j]
    BY <2>1, <2>2 DEF InitialOwners
  <2>4. QED
    BY <2>1, <2>3 DEF IInv, RowsTrackOrig
<1>2. QED
  BY <1>1, IInvInit, IInvStep, PTL DEF Spec

(* Every step of the script is a JobTable step or leaves the table as it *)
(* is.                                                                     *)
LEMMA StepRefines ==
    IInv /\ [Next]_vars => [Table!Next]_<<owner, column, fk>>
<1> SUFFICES ASSUME IInv, [Next]_vars
             PROVE  [Table!Next]_<<owner, column, fk>>
  OBVIOUS
<1> USE DEF IInv
<1>1. CASE Start
  BY <1>1 DEF Start
<1>2. ASSUME NEW j \in Jobs, Migrate(j) PROVE [Table!Next]_<<owner, column, fk>>
  <2>1. CASE UNCHANGED owner
    BY <1>2, <2>1 DEF Migrate
  <2>2. CASE /\ ~UserOwned(owner[j]) /\ Len(owner[j]) >= 2
             /\ owner' = [owner EXCEPT ![j] = GuildIdOf(owner[j])]
    <3>1. PICK i \in Ids : owner[j] = <<"g", i>>
      BY <2>2, OwnerShapes DEF TypeOK
    <3>2. owner' = [owner EXCEPT ![j] = <<i>>]
      BY <2>2, <3>1 DEF GuildIdOf
    <3>3. column = "owner" /\ UNCHANGED <<column, fk>>
      BY <1>2 DEF Migrate, PhaseFacts
    <3>4. Table!MigrateRow(j)
      BY <3>1, <3>2, <3>3 DEF Table!MigrateRow
    <3>5. QED
      BY <3>4 DEF Table!Next
  <2>3. QED
    BY <1>2, <2>1, <2>2 DEF Migrate
<1>3. CASE EndLoop
  BY <1>3 DEF EndLoop
<1>4. CASE Rename
  <2>1. Table!RenameColumn
    BY <1>4 DEF Rename, PhaseFacts, Table!RenameColumn
  <2>2. QED
    BY <2>1 DEF Table!Next
<1>5. CASE AddConstraint
  <2>1. CASE fk' = TRUE
    <3>1. Table!AddForeignKey
      BY <1>5, <2>1 DEF AddConstraint, PhaseFacts, Table!AddForeignKey
    <3>2. QED
      BY <3>1 DEF Table!Next
  <2>2. CASE fk' # TRUE
    BY <1>5, <2>2 DEF AddConstraint
  <2>3. QED
    BY <2>1, <2>2
<1>6. CASE Crash
  BY <1>6 DEF Crash
<1>7. CASE UNCHANGED vars
  BY <1>7 DEF vars
<1>8. QED
  BY <1>1, <1>2, <1>3, <1>4, <1>5, <1>6, <1>7 DEF Next

(* The script implements JobTable: ImplementsJobTable holds for every    *)
(* table, not only the instance TLC explores.                             *)
THEOREM Refinement == Spec => ImplementsJobTable
<1>1. Init => Table!Init
  BY DEF Init, Table!Init, InitialOwners, Table!InitialOwners
<1>2. QED
  BY <1>1, IInvInit, IInvStep, StepRefines, PTL
     DEF Spec, ImplementsJobTable, Table!Spec

=============================================================================
