---------------------------- MODULE GuildKvProofs ----------------------------
(***************************************************************************)
(* Proofs, for every guild_roles table and every sequence of script runs, *)
(* that the three scripts keep guild_templates_kv well formed and that a  *)
(* completed migration has copied every guild_roles entry.                *)
(***************************************************************************)
EXTENDS GuildKv, TLAPS

(* Entry e of guild_roles has its row, as MigrationCoversRoles states it. *)
HasRoleRow(e) ==
    \E row \in kv :
        /\ row.guild = e.guild /\ row.key = e.role /\ row.scope = PermScope
        /\ row.value = [index |-> e.index, perms |-> e.perms]

(* While a migration runs, every entry it has taken off its list has its  *)
(* row.                                                                    *)
MigrationProgress ==
    mphase = "running" => \A e \in GuildRoles \ mpending : HasRoleRow(e)

IInv ==
    /\ TypeOK
    /\ RowsWellFormed
    /\ MigrationProgress
    /\ MigrationCoversRoles

(* No script deletes a row, so an entry that has its row keeps it.        *)
LEMMA RowsStay ==
    ASSUME NEW e, kv \subseteq kv', HasRoleRow(e)
    PROVE  HasRoleRow(e)'
BY DEF HasRoleRow

(* The row line 12-21 of migrate_guild_data.py writes for entry e is the  *)
(* entry's row, and is well formed.                                       *)
LEMMA MigratedRowFacts ==
    ASSUME NEW e \in GuildRoles
    PROVE  /\ MigratedRow(e).guild = e.guild /\ MigratedRow(e).key = e.role
           /\ MigratedRow(e).scope = PermScope
           /\ MigratedRow(e).value = [index |-> e.index, perms |-> e.perms]
           /\ e.guild \in Guilds /\ e.role \in Keys
           /\ e.perms \in Perms /\ e.index \in Indexes
BY GuildKvConstants DEF MigratedRow, RoleRec

LEMMA IInvInit == Init => IInv
BY GuildKvConstants
   DEF Init, IInv, TypeOK, RowsWellFormed, MigrationProgress, MigrationCoversRoles

LEMMA IInvStep == IInv /\ [Next]_vars => IInv'
<1> SUFFICES ASSUME IInv, [Next]_vars PROVE IInv'
  OBVIOUS
<1> USE GuildKvConstants DEF IInv
<1>1. CASE StartMigration
  BY <1>1, RowsStay DEF StartMigration, TypeOK, RowsWellFormed,
                        MigrationProgress, MigrationCoversRoles
<1>2. ASSUME NEW e \in GuildRoles, InsertRole(e) PROVE IInv'
  <2>1. HasRoleRow(e)'
    BY <1>2, MigratedRowFacts DEF InsertRole, HasRoleRow
  <2>2. \A f \in GuildRoles \ mpending' : HasRoleRow(f)'
    BY <1>2, <2>1, RowsStay DEF InsertRole, MigrationProgress
  <2>3. TypeOK' /\ RowsWellFormed'
    <3>1. DEFINE row == MigratedRow(e)
    <3>2. kv' = kv \cup {row} /\ UNCHANGED <<mphase, ops>> /\ mpending' \subseteq mpending
      BY <1>2 DEF InsertRole
    <3>3. /\ row.guild \in Guilds /\ row.key \in Keys /\ row.scope = PermScope
          /\ row.value.perms \in Perms /\ row.value.index \in Indexes
      BY GuildKvConstants DEF row, MigratedRow, RoleRec, PermScope
    <3>4. QED
      BY <3>2, <3>3 DEF row, TypeOK, RowsWellFormed, GuildInputs, KeyInputs,
                        PermScope, OverrideScope
  <2>4. QED
    BY <1>2, <2>2, <2>3 DEF InsertRole, MigrationProgress, MigrationCoversRoles
<1>3. CASE FinishMigration
  BY <1>3 DEF FinishMigration, TypeOK, RowsWellFormed, MigrationProgress,
              MigrationCoversRoles, HasRoleRow
<1>4. CASE CrashMigration
  BY <1>4 DEF CrashMigration, TypeOK, RowsWellFormed, MigrationProgress,
              MigrationCoversRoles
<1>5. ASSUME NEW g \in GuildInputs, NEW r \in KeyInputs, NEW p \in PermInputs,
             NEW i \in IndexInputs, AddPerm(g, r, p, i)
      PROVE  IInv'
  <2>1. kv \subseteq kv'
    BY <1>5 DEF AddPerm
  <2>2. ops' \in 0..MaxOps /\ UNCHANGED <<mphase, mpending>>
    BY <1>5 DEF AddPerm, TypeOK
  <2>3. ASSUME g # Blank, r # Blank, PermsValid(p), IndexValid(i),
               kv' = kv \cup {[guild |-> g, key |-> r, scope |-> PermScope,
                               value |-> [index |-> i, perms |-> p],
                               id |-> <<"add_perm", ops>>]}
        PROVE  TypeOK' /\ RowsWellFormed'
    BY <2>2, <2>3 DEF TypeOK, RowsWellFormed, PermsValid, IndexValid,
                      GuildInputs, KeyInputs, PermScope, OverrideScope
  <2>4. ASSUME UNCHANGED kv PROVE TypeOK' /\ RowsWellFormed'
    BY <2>2, <2>4 DEF TypeOK, RowsWellFormed
  <2>5. TypeOK' /\ RowsWellFormed'
    BY <1>5, <2>3, <2>4 DEF AddPerm
  <2>6. QED
    BY <1>5, <2>1, <2>5, RowsStay DEF AddPerm, MigrationProgress,
                                      MigrationCoversRoles, HasRoleRow
<1>6. ASSUME NEW g \in GuildInputs, NEW m \in KeyInputs, NEW p \in PermInputs,
             AddPermOverride(g, m, p)
      PROVE  IInv'
  <2>1. kv \subseteq kv'
    BY <1>6 DEF AddPermOverride
  <2>2. ops' \in 0..MaxOps /\ UNCHANGED <<mphase, mpending>>
    BY <1>6 DEF AddPermOverride, TypeOK
  <2>3. ASSUME g # Blank, m # Blank, PermsValid(p),
               kv' = kv \cup {[guild |-> g, key |-> m, scope |-> OverrideScope,
                               value |-> p, id |-> <<"override", ops>>]}
        PROVE  TypeOK' /\ RowsWellFormed'
    BY <2>2, <2>3 DEF TypeOK, RowsWellFormed, PermsValid, IndexValid,
                      GuildInputs, KeyInputs, PermScope, OverrideScope
  <2>4. ASSUME UNCHANGED kv PROVE TypeOK' /\ RowsWellFormed'
    BY <2>2, <2>4 DEF TypeOK, RowsWellFormed
  <2>5. TypeOK' /\ RowsWellFormed'
    BY <1>6, <2>3, <2>4 DEF AddPermOverride
  <2>6. QED
    BY <1>6, <2>1, <2>5, RowsStay DEF AddPermOverride, MigrationProgress,
                                      MigrationCoversRoles, HasRoleRow
<1>7. CASE UNCHANGED vars
  BY <1>7 DEF vars, TypeOK, RowsWellFormed, MigrationProgress,
              MigrationCoversRoles, HasRoleRow
<1>8. QED
  BY <1>1, <1>2, <1>3, <1>4, <1>5, <1>6, <1>7 DEF Next

(* The scripts keep every variable within its type, for every table and  *)
(* every number of runs.                                                  *)
THEOREM KvTypeCorrect == Spec => []TypeOK
BY IInvInit, IInvStep, PTL DEF Spec, IInv

(* Whatever the operators type at the prompts of add_perm.py and          *)
(* add_perm_override.py, and whatever migrations died part way, every row *)
(* in guild_templates_kv has a guild, a key and a valid permission list.  *)
THEOREM KvRowsWellFormed == Spec => []RowsWellFormed
BY IInvInit, IInvStep, PTL DEF Spec, IInv

(* A migrate_guild_data.py run that completes has written the row of     *)
(* every guild_roles entry, whatever failed runs and other inserts came  *)
(* before.                                                                *)
THEOREM MigrationComplete == Spec => []MigrationCoversRoles
BY IInvInit, IInvStep, PTL DEF Spec, IInv

=============================================================================
