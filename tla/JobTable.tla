------------------------------- MODULE JobTable -------------------------------
(***************************************************************************)
(* What the job owner migration promises the jobs table, whatever its      *)
(* runs, failures and crashes: a row only ever goes from a guild owner     *)
(* "g/<id>" to the bare id; the column is renamed only once every row has  *)
(* been rewritten; the foreign key exists only on the renamed column and  *)
(* only when every row names a guild.  Rows of users are never touched.   *)
(***************************************************************************)
EXTENDS Sequences

CONSTANTS Jobs, Ids, GuildTable

VARIABLES owner, column, fk

InitialOwners == {<<p, i>> : p \in {"g", "u"}, i \in Ids}

(* A guild-owned row is rewritten to its guild's id.                       *)
MigrateRow(j) ==
    /\ column = "owner"
    /\ \E i \in Ids : owner[j] = <<"g", i>> /\ owner' = [owner EXCEPT ![j] = <<i>>]
    /\ UNCHANGED <<column, fk>>

(* The column becomes guild_id once no row keeps a prefixed owner.         *)
RenameColumn ==
    /\ column = "owner"
    /\ \A j \in Jobs : Len(owner[j]) = 1
    /\ column' = "guild_id"
    /\ UNCHANGED <<owner, fk>>

(* The foreign key is added once every row holds a guild's id.            *)
AddForeignKey ==
    /\ column = "guild_id"
    /\ ~fk
    /\ \A j \in Jobs : owner[j] \in {<<g>> : g \in GuildTable}
    /\ fk' = TRUE
    /\ UNCHANGED <<owner, column>>

Init ==
    /\ owner \in [Jobs -> InitialOwners]
    /\ column = "owner"
    /\ fk = FALSE

Next ==
    \/ \E j \in Jobs : MigrateRow(j)
    \/ RenameColumn
    \/ AddForeignKey

Spec == Init /\ [][Next]_<<owner, column, fk>>

=============================================================================
