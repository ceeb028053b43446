------------------------------ MODULE MC_GuildKv ------------------------------
(* One guild with two roles in guild_roles.                                *)
EXTENDS GuildKv

CONSTANTS g1, k1, k2, p1, x0

MCGuildRoles ==
    { [guild |-> g1, role |-> k1, perms |-> p1, index |-> x0],
      [guild |-> g1, role |-> k2, perms |-> p1, index |-> x0] }

=============================================================================
