------------------------- MODULE MC_BackupMigration -------------------------
(* Two guild buckets and one other bucket.  Guild g1 holds two legacy     *)
(* backups and, listed between them, a file that is not a backup; guild  *)
(* g2 holds a legacy backup with the same id and timestamp as g1's first *)
(* and an encrypted one.                                                  *)
EXTENDS BackupMigration

CONSTANTS g1, g2, other, b1, b2, d1, d2

MCObjects ==
    { [bucket |-> g1, backup |-> b1, dt |-> d1, ibl |-> TRUE, enc |-> FALSE, rank |-> 1],
      [bucket |-> g1, backup |-> b2, dt |-> d2, ibl |-> FALSE, enc |-> FALSE, rank |-> 2],
      [bucket |-> g1, backup |-> b2, dt |-> d2, ibl |-> TRUE, enc |-> FALSE, rank |-> 3],
      [bucket |-> g2, backup |-> b1, dt |-> d1, ibl |-> TRUE, enc |-> FALSE, rank |-> 1],
      [bucket |-> g2, backup |-> b2, dt |-> d2, ibl |-> TRUE, enc |-> TRUE, rank |-> 2],
      [bucket |-> other, backup |-> b2, dt |-> d2, ibl |-> TRUE, enc |-> FALSE, rank |-> 1] }

=============================================================================
