----------------------------- MODULE MC_BucketMerge -----------------------------
(* Two guild buckets and one other bucket; two ordinary keys and one key   *)
(* with "..", in any combination of buckets.                               *)
EXTENDS BucketMerge

CONSTANTS g1, g2, other, k1, k2, kd

=============================================================================
