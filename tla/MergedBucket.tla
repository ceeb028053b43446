---------------------------- MODULE MergedBucket ----------------------------
(***************************************************************************)
(* What merge_guilds_to_single_bucket.py promises of the merged bucket,   *)
(* with buckets, listings and runs left out: each guild owns a set of     *)
(* objects, and the merged bucket gains, one at a time, objects of the    *)
(* guilds, never one whose key holds "..", and never loses one.           *)
(***************************************************************************)
CONSTANTS
    Guilds,   \* guild ids
    Keys,     \* object keys
    DotDot    \* the keys that contain ".."

VARIABLES
    source,   \* source[g]: the keys of guild g's objects
    copied    \* the <<guild, key>> pairs the merged bucket holds

Init ==
    /\ source \in [Guilds -> SUBSET Keys]
    /\ copied = {}

(* Object k of guild g arrives in the merged bucket.                       *)
Copy(g, k) ==
    /\ k \in source[g] \ DotDot
    /\ copied' = copied \cup {<<g, k>>}
    /\ UNCHANGED source

Next == \E g \in Guilds, k \in Keys : Copy(g, k)

Spec == Init /\ [][Next]_<<source, copied>>

=============================================================================
