----------------------------- MODULE BucketMerge -----------------------------
(***************************************************************************)
(* src/devutils/merge_guilds_to_single_bucket.py: copies every object of  *)
(* every "antiraid.guild.<id>" bucket into the bucket "antiraid.guilds"   *)
(* under the key "<id>/<key>".  Both listings are paginated, so every      *)
(* bucket and every object is seen; the order is the store's.  Each copy  *)
(* is one server-side call; the script asserts that no key holds "..",    *)
(* and may die between two calls.  The operator may run it again: the     *)
(* merged bucket and what was copied to it persist.                       *)
(***************************************************************************)
EXTENDS Naturals

CONSTANTS
    Guilds,       \* guild ids
    OtherBuckets, \* buckets whose names lack the "antiraid.guild." prefix
    Keys,         \* object keys
    DotDot,       \* the keys that contain ".."
    MaxRuns,      \* the number of runs the operator makes
    Absent        \* no bucket being copied

(* Bucket "antiraid.guild.<g>", kept as the prefix and the id.             *)
GuildBucket(g) == <<"antiraid.guild.", g>>

SourceBuckets == {GuildBucket(g) : g \in Guilds} \cup OtherBuckets

(* Absent is the script's "no bucket yet" state, never a listed bucket.  *)
ASSUME MergeConstants ==
    /\ DotDot \subseteq Keys
    /\ MaxRuns \in Nat
    /\ Absent \notin SourceBuckets

(* Line 33: only buckets whose name starts with "antiraid.guild.".         *)
IsGuildBucket(b) == b \in {GuildBucket(g) : g \in Guilds}

(* Mutant of GuildOf: the prefix is not removed from the name.             *)
GuildOfUnreplaced(b) == b

(* The id that line 42's replace leaves of a guild bucket's name.         *)
GuildOf(b) == b[2]

(* Mutant of MergedName: the guild id is left out of the merged key.      *)
MergedNameFileOnly(b, k) == <<CHOOSE g \in Guilds : TRUE, k>>

(* Line 42: the merged key "<id>/<key>".                                   *)
MergedName(b, k) == <<GuildOf(b), k>>

MergedKeys == Guilds \X Keys

VARIABLES
    phase,   \* "idle", "copying", "done" or "failed"
    bq,      \* the listed buckets the outer loop has not reached
    cur,     \* the bucket whose objects are being copied, or Absent
    oq,      \* the listed objects of cur not yet copied
    run,     \* number of runs started
    merged,  \* the merged bucket: pairs of a key and the object copied there
    store    \* store[b]: the keys of the objects in source bucket b

vars == <<phase, bq, cur, oq, run, merged, store>>

(* Lines 21-30: the merged bucket is created, or already ours, and the    *)
(* bucket listing starts.                                                  *)
Start ==
    /\ phase \in {"idle", "done", "failed"}
    /\ run < MaxRuns
    /\ run' = run + 1
    /\ phase' = "copying"
    /\ bq' = SourceBuckets
    /\ cur' = Absent
    /\ oq' = {}
    /\ UNCHANGED <<merged, store>>

(* Lines 31-38: the next bucket; one without the prefix is skipped, a     *)
(* guild bucket's objects are listed.                                      *)
NextBucket(b) ==
    /\ phase = "copying" /\ cur = Absent
    /\ b \in bq
    /\ bq' = bq \ {b}
    /\ \/ /\ ~IsGuildBucket(b)
          /\ UNCHANGED <<cur, oq>>
       \/ /\ IsGuildBucket(b)
          /\ cur' = b
          /\ oq' = store[b]
    /\ UNCHANGED <<phase, run, merged, store>>

(* Mutant of CopyObject: the assert of line 41 is missing.               *)
CopyObjectNoAssert(k) ==
    /\ phase = "copying" /\ cur # Absent
    /\ k \in oq
    /\ merged' = {p \in merged : p[1] # MergedName(cur, k)}
                    \cup {<<MergedName(cur, k), <<cur, k>>>>}
    /\ oq' = oq \ {k}
    /\ UNCHANGED <<phase, bq, cur, run, store>>

(* Lines 39-48: one object; a key holding ".." fails the assert and ends  *)
(* the run, any other is copied server-side to its merged key.            *)
CopyObject(k) ==
    /\ phase = "copying" /\ cur # Absent
    /\ k \in oq
    /\ \/ /\ k \in DotDot
          /\ phase' = "failed"
          /\ UNCHANGED <<oq, merged>>
       \/ /\ k \notin DotDot
          /\ merged' = {p \in merged : p[1] # MergedName(cur, k)}
                          \cup {<<MergedName(cur, k), <<cur, k>>>>}
          /\ oq' = oq \ {k}
          /\ UNCHANGED phase
    /\ UNCHANGED <<bq, cur, run, store>>

(* Mutant of EndBucket: the script leaves a bucket with objects unlisted. *)
EndBucketEarly ==
    /\ phase = "copying" /\ cur # Absent
    /\ cur' = Absent
    /\ UNCHANGED <<phase, bq, oq, run, merged, store>>

(* Line 38: the object pages of the bucket are exhausted.                  *)
EndBucket ==
    /\ phase = "copying" /\ cur # Absent /\ oq = {}
    /\ cur' = Absent
    /\ UNCHANGED <<phase, bq, oq, run, merged, store>>

(* Lines 30-50: every page of buckets is exhausted.                        *)
Finish ==
    /\ phase = "copying" /\ cur = Absent /\ bq = {}
    /\ phase' = "done"
    /\ UNCHANGED <<bq, cur, oq, run, merged, store>>

(* The process dies between two calls.                                     *)
Crash ==
    /\ phase = "copying"
    /\ phase' = "failed"
    /\ UNCHANGED <<bq, cur, oq, run, merged, store>>

Init ==
    /\ phase = "idle"
    /\ bq = {}
    /\ cur = Absent
    /\ oq = {}
    /\ run = 0
    /\ merged = {}
    /\ store \in [SourceBuckets -> SUBSET Keys]

Next ==
    \/ Start
    \/ \E b \in SourceBuckets : NextBucket(b)
    \/ \E k \in Keys : CopyObject(k)
    \/ EndBucket \/ Finish \/ Crash

Spec == Init /\ [][Next]_vars

-----------------------------------------------------------------------------
(* Every variable has the type the script gives it.                        *)
TypeOK ==
    /\ phase \in {"idle", "copying", "done", "failed"}
    /\ bq \subseteq SourceBuckets
    /\ cur \in SourceBuckets \cup {Absent}
    /\ oq \subseteq Keys
    /\ run \in 0..MaxRuns
    /\ merged \subseteq MergedKeys \X (SourceBuckets \X Keys)
    /\ store \in [SourceBuckets -> SUBSET Keys]

(* Whatever runs crashed or failed before, each key of the merged bucket  *)
(* holds, if anything, the object of that guild at that key: no guild's  *)
(* object ever overwrites another guild's, and nothing from a bucket     *)
(* without the prefix is copied.                                          *)
MergedHoldsOwnObject ==
    \A p \in merged : p[2] = <<GuildBucket(p[1][1]), p[1][2]>>

(* A run that goes through every bucket has copied every object of every guild      *)
(* bucket.                                                                 *)
CompletedMergeCopiesAll ==
    phase = "done" =>
        \A g \in Guilds : \A k \in store[GuildBucket(g)] :
            <<<<g, k>>, <<GuildBucket(g), k>>>> \in merged

(* The merged bucket as MergedBucket describes it: the objects of guild g  *)
(* are those of bucket "antiraid.guild.<g>", and the merged bucket holds *)
(* the pairs whose merged key "<g>/<k>" exists.                            *)
Merged == INSTANCE MergedBucket
    WITH source <- [g \in Guilds |-> store[GuildBucket(g)]],
         copied <- {p[1] : p \in merged}

(* Every step of every run, including the failed, crashed and repeated    *)
(* ones, copies one object of a guild's own bucket that passed line 41's  *)
(* assert, or leaves the merged bucket as it is: no object is ever        *)
(* deleted from it and no ".." key reaches it.                            *)
ImplementsMergedBucket == Merged!Spec

=============================================================================
