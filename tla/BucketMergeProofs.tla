-------------------------- MODULE BucketMergeProofs --------------------------
(***************************************************************************)
(* Proofs, for every set of guilds, buckets and keys and every number of  *)
(* runs, that the bucket merge keeps its types, that a merged key only    *)
(* ever holds its own guild's object, and that a completed run has copied *)
(* every object of every guild bucket.                                    *)
(***************************************************************************)
EXTENDS BucketMerge, TLAPS

(* Object k of guild g's bucket is at its merged key.                     *)
Copied(g, k) == <<<<g, k>>, <<GuildBucket(g), k>>>> \in merged

(* What a run in progress has done: every guild bucket the outer loop has *)
(* passed, other than the current one, is copied entirely; the current    *)
(* bucket is a guild bucket whose objects outside oq are copied.          *)
CopyProgress ==
    /\ phase = "copying" =>
          \A g \in Guilds :
              GuildBucket(g) \notin bq /\ GuildBucket(g) # cur =>
                  \A k \in store[GuildBucket(g)] : Copied(g, k)
    /\ cur # Absent =>
          /\ cur \in {GuildBucket(g) : g \in Guilds}
          /\ oq \subseteq store[cur]
          /\ \A k \in store[cur] \ oq : Copied(GuildOf(cur), k)

IInv ==
    /\ TypeOK
    /\ MergedHoldsOwnObject
    /\ CopyProgress
    /\ CompletedMergeCopiesAll

(* The name of a guild bucket determines the guild, and GuildOf reads it *)
(* back.                                                                    *)
LEMMA GuildBucketNames ==
    ASSUME NEW g \in Guilds, NEW h \in Guilds
    PROVE  /\ GuildOf(GuildBucket(g)) = g
           /\ GuildBucket(g) = GuildBucket(h) => g = h
BY DEF GuildOf, GuildBucket

LEMMA IInvInit == Init => IInv
<1> SUFFICES ASSUME Init PROVE IInv
  OBVIOUS
<1>1. TypeOK
  BY MergeConstants DEF Init, TypeOK
<1>2. CopyProgress
  BY MergeConstants DEF Init, CopyProgress
<1>3. QED
  BY <1>1, <1>2 DEF Init, IInv, MergedHoldsOwnObject, CompletedMergeCopiesAll

(* One copy call: the pair it writes is the guild's own object, and every *)
(* object copied before stays copied, since a pair it removes has the     *)
(* same key, hence (by GuildBucketNames) the same bucket and key.          *)
LEMMA CopyStep ==
    ASSUME IInv, NEW k \in Keys, CopyObject(k), k \notin DotDot
    PROVE  IInv'
<1> USE DEF IInv
<1>1. PICK c \in Guilds : cur = GuildBucket(c)
  BY DEF CopyObject, CopyProgress
<1>2. MergedName(cur, k) = <<c, k>>
  BY <1>1, GuildBucketNames DEF MergedName
<1>3. merged' = {p \in merged : p[1] # <<c, k>>}
                    \cup {<<<<c, k>>, <<GuildBucket(c), k>>>>}
  BY <1>1, <1>2 DEF CopyObject
<1>4. oq' = oq \ {k} /\ UNCHANGED <<phase, bq, cur, run, store>>
  BY DEF CopyObject
<1>5. ASSUME NEW g \in Guilds, NEW j \in Keys, Copied(g, j) PROVE Copied(g, j)'
  <2>1. CASE <<g, j>> = <<c, k>>
    BY <1>3, <2>1 DEF Copied
  <2>2. CASE <<g, j>> # <<c, k>>
    BY <1>3, <1>5, <2>2 DEF Copied
  <2>3. QED
    BY <2>1, <2>2
<1>6. Copied(c, k)'
  BY <1>3 DEF Copied
<1>7. TypeOK'
  BY <1>1, <1>3, <1>4 DEF TypeOK, CopyObject, SourceBuckets, MergedKeys
<1>8. MergedHoldsOwnObject'
  BY <1>3 DEF MergedHoldsOwnObject
<1>9. CopyProgress'
  <2>1. phase = "copying"
    BY DEF CopyObject
  <2>2. ASSUME NEW g \in Guilds, GuildBucket(g) \notin bq, GuildBucket(g) # cur,
               NEW j \in store[GuildBucket(g)]
        PROVE  Copied(g, j)'
    <3>1. j \in Keys
      BY DEF TypeOK, SourceBuckets
    <3>2. Copied(g, j)
      BY <2>1, <2>2 DEF CopyProgress
    <3>3. QED
      BY <1>5, <3>1, <3>2
  <2>3. ASSUME NEW j \in store[cur] \ oq' PROVE Copied(GuildOf(cur), j)'
    <3>1. GuildOf(cur) = c /\ GuildOf(cur') = c
      BY <1>1, <1>4, GuildBucketNames
    <3>2. CASE j = k
      BY <1>6, <3>1, <3>2
    <3>3. CASE j # k
      <4>1. j \in store[cur] \ oq /\ j \in Keys
        BY <1>1, <1>4, <2>3, <3>3 DEF TypeOK, SourceBuckets
      <4>2. Copied(c, j)
        BY <3>1, <4>1 DEF CopyProgress, CopyObject
      <4>3. QED
        BY <1>5, <3>1, <4>1, <4>2
    <3>4. QED
      BY <3>2, <3>3
  <2>4. QED
    BY <1>1, <1>4, <2>2, <2>3 DEF CopyProgress, CopyObject
<1>10. CompletedMergeCopiesAll'
  BY <1>4 DEF CompletedMergeCopiesAll, CopyObject
<1>11. QED
  BY <1>7, <1>8, <1>9, <1>10

LEMMA IInvStep == IInv /\ [Next]_vars => IInv'
<1> SUFFICES ASSUME IInv, [Next]_vars PROVE IInv'
  OBVIOUS
<1> USE MergeConstants DEF IInv
<1>0. \A g \in Guilds : GuildBucket(g) \in SourceBuckets /\ GuildBucket(g) # Absent
  BY DEF SourceBuckets
<1>1. CASE Start
  <2>1. TypeOK'
    BY <1>1 DEF Start, TypeOK
  <2>2. CopyProgress'
    BY <1>0, <1>1 DEF Start, CopyProgress
  <2>3. QED
    BY <1>1, <2>1, <2>2 DEF Start, MergedHoldsOwnObject, CompletedMergeCopiesAll
<1>2. ASSUME NEW b \in SourceBuckets, NextBucket(b) PROVE IInv'
  <2>1. TypeOK'
    BY <1>2 DEF NextBucket, TypeOK
  <2>2. CASE ~IsGuildBucket(b) /\ UNCHANGED <<cur, oq>>
    <3>1. \A g \in Guilds : GuildBucket(g) # b
      BY <2>2 DEF IsGuildBucket
    <3>2. QED
      BY <1>2, <2>1, <2>2, <3>1
         DEF NextBucket, MergedHoldsOwnObject, CopyProgress, CompletedMergeCopiesAll,
             Copied
  <2>3. CASE IsGuildBucket(b) /\ cur' = b /\ oq' = store[b]
    <3>1. cur = Absent
      BY <1>2 DEF NextBucket
    <3>2. b \in {GuildBucket(g) : g \in Guilds}
      BY <2>3 DEF IsGuildBucket
    <3>3. ASSUME NEW g \in Guilds, GuildBucket(g) \notin bq', GuildBucket(g) # cur',
                 NEW j \in store[GuildBucket(g)]
          PROVE  Copied(g, j)'
      BY <1>0, <1>2, <2>3, <3>1, <3>3 DEF NextBucket, CopyProgress, Copied
    <3>4. CopyProgress'
      BY <1>2, <2>3, <3>2, <3>3 DEF NextBucket, CopyProgress
    <3>5. QED
      BY <1>2, <2>1, <2>3, <3>4
         DEF NextBucket, MergedHoldsOwnObject, CompletedMergeCopiesAll, Copied
  <2>4. QED
    BY <1>2, <2>2, <2>3 DEF NextBucket
<1>3. ASSUME NEW k \in Keys, CopyObject(k) PROVE IInv'
  <2>1. CASE k \in DotDot
    BY <1>3, <2>1 DEF CopyObject, TypeOK, MergedHoldsOwnObject, CopyProgress,
                      CompletedMergeCopiesAll, Copied
  <2>2. CASE k \notin DotDot
    BY <1>3, <2>2, CopyStep
  <2>3. QED
    BY <2>1, <2>2
<1>4. CASE EndBucket
  <2>1. ASSUME NEW g \in Guilds, GuildBucket(g) \notin bq',
               NEW j \in store[GuildBucket(g)]
        PROVE  Copied(g, j)'
    <3>1. CASE GuildBucket(g) = cur
      <4>1. GuildOf(cur) = g
        BY <3>1, GuildBucketNames
      <4>2. QED
        BY <1>4, <2>1, <3>1, <4>1 DEF EndBucket, CopyProgress, Copied
    <3>2. CASE GuildBucket(g) # cur
      BY <1>4, <2>1, <3>2 DEF EndBucket, CopyProgress, Copied
    <3>3. QED
      BY <3>1, <3>2
  <2>2. CopyProgress'
    BY <1>4, <2>1 DEF EndBucket, CopyProgress
  <2>3. QED
    BY <1>4, <2>2 DEF EndBucket, TypeOK, MergedHoldsOwnObject,
                      CompletedMergeCopiesAll, Copied
<1>5. CASE Finish
  <2>1. CompletedMergeCopiesAll'
    BY <1>0, <1>5 DEF Finish, CopyProgress, CompletedMergeCopiesAll, Copied
  <2>2. QED
    BY <1>5, <2>1 DEF Finish, TypeOK, MergedHoldsOwnObject, CopyProgress, Copied
<1>6. CASE Crash
  BY <1>6 DEF Crash, TypeOK, MergedHoldsOwnObject, CopyProgress,
              CompletedMergeCopiesAll, Copied
<1>7. CASE UNCHANGED vars
  BY <1>7 DEF vars, TypeOK, MergedHoldsOwnObject, CopyProgress,
              CompletedMergeCopiesAll, Copied
<1>8. QED
  BY <1>1, <1>2, <1>3, <1>4, <1>5, <1>6, <1>7 DEF Next

(* The script keeps every variable within its type, for every set of     *)
(* guilds, buckets and keys and every number of runs.                    *)
THEOREM MergeTypeCorrect == Spec => []TypeOK
BY IInvInit, IInvStep, PTL DEF Spec, IInv

(* Whatever runs crashed or stopped at a ".." key before, no copy call of *)
(* lines 39-48 ever puts one guild's object, or an object of a bucket     *)
(* without the prefix, at another guild's merged key.                    *)
THEOREM OwnObjectsOnly == Spec => []MergedHoldsOwnObject
BY IInvInit, IInvStep, PTL DEF Spec, IInv

(* A run of the script that reaches its end has copied every object of   *)
(* every guild bucket, whatever earlier runs did.                         *)
THEOREM CompletedMergeCorrect == Spec => []CompletedMergeCopiesAll
BY IInvInit, IInvStep, PTL DEF Spec, IInv

-----------------------------------------------------------------------------
(***************************************************************************)
(* The script implements MergedBucket.                                     *)
(***************************************************************************)
absSource == [g \in Guilds |-> store[GuildBucket(g)]]
absCopied == {p[1] : p \in merged}

(* Each step of the script is a Copy of MergedBucket under the mapping of *)
(* Merged, or leaves the mapped state as it is.                           *)
LEMMA MergeStepRefines ==
    IInv /\ [Next]_vars => [Merged!Next]_<<absSource, absCopied>>
<1> SUFFICES ASSUME IInv, [Next]_vars
             PROVE  [Merged!Next]_<<absSource, absCopied>>
  OBVIOUS
<1> USE DEF IInv
<1>1. CASE UNCHANGED <<merged, store>>
  BY <1>1 DEF absSource, absCopied
<1>2. ASSUME NEW k \in Keys, CopyObject(k), k \notin DotDot
      PROVE  [Merged!Next]_<<absSource, absCopied>>
  <2>1. PICK c \in Guilds : cur = GuildBucket(c)
    BY <1>2 DEF CopyObject, CopyProgress
  <2>2. k \in store[GuildBucket(c)]
    BY <1>2, <2>1 DEF CopyObject, CopyProgress
  <2>3. merged' = {p \in merged : p[1] # <<c, k>>}
                      \cup {<<<<c, k>>, <<GuildBucket(c), k>>>>}
    BY <1>2, <2>1, GuildBucketNames DEF CopyObject, MergedName
  <2>4. absCopied' = absCopied \cup {<<c, k>>}
    <3> DEFINE new == <<<<c, k>>, <<GuildBucket(c), k>>>>
    <3>1. ASSUME NEW x \in absCopied' PROVE x \in absCopied \cup {<<c, k>>}
      <4>1. PICK p \in merged' : x = p[1]
        BY <3>1 DEF absCopied
      <4>2. p \in merged \/ p = new
        BY <2>3, <4>1
      <4>3. QED
        BY <4>1, <4>2 DEF absCopied
    <3>2. ASSUME NEW p \in merged PROVE p[1] \in absCopied'
      <4>1. CASE p[1] = <<c, k>>
        <5>1. new \in merged' /\ new[1] = <<c, k>>
          BY <2>3
        <5>2. QED
          BY <4>1, <5>1 DEF absCopied
      <4>2. CASE p[1] # <<c, k>>
        <5>1. p \in merged'
          BY <2>3, <4>2
        <5>2. QED
          BY <5>1 DEF absCopied
      <4>3. QED
        BY <4>1, <4>2
    <3>3. <<c, k>> \in absCopied'
      <4>1. new \in merged' /\ new[1] = <<c, k>>
        BY <2>3
      <4>2. QED
        BY <4>1 DEF absCopied
    <3>4. QED
      BY <3>1, <3>2, <3>3 DEF absCopied
  <2>5. absSource' = absSource
    BY <1>2 DEF CopyObject, absSource
  <2>6. absSource[c] = store[GuildBucket(c)]
    BY DEF absSource
  <2>7. Merged!Copy(c, k)
    BY <1>2, <2>2, <2>4, <2>5, <2>6 DEF Merged!Copy, absSource, absCopied
  <2>8. QED
    BY <2>7 DEF Merged!Next
<1>3. QED
  <2>1. ASSUME NEW k \in Keys, CopyObject(k), k \in DotDot
        PROVE  UNCHANGED <<merged, store>>
    BY <2>1 DEF CopyObject
  <2>2. QED
    BY <1>1, <1>2, <2>1
       DEF Next, Start, NextBucket, EndBucket, Finish, Crash, vars

(* The merge script, with its failures at ".." keys, its crashes and its  *)
(* reruns, implements MergedBucket for every set of guilds, buckets and   *)
(* keys: the merged bucket only ever gains objects of the guilds' own     *)
(* buckets that passed the assert, and never loses one.                   *)
THEOREM MergeRefinement == Spec => ImplementsMergedBucket
<1>1. Init => Merged!Init
  <2> SUFFICES ASSUME Init
               PROVE  /\ absSource \in [Guilds -> SUBSET Keys]
                      /\ absCopied = {}
    BY DEF Merged!Init, absSource, absCopied
  <2>1. \A g \in Guilds : GuildBucket(g) \in SourceBuckets
    BY DEF SourceBuckets
  <2>2. QED
    BY <2>1 DEF Init, absSource, absCopied
<1>2. QED
  BY <1>1, IInvInit, IInvStep, MergeStepRefines, PTL
     DEF Spec, ImplementsMergedBucket, Merged!Spec, absSource, absCopied

=============================================================================
