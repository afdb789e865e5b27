------------------------- MODULE ExtendibleHashTable -------------------------
(***************************************************************************)
(* The extendible hash index of src/container/hash/extendible_hash_table.cpp *)
(* driven by concurrent threads.  The directory page holds global_depth    *)
(* and, per slot, a bucket page id and a local depth; a bucket page holds  *)
(* a set of (key, value) pairs.  table_latch_ is a writer-preferring       *)
(* reader-writer latch: GetValue, Insert and Remove run under its read     *)
(* side, SplitInsert and Merge under its write side.  The part of a call   *)
(* between taking and releasing table_latch_ (with the bucket's page latch *)
(* inside it) is one step: no writer can run then, and bucket accesses of  *)
(* readers are serialised by the page latch.  Taking the write side is     *)
(* two steps, as in the latch: announce the writer, then wait for the      *)
(* readers to leave.  The directory and bucket pages and the latch are not *)
(* under src/; they are modelled from the spec.                            *)
(***************************************************************************)
EXTENDS Naturals, FiniteSets, Bitwise

CONSTANTS
    Threads,          \* threads calling the index
    Keys, Vals,       \* keys and values callers use
    Hash,             \* Hash[k]: the hash of key k (its low bits matter)
    BucketSize,       \* BUCKET_ARRAY_SIZE
    MaxBucketDepth,   \* MAX_BUCKET_DEPTH
    MaxGlobalDepth,   \* MAX_GLOBAL_DEPTH: the directory has 2^this slots
    MaxPageId,        \* bound: bucket page ids NewPage hands out
    MaxCalls,         \* bound: calls each thread makes
    InsertReleasesLatch
        \* FALSE: Insert as written, whose fast path (lines 141-146) returns
        \* without table_latch_.RUnlock().  TRUE: that RUnlock added.

ASSUME MaxBucketDepth <= MaxGlobalDepth

Pairs == Keys \X Vals
Slots == 0..(2^MaxGlobalDepth - 1)
PageIds == 1..MaxPageId

VARIABLES
    global_depth,     \* dir_page->global_depth_
    bucket_page_ids,  \* dir_page->bucket_page_ids_
    local_depths,     \* dir_page->local_depths_
    bucket,           \* bucket[p]: the readable pairs of bucket page p
    next_page_id,     \* the id the next NewPage returns
    readers,          \* table_latch_: reader_count_
    writer_entered,   \* table_latch_: writer_entered_
    dir_pins,         \* pins on the directory page no thread will give back
    pc,               \* where each thread is
    arg,              \* arg[t]: the call's key and value
    merge_index,      \* Remove's bucket_index, passed to Merge
    calls             \* calls each thread has made

vars == <<global_depth, bucket_page_ids, local_depths, bucket, next_page_id,
          readers, writer_entered, dir_pins, pc, arg, merge_index, calls>>

-----------------------------------------------------------------------------
(* The directory page (spec 3, 4.3)                                        *)

Size == 2^global_depth

\* KeyToDirectoryIndex: Hash(key) & GetGlobalDepthMask().
KeyToDirectoryIndex(k) == Hash[k] % Size

\* KeyToPageId: the bucket page id of the key's slot.
KeyToPageId(k) == bucket_page_ids[KeyToDirectoryIndex(k)]

\* GetLocalHighBit(i): i with its bit (local depth - 1) flipped.
GetLocalHighBit(lds, i) == i ^^ (2^(lds[i] - 1))

\* IncrGlobalDepth: the new upper half of the directory copies the lower.
Grown(a) == [i \in Slots |-> IF i >= Size /\ i < 2 * Size THEN a[i - Size]
                                                     ELSE a[i]]

\* CanShrink: every active local depth is below the global depth.
CanShrink(lds, gd) == \A i \in 0..(2^gd - 1) : lds[i] < gd

\* Merge's while (CanShrink()) DecrGlobalDepth() loop.
RECURSIVE ShrunkDepth(_, _)
ShrunkDepth(lds, gd) == IF gd > 0 /\ CanShrink(lds, gd)
                        THEN ShrunkDepth(lds, gd - 1) ELSE gd

IsFull(p) == Cardinality(bucket[p]) >= BucketSize

\* The pairs reachable through the active part of the directory.
Stored == UNION {bucket[bucket_page_ids[i]] : i \in 0..(Size - 1)}

-----------------------------------------------------------------------------
(* The constructor and the first FetchDirectoryPage: directory page and    *)
(* bucket page 1 created, global depth 0, slot 0 pointing at the bucket.   *)
Init ==
    /\ global_depth = 0
    /\ bucket_page_ids = [i \in Slots |-> 1]
    /\ local_depths = [i \in Slots |-> 0]
    /\ bucket = [p \in PageIds |-> {}]
    /\ next_page_id = 2
    /\ readers = 0
    /\ writer_entered = FALSE
    /\ dir_pins = 0
    /\ pc = [t \in Threads |-> "idle"]
    /\ arg = [t \in Threads |-> CHOOSE pr \in Pairs : TRUE]
    /\ merge_index = [t \in Threads |-> 0]
    /\ calls = [t \in Threads |-> 0]

\* A thread starts a GetValue, Insert or Remove of a pair, or a
\* GetGlobalDepth or VerifyIntegrity, which take no pair.
Call(t) ==
    /\ pc[t] = "idle"
    /\ calls[t] < MaxCalls
    /\ \/ \E op \in {"get", "ins", "rem"}, pr \in Pairs :
             /\ pc' = [pc EXCEPT ![t] = op]
             /\ arg' = [arg EXCEPT ![t] = pr]
       \/ \E op \in {"depth", "verify"} :
             /\ pc' = [pc EXCEPT ![t] = op]
             /\ UNCHANGED arg
    /\ calls' = [calls EXCEPT ![t] = @ + 1]
    /\ UNCHANGED <<global_depth, bucket_page_ids, local_depths, bucket,
                   next_page_id, readers, writer_entered, dir_pins, merge_index>>

\* RLock waits while a writer has entered.
CanRead == ~writer_entered

(* GetValue (lines 106-125): read the key's bucket under the read latch;   *)
(* every pin and latch is given back.                                      *)
GetValue(t) ==
    /\ pc[t] = "get"
    /\ CanRead
    /\ pc' = [pc EXCEPT ![t] = "idle"]
    /\ UNCHANGED <<global_depth, bucket_page_ids, local_depths, bucket,
                   next_page_id, readers, writer_entered, dir_pins, arg,
                   merge_index, calls>>

(* Insert (lines 130-154).  A bucket that is not full takes the pair (an   *)
(* exact duplicate is rejected) and the call returns, leaving the read     *)
(* latch held unless InsertReleasesLatch.  A full bucket is unpinned, the  *)
(* read latch released, and SplitInsert follows.                           *)
Insert(t) ==
    LET k == arg[t][1]
        p == KeyToPageId(k)
    IN /\ pc[t] = "ins"
       /\ CanRead
       /\ IF ~IsFull(p)
          THEN /\ bucket' = [bucket EXCEPT ![p] = @ \cup {arg[t]}]
               /\ readers' = IF InsertReleasesLatch THEN readers ELSE readers + 1
               /\ pc' = [pc EXCEPT ![t] = "idle"]
          ELSE /\ pc' = [pc EXCEPT ![t] = "split_w"]
               /\ UNCHANGED <<bucket, readers>>
       /\ UNCHANGED <<global_depth, bucket_page_ids, local_depths, next_page_id,
                      writer_entered, dir_pins, arg, merge_index, calls>>

\* Mutant: Merge is handed the raw hash, not the masked directory index.
Remove_UnmaskedIndex(t) ==
    LET k == arg[t][1]
        p == KeyToPageId(k)
        after == bucket[p] \ {arg[t]}
    IN /\ pc[t] = "rem"
       /\ CanRead
       /\ bucket' = [bucket EXCEPT ![p] = after]
       /\ pc' = [pc EXCEPT ![t] = IF after = {} THEN "merge_w" ELSE "idle"]
       /\ merge_index' = [merge_index EXCEPT ![t] = Hash[k]]
       /\ UNCHANGED <<global_depth, bucket_page_ids, local_depths, next_page_id,
                      readers, writer_entered, dir_pins, arg, calls>>

(* Remove (lines 253-283): delete the pair from the key's bucket.  If the  *)
(* bucket is then empty (whether or not anything was deleted), note its    *)
(* directory index, release the read latch and go on to Merge.             *)
Remove(t) ==
    LET k == arg[t][1]
        p == KeyToPageId(k)
        after == bucket[p] \ {arg[t]}
    IN /\ pc[t] = "rem"
       /\ CanRead
       /\ bucket' = [bucket EXCEPT ![p] = after]
       /\ pc' = [pc EXCEPT ![t] = IF after = {} THEN "merge_w" ELSE "idle"]
       /\ merge_index' = [merge_index EXCEPT ![t] = KeyToDirectoryIndex(k)]
       /\ UNCHANGED <<global_depth, bucket_page_ids, local_depths, next_page_id,
                      readers, writer_entered, dir_pins, arg, calls>>

(* GetGlobalDepth (lines 366-376) and VerifyIntegrity (381-388): fetch the *)
(* directory under the read latch, read global_depth or run the directory  *)
(* page's integrity assertions (spec 8.3/8.4, DirectoryConsistent), unpin  *)
(* clean and release the latch.  Neither changes the index.                *)
GetGlobalDepth(t) ==
    /\ pc[t] = "depth"
    /\ CanRead
    /\ pc' = [pc EXCEPT ![t] = "idle"]
    /\ UNCHANGED <<global_depth, bucket_page_ids, local_depths, bucket,
                   next_page_id, readers, writer_entered, dir_pins, arg,
                   merge_index, calls>>

VerifyIntegrity(t) ==
    /\ pc[t] = "verify"
    /\ CanRead
    /\ pc' = [pc EXCEPT ![t] = "idle"]
    /\ UNCHANGED <<global_depth, bucket_page_ids, local_depths, bucket,
                   next_page_id, readers, writer_entered, dir_pins, arg,
                   merge_index, calls>>

\* WLock, first half: wait until no writer has entered, then enter.
WLockEnter(t) ==
    /\ pc[t] \in {"split_w", "merge_w"}
    /\ ~writer_entered
    /\ writer_entered' = TRUE
    /\ pc' = [pc EXCEPT ![t] = IF @ = "split_w" THEN "split" ELSE "merge"]
    /\ UNCHANGED <<global_depth, bucket_page_ids, local_depths, bucket,
                   next_page_id, readers, dir_pins, arg, merge_index, calls>>

\* WLock, second half: the write side is held once the readers are gone.
WriteHeld(t, phase) == pc[t] = phase /\ readers = 0

\* Leaving a write section: WUnlock, and the thread goes on to pc'.
WUnlockTo(t, next) ==
    /\ writer_entered' = FALSE
    /\ pc' = [pc EXCEPT ![t] = next]

-----------------------------------------------------------------------------
(* SplitInsert (lines 156-248)                                             *)

(* The directory after a split of slot si (computed with the old global   *)
(* depth, line 160) whose bucket sp gets local depth nd and image img.     *)
(* The four loops of lines 199-222 give every active slot congruent to si  *)
(* modulo 2^nd the split page, every one congruent to si's image the new   *)
(* page, and all of them local depth nd.                                   *)
SplitIds(ids, gd, si, nd, sp, img) ==
    LET diff == 2^nd
        ii == si ^^ (2^(nd - 1))
    IN [i \in Slots |-> IF i < 2^gd /\ i % diff = si % diff THEN sp
                        ELSE IF i < 2^gd /\ i % diff = ii % diff THEN img
                        ELSE ids[i]]
\* Mutant: only the split slot and its image get the new local depth.
SplitDepths_OnlyPair(lds, gd, si, nd) ==
    [lds EXCEPT ![si] = nd, ![si ^^ (2^(nd - 1))] = nd]
SplitDepths(lds, gd, si, nd) ==
    LET diff == 2^nd
        ii == si ^^ (2^(nd - 1))
    IN [i \in Slots |-> IF i < 2^gd /\ i % diff \in {si % diff, ii % diff}
                        THEN nd ELSE lds[i]]

\* Mutant: the rehash masks with the old local depth.
ToImage_OldMask(old, ids, nd, img) == {pr \in old : ids[Hash[pr[1]] % 2^(nd - 1)] = img}

\* Rehash (lines 225-237): a pair moves to the image when its hash, masked
\* by the new local depth, indexes a slot of the image.
ToImage(old, ids, nd, img) == {pr \in old : ids[Hash[pr[1]] % 2^nd] = img}

\* Mutant: the MAX_BUCKET_DEPTH return keeps the write latch.
SplitInsert_NoUnlockAtMax(t) ==
    LET k == arg[t][1]
        si == KeyToDirectoryIndex(k)
        sd == local_depths[si]
        grow == sd = global_depth
        gd == IF grow THEN global_depth + 1 ELSE global_depth
        ids0 == IF grow THEN Grown(bucket_page_ids) ELSE bucket_page_ids
        lds0 == IF grow THEN Grown(local_depths) ELSE local_depths
        nd == sd + 1
        sp == ids0[Hash[k] % 2^gd]
        img == next_page_id
        ids1 == SplitIds(ids0, gd, si, nd, sp, img)
        moved == ToImage(bucket[sp], ids1, nd, img)
    IN /\ WriteHeld(t, "split")
       /\ IF sd >= MaxBucketDepth
          THEN /\ pc' = [pc EXCEPT ![t] = "idle"]
               /\ UNCHANGED <<global_depth, bucket_page_ids, local_depths,
                              bucket, next_page_id, writer_entered>>
          ELSE /\ next_page_id <= MaxPageId
               /\ global_depth' = gd
               /\ bucket_page_ids' = ids1
               /\ local_depths' = SplitDepths(lds0, gd, si, nd)
               /\ bucket' = [bucket EXCEPT ![sp] = @ \ moved, ![img] = moved]
               /\ next_page_id' = next_page_id + 1
               /\ WUnlockTo(t, "ins")
       /\ UNCHANGED <<readers, dir_pins, arg, merge_index, calls>>

(* Under the write latch.  At MAX_BUCKET_DEPTH the call returns false.     *)
(* Otherwise the directory grows if needed, the bucket splits, its pairs   *)
(* are rehashed, and Insert is called again.                               *)
SplitInsert(t) ==
    LET k == arg[t][1]
        si == KeyToDirectoryIndex(k)
        sd == local_depths[si]
        grow == sd = global_depth
        gd == IF grow THEN global_depth + 1 ELSE global_depth
        ids0 == IF grow THEN Grown(bucket_page_ids) ELSE bucket_page_ids
        lds0 == IF grow THEN Grown(local_depths) ELSE local_depths
        nd == sd + 1
        sp == ids0[Hash[k] % 2^gd]
        img == next_page_id
        ids1 == SplitIds(ids0, gd, si, nd, sp, img)
        moved == ToImage(bucket[sp], ids1, nd, img)
    IN /\ WriteHeld(t, "split")
       /\ IF sd >= MaxBucketDepth
          THEN /\ WUnlockTo(t, "idle")
               /\ UNCHANGED <<global_depth, bucket_page_ids, local_depths,
                              bucket, next_page_id>>
          ELSE /\ next_page_id <= MaxPageId
               /\ global_depth' = gd
               /\ bucket_page_ids' = ids1
               /\ local_depths' = SplitDepths(lds0, gd, si, nd)
               /\ bucket' = [bucket EXCEPT ![sp] = @ \ moved, ![img] = moved]
               /\ next_page_id' = next_page_id + 1
               /\ WUnlockTo(t, "ins")
       /\ UNCHANGED <<readers, dir_pins, arg, merge_index, calls>>

-----------------------------------------------------------------------------
(* Merge (lines 288-357)                                                   *)

(* Folding the target slot mi into its image ii: mi points at the image    *)
(* page, both local depths drop by one, and every active slot pointing at  *)
(* the target or the image page points at the image with the target's new *)
(* local depth (lines 335-347).                                            *)
MergedIds(mi, tp, ip) ==
    [i \in Slots |-> IF i < Size /\ (i = mi \/ bucket_page_ids[i] \in {tp, ip})
                     THEN ip ELSE bucket_page_ids[i]]
MergedDepths(mi, ii, tp, ip) ==
    LET lds == [local_depths EXCEPT ![mi] = @ - 1, ![ii] = @ - 1]
    IN [i \in Slots |-> IF i < Size /\ (i = mi \/ bucket_page_ids[i] \in {tp, ip})
                        THEN lds[mi] ELSE lds[i]]

\* Mutant: Merge does not re-check that the bucket is still empty.
Merge_NoEmptyCheck(t) ==
    LET mi == merge_index[t]
        tp == bucket_page_ids[mi]
        ld == local_depths[mi]
        ii == GetLocalHighBit(local_depths, mi)
        ip == bucket_page_ids[ii]
        lds == MergedDepths(mi, ii, tp, ip)
    IN /\ WriteHeld(t, "merge")
       /\ WUnlockTo(t, "idle")
       /\ IF mi >= Size
          THEN /\ dir_pins' = dir_pins + 1
               /\ UNCHANGED <<global_depth, bucket_page_ids, local_depths>>
          ELSE IF ld = 0 \/ ld # local_depths[ii]
          THEN UNCHANGED <<global_depth, bucket_page_ids, local_depths, dir_pins>>
          ELSE /\ bucket_page_ids' = MergedIds(mi, tp, ip)
               /\ local_depths' = lds
               /\ global_depth' = ShrunkDepth(lds, global_depth)
               /\ UNCHANGED dir_pins
       /\ UNCHANGED <<bucket, next_page_id, readers, arg, merge_index, calls>>

(* Under the write latch, with the index Remove computed before it let go  *)
(* of the read latch.  An index beyond the directory returns at once       *)
(* without unpinning the directory page (lines 293-297).  A local depth of *)
(* 0, an image of another depth, or a bucket no longer empty return.       *)
(* Otherwise the bucket page is deleted, folded into its image, and the    *)
(* directory shrinks while it can.                                         *)
Merge(t) ==
    LET mi == merge_index[t]
        tp == bucket_page_ids[mi]
        ld == local_depths[mi]
        ii == GetLocalHighBit(local_depths, mi)
        ip == bucket_page_ids[ii]
        lds == MergedDepths(mi, ii, tp, ip)
    IN /\ WriteHeld(t, "merge")
       /\ WUnlockTo(t, "idle")
       /\ IF mi >= Size
          THEN /\ dir_pins' = dir_pins + 1
               /\ UNCHANGED <<global_depth, bucket_page_ids, local_depths>>
          ELSE IF ld = 0 \/ ld # local_depths[ii] \/ bucket[tp] # {}
          THEN UNCHANGED <<global_depth, bucket_page_ids, local_depths, dir_pins>>
          ELSE /\ bucket_page_ids' = MergedIds(mi, tp, ip)
               /\ local_depths' = lds
               /\ global_depth' = ShrunkDepth(lds, global_depth)
               /\ UNCHANGED dir_pins
       /\ UNCHANGED <<bucket, next_page_id, readers, arg, merge_index, calls>>

-----------------------------------------------------------------------------
Step(t) ==
    \/ GetValue(t) \/ Insert(t) \/ Remove(t)
    \/ GetGlobalDepth(t) \/ VerifyIntegrity(t)
    \/ WLockEnter(t) \/ SplitInsert(t) \/ Merge(t)

Next == \E t \in Threads : Call(t) \/ Step(t)

(* Every thread that is in a call is scheduled; the latch wakes the        *)
(* waiters it releases.  Starting a call is up to the client.              *)
Fairness == \A t \in Threads : WF_vars(Step(t))

Spec == Init /\ [][Next]_vars
FairSpec == Spec /\ Fairness

-----------------------------------------------------------------------------
(* Properties                                                              *)

\* Every variable has its type; depths stay within the directory's bounds.
TypeOK ==
    /\ global_depth \in 0..MaxGlobalDepth
    /\ bucket_page_ids \in [Slots -> PageIds]
    /\ local_depths \in [Slots -> 0..MaxBucketDepth]
    /\ bucket \in [PageIds -> SUBSET Pairs]
    /\ next_page_id \in 2..(MaxPageId + 1)
    /\ readers \in Nat /\ writer_entered \in BOOLEAN /\ dir_pins \in Nat
    /\ pc \in [Threads -> {"idle", "get", "ins", "rem", "depth", "verify",
                           "split_w", "split", "merge_w", "merge"}]
    /\ arg \in [Threads -> Pairs]
    /\ merge_index \in [Threads -> Slots]
    /\ calls \in [Threads -> 0..MaxCalls]

\* Spec 8.3 / 8.4: every active local depth is at most the global depth,
\* and two active slots point at the same bucket, with the same local
\* depth, exactly when they agree on the low local-depth bits.  Splits and
\* merges rewrite many slots at once; a slot missed breaks it.
DirectoryConsistent ==
    \A i, j \in 0..(Size - 1) :
        /\ local_depths[i] <= global_depth
        /\ (bucket_page_ids[i] = bucket_page_ids[j])
               <=> (i % 2^local_depths[i] = j % 2^local_depths[i])
        /\ bucket_page_ids[i] = bucket_page_ids[j]
               => local_depths[i] = local_depths[j]

\* Every stored pair is in the bucket its key's slot points at, so GetValue,
\* Insert and Remove of that key find it.  A rehash with the wrong mask or
\* a slot left pointing at the old bucket strands pairs.
PairsReachable ==
    \A i \in 0..(Size - 1) : \A pr \in bucket[bucket_page_ids[i]] :
        KeyToPageId(pr[1]) = bucket_page_ids[i]

\* The call a thread has in progress, as the multimap sees it: an insert
\* until it returns (through its splits and retries), a remove until its
\* bucket is updated (the Merge that follows has no visible effect).
Pending == [t \in Threads |->
              CASE pc[t] = "get" -> <<"get", arg[t]>>
                [] pc[t] \in {"ins", "split_w", "split"} -> <<"ins", arg[t]>>
                [] pc[t] = "rem" -> <<"rem", arg[t]>>
                [] OTHER -> <<"none">>]

\* The index implements the multimap: through splits, merges and the
\* stale indexes Merge is called with, a pair appears only when an insert
\* of it takes effect and vanishes only when a remove of it does.
Map == INSTANCE MultiMap WITH pairs <- Stored, pending <- Pending
MapRefinement == Map!Spec

\* Every call returns: no thread waits for ever on table_latch_.
AllCallsReturn == \A t \in Threads : pc[t] # "idle" ~> pc[t] = "idle"

\* Every FetchDirectoryPage is matched by an UnpinPage: no pin on the
\* directory page is left behind by a call that has returned.
DirectoryPinsReturned == dir_pins = 0

\* Spec 8 (split/merge law): once every pair is removed and no call is in
\* progress, the directory is back to global depth 0.
EmptyTableShrinks ==
    (Stored = {} /\ \A t \in Threads : pc[t] = "idle") => global_depth = 0

=============================================================================
