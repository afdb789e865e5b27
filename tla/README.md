# TLA+ models of the disk-oriented storage manager

This directory holds TLA+ models of the buffer pool, the LRU replacer, the
row lock manager and the extendible hash index under `src/`, with the TLC
configurations that check them, and the insert executor composed with the
lock manager.

## The system

| Part | Source | State | Operations |
|---|---|---|---|
| LRU replacer | `src/buffer/lru_replacer.cpp` | `lru_list_` (front = most recently unpinned), `lru_hash_` index | `Victim`, `Pin`, `Unpin` |
| Buffer pool instance | `src/buffer/buffer_pool_manager_instance.cpp` | `pages_` (page id, pin count, dirty bit, bytes), `page_table_`, `free_list_`, `next_page_id_`, the replacer | `NewPgImp`, `FetchPgImp`, `UnpinPgImp`, `DeletePgImp`, `FlushPgImp`, `FlushAllPgsImp`, `AllocatePage` |
| Lock manager | `src/concurrency/lock_manager.cpp` | `lock_table_`: one request queue per rid (txn, mode, granted) and a `cv_` per queue; each txn's state and shared/exclusive lock sets | `LockShared`, `LockExclusive`, `LockUpgrade`, `Unlock`, with the `NeedWait`/`NeedWaitUpdate` wound-wait loops |
| Extendible hash table | `src/container/hash/extendible_hash_table.cpp` | directory page and bucket pages, which live in the buffer pool; `table_latch_` (a reader-writer latch) and per-page latches | `GetValue`, `Insert`, `SplitInsert`, `Remove`, `Merge`, `GetGlobalDepth`, `VerifyIntegrity` |
| Insert executor | `src/execution/insert_executor.cpp` | iterator over the tuples to insert | `Next`: insert the tuple, take X on its rid (an upgrade if it holds S), update the indexes, and unlock unless REPEATABLE_READ |
| Not under `src/` | TransactionManager, DiskManager, directory and bucket pages, table heap | | |

How the parts interact:

- The hash table and the executors call the buffer pool. Every fetched page is
  pinned until the caller unpins it.
- The buffer pool calls the replacer under its own `latch_`.
- The executors call the lock manager.
- A lock call blocks on a queue's `cv_`. It is woken by `Unlock`, or by
  another thread's wound on the same queue.
- The TransactionManager commits or aborts a transaction and then releases its
  locks through `Unlock`.

## Modules

- **`LRUReplacer`**
  - The replacer's three operations as operators over a sequence of frame ids.
  - `lru_hash_` only indexes the list, so it is not kept.
  - The module has no variables. `BufferPool` instantiates it.
- **`PageStore`**
  - The abstract specification of what the buffer pool promises.
  - It is a map from allocated page ids to contents, where contents are a
    version number.
  - Its actions are `Allocate` (zeroed contents) and `Mutate` (the next
    version).
- **`BufferPool`**
  - One instance shared by a set of `Clients`.
  - **Variables** mirror the fields: `page_id`, `pin_count`, `is_dirty` and
    `data` per frame, plus `page_table`, `free_list`, `lru_list`,
    `next_page_id`, and the disk (page id ↦ last version written).
  - **`handles[c]`** is the set of `Page*` that client `c` holds pinned. Each
    handle records whether `c` wrote through it.
  - **Actions.** Every public method holds `latch_` for its whole body, so each
    is one atomic action:
    - `NewPgImp`
    - `FetchPgImp`, split into `FetchResident` and `FetchFromDisk`
    - `UnpinPgImp`
    - `DeletePgImp`
    - `FlushPgImp`
    - `FlushAllPgsImp`
    - `MutatePage`: the caller's write to a pinned page, as the hash table's
      bucket insert does under the page's write latch.
  - **Stuttering outcomes.** A `nullptr` result or a `false` return changes no
    variable, so those outcomes are stuttering steps.
  - **Page contents are abstracted to a version number.** The only thing a
    property needs to tell apart is which write a reader sees.
- **`LockManager`**
  - One thread per transaction.
  - **Two steps per lock call.** The checks before `latch_` (`CheckAbort`,
    isolation level, state, already locked) are one step. That step sets
    `pc = "latch"`.
  - **The latched part** (`Enqueue` for S/X, `UpgradeLatched` for upgrades)
    appends the request and evaluates the wait loop's condition once:
    - It applies the wounds and signals the queue.
    - It then either grants, through `Settle`, or blocks with
      `pc = "wait"`.
  - **Wakeups.** `WakeAborted` and `WakeRecheck` model a return from
    `cv_.wait`, after a `notify_all` (`signalled`) or spuriously.
  - **`UnlockCall`** is an executor's unlock.
  - **TransactionManager.** `Commit`, `Abort`, `ReleaseLock` and `Released`
    model it, from the spec, because that code is not under `src/`.
  - **`Disciplined`.** When TRUE, callers behave like `InsertExecutor`: they
    never call `LockShared` or `LockExclusive` on a rid they already hold, and
    they use `LockUpgrade` instead.
- **`MultiMap`**
  - The abstract specification of the hash index: a set of (key, value)
    pairs and, per thread, the call in progress.
  - A pair appears only when an insert of it takes effect, and vanishes
    only when a remove of it does. A lookup, or an insert refused at
    `MAX_BUCKET_DEPTH`, returns without effect.
- **`ExtendibleHashTable`**
  - Concurrent `Threads`, each making at most `MaxCalls` calls.
  - **Variables** mirror the directory page (`global_depth`,
    `bucket_page_ids`, `local_depths`) and the bucket pages (`bucket[p]`, a
    set of pairs). They also hold `next_page_id` for `NewPage`, the
    latch's `readers` and `writer_entered`, and `dir_pins`, the pins on the
    directory page that no call gives back.
  - **Actions.** A section between `table_latch_.RLock` and `RUnlock` is one
    step: `GetValue`, `Insert`, `Remove`, `GetGlobalDepth` and `VerifyIntegrity`
    (lines 366-388; the last two only read, but they hold the read latch
    and so delay a writer). Writers are excluded then, and
    readers of one bucket are serialised by its page latch. `WLock` takes two
    steps: `WLockEnter` announces the writer, and the write section
    (`SplitInsert`, `Merge`) starts only when `readers = 0`.
  - **`SplitInsert`** follows the code line by line in effect:
    - the `MAX_BUCKET_DEPTH` return;
    - the directory growth;
    - the four loops of lines 199-222 (`SplitIds`, `SplitDepths`);
    - the rehash with the new mask (`ToImage`);
    - the retry of `Insert`.
  - **`Merge`** uses the index `Remove` computed before it dropped the read
    latch. It has the code's early returns, the fold loop (`MergedIds`,
    `MergedDepths`) and the `while (CanShrink())` loop (`ShrunkDepth`).
  - **`InsertReleasesLatch`.** FALSE is the code as written: the fast path
    of `Insert` returns without `RUnlock`. TRUE adds the missing call. With
    FALSE no split or merge can ever run, so every other question is asked
    with TRUE.
  - The directory and bucket pages and the latch are not under `src/`. Their
    operators (`Size`, `GetLocalHighBit`, `Grown`, `CanShrink`, `IsFull`,
    `CanRead`, `WLockEnter`) are modelled from the spec.
- **`InsertExecutor`** composes `InsertExecutor::Next` with the lock manager.
  - It declares `LockManager`'s constants and variables and instantiates it
    as `LM`. Every lock step is an `LM` action, conjoined with the update of
    the executor's own variables.
  - **Variables.** `heap` holds the rids whose tuples are in the table heap,
    and `writer[r]` is the transaction that inserted at `r`. `epc` is where
    each executor is, `iter` is `iter_`, and `cur` is `*rid`.
  - **`NextTuple`** (lines 36-57) either returns false (values exhausted, or
    no free slot) or puts a fresh rid into `heap`.
  - **`LockRid`** (60-71) is the unlatched half of `LockUpgrade` or
    `LockExclusive`, or `CheckAbort` returning false.
  - **`LockReturn`** is the lock manager's latched half and wakeups. When the
    executor's call returns, it goes on or throws.
  - **`IndexAndUnlock`** (73-87) covers the index update, whose effect is
    abstracted, and then the `Unlock` unless REPEATABLE_READ, and the
    recursion.
  - **Modelled from the spec** (not under `src/`):
    - other transactions scan: `ScanLock` takes S on a tuple in the heap,
      and `ScanUnlock` releases it under READ_COMMITTED;
    - the TransactionManager commits, or aborts and rolls the inserted
      tuples out of the heap.
- **`MCBufferPool`**, **`MCLockManager`**, **`MCExtendibleHashTable`** and
  **`MCInsertExecutor`** give
  the constants their values for TLC.

`PROJECT.json` maps every definition to the source lines it translates.

## Runs

| Run | Config | Bounds | Checks | Result |
|---|---|---|---|---|
| `bp_safety` | `MCBufferPool.cfg` | 2 frames, clients `c1,c2`, instance 1 of 2 (ids 1,3,5), ≤2 pins each, versions ≤2 | `TypeOK`, `PageTableBijection`, `FramePartition`, `PinCountMatchesHandles`, `HandlesValid`, refinement of `PageStore` | pass (about 96k states) |
| `lm_safety` | `MCLockManager.cfg` | txns 1,2,3 at RR, RC, RU; rids `r1,r2`; ≤2 lock calls each; disciplined | `TypeOK`, `QueueMatchesLockSets`, `WaitsOnlyForOlder`, `TwoPhaseLocking` | pass (about 568k states) |
| `lm_live` | `MCLockManagerLive.cfg` | 3 txns, rids `r1,r2`, 1, 2 and 2 lock calls | `AllTxnsFinish` under `FairSpec` | pass (about 150k states) |
| `lm_terminal_final` | `MCLockManager_TerminalIsFinal.cfg` | as `lm_safety` | `TerminalIsFinal` | **violated** |
| `lm_exclusive` | `MCLockManager_ExclusiveIsExclusive.cfg` | as `lm_safety` | `ExclusiveIsExclusive` | **violated** |
| `lm_upgrade_queue` | `MCLockManager_ExclusiveSetMatchesQueue.cfg` | as `lm_safety` | `ExclusiveSetMatchesQueue` | **violated** |
| `lm_orphan` | `MCLockManager_AllTxnsFinish.cfg` | txns 1,2, rid `r1`, ≤2 lock calls each, callers not disciplined | `AllTxnsFinish` under `FairSpec` | **violated** |
| `ht_safety` | `MCExtendibleHashTable.cfg` | threads `t1,t2`, ≤2 calls each; keys with hashes 0, 1, 8, 3; one pair per bucket; directory ≤8 slots; `MAX_BUCKET_DEPTH` 3; missing `RUnlock` added | `TypeOK`, `DirectoryConsistent`, `PairsReachable`, refinement of `MultiMap`, `AllCallsReturn` under `FairSpec` | pass (about 123k states) |
| `ht_read_latch_leak` | `MCExtendibleHashTable_AllCallsReturn.cfg` | one thread, code as written | `AllCallsReturn` | **violated** |
| `ht_merge_pin_leak` | `MCExtendibleHashTable_DirectoryPinsReturned.cfg` | two threads, keys with hashes 0, 1, 4, directory ≤4 slots | `DirectoryPinsReturned` | **violated** |
| `ht_no_cascade` | `MCExtendibleHashTable_EmptyTableShrinks.cfg` | as `ht_merge_pin_leak` | `EmptyTableShrinks` | **violated** |
| `ie_dirty_read` | `MCInsertExecutor_NoDirtyRead.cfg` | txn 1 inserts one value (RC), txn 2 scans (RR); two heap slots | `NoDirtyRead` | **violated** |

What the runs show:

- **The buffer pool is correct under concurrent callers.**
  - The page table is a bijection between resident pages and their frames.
  - Every frame is in exactly one of the free list, the replacer and the
    pinned set.
  - Every pin count equals the handles held on that frame.
  - No pinned page is evicted or moved.
  - The pool implements `PageStore`: no write is lost through evictions,
    write-backs, deletes and flushes. In particular, a clean unpin never
    clears a dirty bit set by another caller.
- **The lock manager keeps its bookkeeping consistent for disciplined
  callers.**
  - Lock sets and queues agree.
  - Two-phase locking holds for REPEATABLE_READ.
  - A thread blocked in `cv_.wait` and not yet notified always has an
    older transaction's request ahead of it (`WaitsOnlyForOlder`), so waits
    never form a cycle. This is checked at the full three-transaction
    scope, which the liveness run cannot reach.
  - Wound-wait lets every transaction finish, including on the
    opposite-order two-rid deadlock shape.
- **The hash index keeps its directory right under concurrent calls** (with
  the missing `RUnlock` added).
  - The directory satisfies spec 8.3/8.4 after every split and merge.
  - Every stored pair lies in the bucket its key indexes.
  - The index implements `MultiMap`. No pair is lost or invented by a
    split, a failed split, a merge, or a merge run with a stale index.
  - Every call returns under fair scheduling.
- **The eight violations are real disagreements between the code and the
  spec** (see `findings` in `PROJECT.json`):
  1. A wounding requester is granted at once, beside the granted request of
     the younger transaction it wounded. In TLC's trace, txn 2 holds r1
     EXCLUSIVE, and the older txn 1's `LockShared` wounds it and is granted
     SHARED while txn 2's EXCLUSIVE grant is still in the queue.
  2. `LockUpgrade` updates copies of the queue entries, so the queue still
     says SHARED.
  3. `LockShared` followed by `LockExclusive` on the same rid leaves an orphan
     request that blocks later waiters for ever.
  4. A terminal transaction state is rewritten. TLC's shortest trace is a
     wound that turns a COMMITTED transaction, whose locks are not yet
     released, into ABORTED. The same property also covers the grant's
     `SetState(GROWING)` after an unlatched `CheckAbort`, which revives a
     wounded transaction.
  5. `Insert` leaves `table_latch_` read-locked. The next insert into a full
     bucket blocks for ever in `WLock`.
  6. `Merge` with an index made stale by a concurrent shrink returns without
     unpinning the directory page.
  7. Merges do not cascade, so removing every pair can leave global depth 1,
     against the spec's split/merge law.
  8. `InsertExecutor` puts the tuple into the table heap before it locks the
     rid. A scan locks the rid shared and reads the uncommitted tuple, though
     the spec says executors consult the lock manager before mutating
     tuples. Under READ_COMMITTED the early `Unlock` opens a second window
     that lasts until the commit.

Every property of a passing run has a mutant in `PROJECT.json`: a plausible
bug in the mapped code, which TLC finds violating that property.

### Bounds

- **Buffer pool.** Two frames and two clients are enough for every case the
  properties care about:
  - eviction of a dirty page;
  - a frame pinned by two callers;
  - one caller unpinning dirty and the other clean;
  - a delete and a flush racing fetches;
  - both the free-list and the replacer paths;
  - `nullptr` when every frame is pinned.

  Page ids 1, 3 and 5 give three pages for two frames, so some page is always
  on disk only. Instance 1 of 2 makes the allocation stride matter.
- **Lock manager.**
  - Three transactions give a wound by the oldest while the middle one waits.
  - Two rids give the cross-order deadlock shape.
  - The three isolation levels exercise the RU self-abort and the RR
    shrinking rule.
  - `MaxOps[t]` bounds the lock calls of `t`. In the safety runs every
    transaction makes two, which allows lock / unlock / lock and an upgrade
    after a shared lock.
  - The liveness run gives 1, 2 and 2 calls to transactions 1, 2 and 3.
    This covers a wait chain of three on one rid. It also covers 2 and 3
    locking the two rids in opposite orders. Two calls each (about 210k
    states) is too slow for liveness checking.
- **Insert executor.** One inserted value and one scan reach the violation in
  three steps; a second heap slot lets `NextTuple` choose among free rids.

- **Hash index.**
  - The four hashes end in binary 000, 001, 1000 and 011:
    - k1 and k3 agree on three bits, so their bucket splits three times,
      grows the directory to 8 slots, and then `Insert` fails at
      `MAX_BUCKET_DEPTH`;
    - k2 and k4 then split a depth-1 bucket under global depth 3, so the
      split loops rewrite slots beyond the bucket and its image.
  - With one pair per bucket, every second insert into a bucket splits.
  - Two threads give the stale merge index and a split racing a remove.
  - The violation runs use three keys and 4 slots, which suffice and keep
    the traces short.
  - `MaxPageId = 8` is never reached. Four inserts cause at most four
    splits, and a split blocked by the bound would show as a violation of
    `AllCallsReturn`.

### Fairness

Used only in `FairSpec` (the liveness runs):

- `Enqueue` and `UpgradeLatched` are weakly fair (one condition for both, as
  only one of them is ever enabled for a thread). A thread that has passed its
  checks eventually gets the latch, since `latch_` is a `std::mutex` held only
  briefly.
- A waiter that has been signalled eventually wakes, because `notify_all`
  wakes every waiter on the condition variable. Spurious wakeups get no
  fairness.
- Every transaction eventually commits or aborts, and the TransactionManager
  then releases all its locks.

In `ExtendibleHashTable`, every thread that is in a call is weakly fair.
The threads are OS threads, and the latch wakes the waiters it releases.
Starting a call is up to the client, so `Call` has no fairness.

Deadlock checking is off in the lock-manager and hash-index configs. There, the state in
which every transaction is `done`, or every thread has made its calls, is
the legitimate end. Every other stop
would show up as a liveness violation in the fair runs.

## Not modelled, and why

- **Page pins and page latches of the hash index, other than the directory
  pin `Merge` leaks.** In the debug build every fetch is matched by an unpin
  on every path, and the table latch already serialises what the page
  latches protect. The `UnpinPage` calls inside `assert()` vanish under
  `NDEBUG`. That is a build configuration, and showing it needs the index
  composed with `BufferPool`, which is not done.
- **Bucket tombstones and byte layout.** A bucket is a set of pairs.
- **Two lock-manager violations found in the first models are not re-run.**
  `upgrading_` is never set (line 162), so a second concurrent upgrade is not
  refused; reading the code shows this. The grant's `SetState(GROWING)` that
  revives a wounded transaction is covered by `TerminalIsFinal`, whose
  shortest trace is the commit case.
- **Catalog, index maintenance and tuple contents** (in `InsertExecutor`).
  They are outside `src/` or pure data. The index update is a step with no
  effect, so the ignored result of `InsertEntry` (line 75) is not checked.
  Inserts fed by a child executor are not modelled. The table heap is only
  the set of rids that hold a tuple.
- **A passing run of `InsertExecutor`.** The project keeps twelve runs, and
  the composition's run is spent on the dirty-read violation.
- **DiskManager I/O and LogManager.** The disk is a map and is never wrong.
  The log manager is unused under `src/`.
- **The replacer's `Size()` and `GetPageId()`-style getters.** They do not
  change state.

## Plan

1. **Compose `ExtendibleHashTable` with `BufferPool`.** Make `FetchPage`,
   `UnpinPage`, `NewPage` and `DeletePage` `BufferPool` actions, to check
   that pins balance and to show the `NDEBUG` exhaustion.
2. **`InsertExecutor` with the index.** Let `IndexAndUnlock` call the hash
   table's `Insert`, so that a refused entry leaves a tuple without an index
   entry.
