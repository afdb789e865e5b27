----------------------------- MODULE BufferPool -----------------------------
(***************************************************************************)
(* BufferPoolManagerInstance (src/buffer/buffer_pool_manager_instance.cpp) *)
(* with its LRUReplacer, driven by a set of concurrent callers.  Every     *)
(* public operation holds latch_ for its whole body, so each is one atomic *)
(* step; the interleaving is between the callers.  A caller keeps a handle *)
(* for every Page* it got back (a pin it owes), mutates the bytes through  *)
(* it, and gives it back with UnpinPage(page_id, is_dirty), is_dirty being *)
(* TRUE iff it mutated the page, as the hash table does.  Page bytes are a *)
(* version number; the disk is a map from page id to the version written.  *)
(***************************************************************************)
EXTENDS Integers, Sequences, SequencesExt, FiniteSets

CONSTANTS
    PoolSize,       \* pool_size_
    NumInstances,   \* num_instances_ (stride of AllocatePage)
    InstanceIndex,  \* instance_index_ (first page id of this shard)
    Clients,        \* threads calling the buffer pool
    MaxPageId,      \* bound: no page id above this is allocated
    MaxVersion,     \* bound: page contents stop changing at this version
    MaxPins         \* bound: pages a caller holds pinned at once

ASSUME NumInstances > 0 /\ InstanceIndex \in 0..(NumInstances - 1)

Frames == 0..(PoolSize - 1)
INVALID_PAGE_ID == -1
NoFrame == -1
PageIds == {p \in 0..MaxPageId : p % NumInstances = InstanceIndex}
Versions == 0..MaxVersion

VARIABLES
    page_id,        \* pages_[f].page_id_
    pin_count,      \* pages_[f].pin_count_
    is_dirty,       \* pages_[f].is_dirty_
    data,           \* pages_[f].data_ (a version)
    page_table,     \* page_table_: page id -> frame, NoFrame when absent
    free_list,      \* free_list_
    lru_list,       \* the replacer's lru_list_
    next_page_id,   \* next_page_id_
    disk,           \* DiskManager: the version stored for each page id
    handles         \* handles[c]: the Page* c holds pinned

vars == <<page_id, pin_count, is_dirty, data, page_table, free_list,
          lru_list, next_page_id, disk, handles>>

R == INSTANCE LRUReplacer WITH max_size <- PoolSize

Handle == [page : PageIds, frame : Frames, wrote : BOOLEAN]

\* Pages AllocatePage has handed out so far.
Allocated == {p \in PageIds : p < next_page_id}

Resident(p) == page_table[p] # NoFrame

\* What a read of page p would see: its frame if resident, else the disk.
Content(p) == IF Resident(p) THEN data[page_table[p]] ELSE disk[p]

Held(c, p) == \E h \in handles[c] : h.page = p

-----------------------------------------------------------------------------
(* The constructor: every frame is on the free list, nothing is resident.  *)
Init ==
    /\ page_id = [f \in Frames |-> INVALID_PAGE_ID]
    /\ pin_count = [f \in Frames |-> 0]
    /\ is_dirty = [f \in Frames |-> FALSE]
    /\ data = [f \in Frames |-> 0]
    /\ page_table = [p \in PageIds |-> NoFrame]
    /\ free_list = [i \in 1..PoolSize |-> i - 1]
    /\ lru_list = <<>>
    /\ next_page_id = InstanceIndex
    /\ disk = [p \in PageIds |-> 0]
    /\ handles = [c \in Clients |-> {}]

(* Choosing a frame for a page that is not resident, as NewPgImp and       *)
(* FetchPgImp both do: the head of free_list_ first, else the replacer's   *)
(* victim, whose old page is written back when dirty and erased from       *)
(* page_table_.  With neither, the call returns nullptr and changes        *)
(* nothing, so that outcome is a stuttering step.                          *)
HasFrame == free_list # <<>> \/ lru_list # <<>>
FromFree == free_list # <<>>
VictimFrame == IF FromFree THEN Head(free_list) ELSE R!Victim(lru_list)
FreeListAfter == IF FromFree THEN Tail(free_list) ELSE free_list
LruAfter == IF FromFree THEN lru_list ELSE R!AfterVictim(lru_list)
DiskAfterEvict(f) ==
    IF ~FromFree /\ is_dirty[f] THEN [disk EXCEPT ![page_id[f]] = data[f]]
                                ELSE disk
\* Mutant: the evicted page's entry is left in page_table_.
TableAfterEvict_NoErase(f) == page_table
TableAfterEvict(f) ==
    IF FromFree THEN page_table ELSE [page_table EXCEPT ![page_id[f]] = NoFrame]

(* AllocatePage: the pre-increment value, stepping by num_instances_.      *)
AllocatePage == next_page_id
\* Mutant: next_page_id_ stepped by 1 instead of num_instances_.
NextAfterAllocate_StrideOne == next_page_id + 1
NextAfterAllocate == next_page_id + NumInstances

(* NewPgImp: take a frame, allocate a page id, reset the frame (pinned     *)
(* once, clean, zeroed), map the id to it and pin it in the replacer.      *)
NewPgImp(c) ==
    /\ Cardinality(handles[c]) < MaxPins
    /\ AllocatePage <= MaxPageId
    /\ HasFrame
    /\ LET f == VictimFrame
           p == AllocatePage
       IN /\ disk' = DiskAfterEvict(f)
          /\ page_table' = [TableAfterEvict(f) EXCEPT ![p] = f]
          /\ free_list' = FreeListAfter
          /\ lru_list' = R!Pin(LruAfter, f)
          /\ next_page_id' = NextAfterAllocate
          /\ page_id' = [page_id EXCEPT ![f] = p]
          /\ pin_count' = [pin_count EXCEPT ![f] = 1]
          /\ is_dirty' = [is_dirty EXCEPT ![f] = FALSE]
          /\ data' = [data EXCEPT ![f] = 0]
          /\ handles' = [handles EXCEPT ![c] = @ \cup
                            {[page |-> p, frame |-> f, wrote |-> FALSE]}]

\* Mutant: the resident path forgets pin_count_++.
FetchResident_NoPinIncr(c, p) ==
    LET f == page_table[p] IN
    /\ lru_list' = R!Pin(lru_list, f)
    /\ handles' = [handles EXCEPT ![c] = @ \cup
                      {[page |-> p, frame |-> f, wrote |-> FALSE]}]
    /\ UNCHANGED <<page_id, pin_count, is_dirty, data, page_table, free_list, disk>>
\* Mutant: the resident path forgets replacer_->Pin(frame_id).
FetchResident_NoReplacerPin(c, p) ==
    LET f == page_table[p] IN
    /\ pin_count' = [pin_count EXCEPT ![f] = @ + 1]
    /\ handles' = [handles EXCEPT ![c] = @ \cup
                      {[page |-> p, frame |-> f, wrote |-> FALSE]}]
    /\ UNCHANGED <<page_id, is_dirty, data, page_table, free_list, lru_list, disk>>

(* FetchPgImp(p) when p is resident: one more pin, pinned in the replacer. *)
FetchResident(c, p) ==
    LET f == page_table[p] IN
    /\ pin_count' = [pin_count EXCEPT ![f] = @ + 1]
    /\ lru_list' = R!Pin(lru_list, f)
    /\ handles' = [handles EXCEPT ![c] = @ \cup
                      {[page |-> p, frame |-> f, wrote |-> FALSE]}]
    /\ UNCHANGED <<page_id, is_dirty, data, page_table, free_list, disk>>

(* FetchPgImp(p) when p is not resident: take a frame and read p from disk.*)
FetchFromDisk(c, p) ==
    /\ HasFrame
    /\ LET f == VictimFrame IN
       /\ disk' = DiskAfterEvict(f)
       /\ page_table' = [TableAfterEvict(f) EXCEPT ![p] = f]
       /\ free_list' = FreeListAfter
       /\ lru_list' = R!Pin(LruAfter, f)
       /\ page_id' = [page_id EXCEPT ![f] = p]
       /\ pin_count' = [pin_count EXCEPT ![f] = 1]
       /\ is_dirty' = [is_dirty EXCEPT ![f] = FALSE]
       /\ data' = [data EXCEPT ![f] = disk[p]]
       /\ handles' = [handles EXCEPT ![c] = @ \cup
                         {[page |-> p, frame |-> f, wrote |-> FALSE]}]

(* A caller fetches a page it was given (any allocated id) and does not    *)
(* already hold.                                                           *)
FetchPgImp(c, p) ==
    /\ Cardinality(handles[c]) < MaxPins
    /\ ~Held(c, p)
    /\ IF Resident(p) THEN FetchResident(c, p) ELSE FetchFromDisk(c, p)
    /\ UNCHANGED next_page_id

(* UnpinPgImp(page_id, is_dirty) by the holder of handle h: one pin less,  *)
(* is_dirty_ only ever set (never cleared) here, and the frame goes to the *)
(* replacer when its last pin is gone.                                     *)
\* Mutant: is_dirty_ = is_dirty, the overwrite the comment warns against.
DirtyAfterUnpin_Overwrite(f, dirty) == [is_dirty EXCEPT ![f] = dirty]
\* Mutant: the frame goes to the replacer on every unpin.
LruAfterUnpin_AnyPin(f) == R!Unpin(lru_list, f)
DirtyAfterUnpin(f, dirty) ==
    IF dirty THEN [is_dirty EXCEPT ![f] = TRUE] ELSE is_dirty
LruAfterUnpin(f) ==
    IF pin_count[f] - 1 <= 0 THEN R!Unpin(lru_list, f) ELSE lru_list
UnpinPgImp(c, h) ==
    LET f == page_table[h.page] IN
    /\ pin_count' = [pin_count EXCEPT ![f] = @ - 1]
    /\ is_dirty' = DirtyAfterUnpin(f, h.wrote)
    /\ lru_list' = LruAfterUnpin(f)
    /\ handles' = [handles EXCEPT ![c] = @ \ {h}]
    /\ UNCHANGED <<page_id, data, page_table, free_list, next_page_id, disk>>

(* DeletePgImp(p) of a resident page nobody has pinned: write it back if   *)
(* dirty, drop it from the replacer and page_table_, reset the frame and   *)
(* append it to free_list_.  DeallocatePage is a no-op on disk.  A page    *)
(* that is not resident (TRUE) or is pinned (FALSE) leaves every variable  *)
(* as it was, so those outcomes are stuttering steps.                      *)
DeletePgImp(p) ==
    LET f == page_table[p] IN
    /\ Resident(p)
    /\ pin_count[f] = 0
    /\ disk' = IF is_dirty[f] THEN [disk EXCEPT ![p] = data[f]] ELSE disk
    /\ lru_list' = R!Pin(lru_list, f)
    /\ page_table' = [page_table EXCEPT ![p] = NoFrame]
    /\ is_dirty' = [is_dirty EXCEPT ![f] = FALSE]
    /\ pin_count' = [pin_count EXCEPT ![f] = 0]
    /\ page_id' = [page_id EXCEPT ![f] = INVALID_PAGE_ID]
    /\ data' = [data EXCEPT ![f] = 0]
    /\ free_list' = Append(free_list, f)
    /\ UNCHANGED <<next_page_id, handles>>

(* FlushPgImp(p): write a resident page to disk and mark it clean.         *)
FlushPgImp(p) ==
    LET f == page_table[p] IN
    /\ Resident(p)
    /\ disk' = [disk EXCEPT ![p] = data[f]]
    /\ is_dirty' = [is_dirty EXCEPT ![f] = FALSE]
    /\ UNCHANGED <<page_id, pin_count, data, page_table, free_list, lru_list,
                   next_page_id, handles>>

(* FlushAllPgsImp: write every resident dirty page; dirty bits stay set.   *)
FlushAllPgsImp ==
    /\ disk' = [p \in PageIds |->
                  IF Resident(p) /\ is_dirty[page_table[p]]
                  THEN data[page_table[p]] ELSE disk[p]]
    /\ UNCHANGED <<page_id, pin_count, is_dirty, data, page_table, free_list,
                   lru_list, next_page_id, handles>>

(* A caller mutates the bytes of a page it holds (under the page's WLatch, *)
(* as the hash table's bucket writes do): the next version.                *)
MutatePage(c, h) ==
    /\ data[h.frame] < MaxVersion
    /\ data' = [data EXCEPT ![h.frame] = @ + 1]
    /\ handles' = [handles EXCEPT ![c] = (@ \ {h}) \cup {[h EXCEPT !.wrote = TRUE]}]
    /\ UNCHANGED <<page_id, pin_count, is_dirty, page_table, free_list,
                   lru_list, next_page_id, disk>>

Next ==
    \/ \E c \in Clients :
          \/ NewPgImp(c)
          \/ \E p \in Allocated : FetchPgImp(c, p)
          \/ \E h \in handles[c] : UnpinPgImp(c, h) \/ MutatePage(c, h)
    \/ \E p \in Allocated : DeletePgImp(p) \/ FlushPgImp(p)
    \/ FlushAllPgsImp

Spec == Init /\ [][Next]_vars

-----------------------------------------------------------------------------
(* Properties                                                              *)

\* Every variable has its type, and the next page id maps back to this
\* shard as ValidatePageId asserts (page_id % num_instances_ ==
\* instance_index_) for every id AllocatePage returns.
TypeOK ==
    /\ page_id \in [Frames -> PageIds \cup {INVALID_PAGE_ID}]
    /\ pin_count \in [Frames -> Nat]
    /\ is_dirty \in [Frames -> BOOLEAN]
    /\ data \in [Frames -> Versions]
    /\ page_table \in [PageIds -> Frames \cup {NoFrame}]
    /\ free_list \in Seq(Frames)
    /\ lru_list \in Seq(Frames)
    /\ next_page_id % NumInstances = InstanceIndex
    /\ disk \in [PageIds -> Versions]
    /\ handles \in [Clients -> SUBSET Handle]

\* Spec 3 / 8.1: page_table_ is a bijection between resident page ids and
\* the frames holding them, and a frame holds no page iff it is on the
\* free list.  A missed erase on eviction or delete breaks it.
PageTableBijection ==
    /\ \A p \in PageIds : Resident(p) => page_id[page_table[p]] = p
    /\ \A f \in Frames : page_id[f] # INVALID_PAGE_ID => page_table[page_id[f]] = f
    /\ \A f \in Frames : Contains(free_list, f) <=> page_id[f] = INVALID_PAGE_ID

\* Spec 3 / 8.2: each frame is in exactly one of free_list_, the replacer
\* and the pinned set, and neither list holds a frame twice.  Breaks when a
\* frame that changes hands is not pinned in / unpinned to the replacer.
FramePartition ==
    LET Free == ToSet(free_list)
        Evictable == ToSet(lru_list)
        Pinned == {f \in Frames : pin_count[f] > 0}
    IN /\ Len(free_list) = Cardinality(Free)
       /\ Len(lru_list) = Cardinality(Evictable)
       /\ Free \cap Evictable = {} /\ Free \cap Pinned = {}
       /\ Evictable \cap Pinned = {}
       /\ Free \cup Evictable \cup Pinned = Frames

\* Spec 8.6: the pin count of every frame is the number of Page* handles
\* callers still hold on its page, so every pin is given back exactly once.
PinCountMatchesHandles ==
    \A f \in Frames :
        pin_count[f] = Cardinality({c \in Clients :
                          \E h \in handles[c] : h.frame = f /\ h.page = page_id[f]})

\* A page a caller holds pinned is never evicted or moved: the frame its
\* Page* points at still holds that page.  Broken by any path that lets a
\* pinned frame reach the replacer's victim or the free list.
HandlesValid ==
    \A c \in Clients : \A h \in handles[c] :
        page_id[h.frame] = h.page /\ page_table[h.page] = h.frame

\* The buffer pool implements the page store: through evictions,
\* write-backs, deletes and flushes, a page's contents only ever become
\* its next version by a caller's mutation, and no mutation is lost.
Store == INSTANCE PageStore WITH store <- [p \in Allocated |-> Content(p)]
StoreRefinement == Store!Spec

=============================================================================
