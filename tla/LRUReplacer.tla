---------------------------- MODULE LRUReplacer ----------------------------
(***************************************************************************)
(* The LRU replacer of src/buffer/lru_replacer.cpp as operators over its   *)
(* list lru_list_: the most recently unpinned frame at the front (index 1) *)
(* and the victim at the back.  lru_hash_ only indexes the list, so it is  *)
(* not kept: membership in the list is what it answers.  Every operation   *)
(* runs under the replacer's mutex_, and it is only ever called under the  *)
(* buffer pool's latch_, so each is one atomic step of its caller.         *)
(***************************************************************************)
EXTENDS Naturals, Sequences, SequencesExt

CONSTANT max_size   \* max_size_: the pool size the replacer was built with

\* Victim(): the frame at the back of the list (caller checks non-empty).
Victim(l) == l[Len(l)]

\* Victim() also pops that frame off the back of the list.
AfterVictim(l) == SubSeq(l, 1, Len(l) - 1)

\* Pin(f): erase f when it is in the list; otherwise nothing happens.
Pin(l, f) == Remove(l, f)

\* Unpin(f): no-op when f is already in the list or the list is at
\* max_size_; otherwise f goes to the front.
Unpin(l, f) ==
    IF Contains(l, f) \/ Len(l) >= max_size THEN l ELSE <<f>> \o l

=============================================================================
