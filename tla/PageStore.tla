----------------------------- MODULE PageStore -----------------------------
(***************************************************************************)
(* What the buffer pool promises its callers, with frames, eviction and    *)
(* the disk abstracted away: a store of pages addressed by page id.  A     *)
(* page comes into existence when it is allocated, with zeroed contents,   *)
(* and its contents change only when a caller mutates it.  Contents are a  *)
(* version number: each mutation makes the next version.  Nothing is ever  *)
(* lost: a later read (from a frame or from disk) sees the last version.   *)
(***************************************************************************)
EXTENDS Naturals, TLC

CONSTANT PageIds    \* the page ids the store may hand out

VARIABLE store      \* store[p]: current contents of allocated page p

Init == store = [p \in {} |-> 0]

\* A fresh page id is allocated, zero-filled.
Allocate == \E p \in PageIds \ DOMAIN store : store' = store @@ (p :> 0)

\* A caller mutates an allocated page: its contents become the next version.
Mutate == \E p \in DOMAIN store : store' = [store EXCEPT ![p] = @ + 1]

Next == Allocate \/ Mutate

Spec == Init /\ [][Next]_store

=============================================================================
