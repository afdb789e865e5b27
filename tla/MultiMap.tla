----------------------------- MODULE MultiMap -----------------------------
(***************************************************************************)
(* What the extendible hash index promises, with directory, buckets and    *)
(* pages abstracted away: a set of (key, value) pairs, changed only by the *)
(* calls threads make.  Duplicate keys with distinct values may coexist;   *)
(* an exact duplicate pair is not added twice.  Each call takes effect at  *)
(* one instant: an insert adds its own pair, a remove takes its own pair   *)
(* away, and a call may also return without effect (a lookup, an insert    *)
(* refused because the bucket cannot split).  Splits, merges and directory *)
(* changes are invisible here.                                             *)
(***************************************************************************)
CONSTANTS
    Pairs,      \* the (key, value) pairs callers may store
    Threads     \* the callers

VARIABLES
    pairs,      \* the pairs the index currently holds
    pending     \* pending[t]: the call t has made and not yet returned

Ops == {"get", "ins", "rem"}
NoCall == <<"none">>

Init == pairs = {} /\ pending = [t \in Threads |-> NoCall]

Invoke(t) ==
    /\ pending[t] = NoCall
    /\ \E op \in Ops, pr \in Pairs : pending' = [pending EXCEPT ![t] = <<op, pr>>]
    /\ UNCHANGED pairs

Put(t) ==
    /\ pending[t] # NoCall /\ pending[t][1] = "ins"
    /\ pairs' = pairs \cup {pending[t][2]}
    /\ pending' = [pending EXCEPT ![t] = NoCall]

Delete(t) ==
    /\ pending[t] # NoCall /\ pending[t][1] = "rem"
    /\ pairs' = pairs \ {pending[t][2]}
    /\ pending' = [pending EXCEPT ![t] = NoCall]

Return(t) ==
    /\ pending[t] # NoCall /\ pending[t][1] \in {"get", "ins"}
    /\ pending' = [pending EXCEPT ![t] = NoCall]
    /\ UNCHANGED pairs

Next == \E t \in Threads : Invoke(t) \/ Put(t) \/ Delete(t) \/ Return(t)

Spec == Init /\ [][Next]_<<pairs, pending>>

=============================================================================
