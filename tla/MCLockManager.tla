-------------------------- MODULE MCLockManager --------------------------
(* Three transactions (1 oldest) over two rids: enough for a wound on one *)
(* rid while the victim waits on the other, for a wait chain of length    *)
(* two, and for REPEATABLE_READ and READ_COMMITTED side by side.  Each    *)
(* transaction makes up to MaxOps[t] lock calls before it ends.          *)
EXTENDS LockManager

MCTxns == {1, 2, 3}
MCIso == (1 :> RR) @@ (2 :> RC) @@ (3 :> RU)

\* Two lock calls for every transaction (the safety runs).
TwoOps == [t \in Txns |-> 2]

\* The liveness run: one call for 1, two each for 2 and 3.  With two rids
\* this has a wait chain of three on one rid, and 2 and 3 each holding one
\* rid and asking for the other, the cycle wound-wait must break.
LiveOps == (1 :> 1) @@ (2 :> 2) @@ (3 :> 2)
=============================================================================
