---------------------- MODULE MCExtendibleHashTable ----------------------
(* Three keys whose hashes end in binary 00, 01 and 100 over a directory *)
(* of at most 4 slots with one pair per bucket: k1 and k2 split apart at *)
(* depth 1, while k1 and k3 agree on the low two bits, so their bucket   *)
(* can never be split at MAX_BUCKET_DEPTH 2 and an Insert fails.         *)
EXTENDS ExtendibleHashTable, TLC

CONSTANTS k1, k2, k3, k4, v1

MCKeys == {k1, k2, k3}
MCVals == {v1}
MCHash == (k1 :> 0) @@ (k2 :> 1) @@ (k3 :> 4)

(* A deeper directory of 8 slots.  k1 and k3 (hash 1000) agree on the    *)
(* low three bits: their bucket splits three times, growing the directory *)
(* to depth 3, and then Insert fails at MAX_BUCKET_DEPTH 3.  That leaves   *)
(* the bucket of k2 (hash 01) at depth 1 behind four slots; k4 (hash 11)   *)
(* splits it at depth 2 under global depth 3, so the split rewrites slots  *)
(* beyond the bucket and its image.                                        *)
MCKeysDeep == {k1, k2, k3, k4}
MCHashDeep == (k1 :> 0) @@ (k2 :> 1) @@ (k3 :> 8) @@ (k4 :> 3)
============================================================================
