------------------------- MODULE MCInsertExecutor -------------------------
(* Transaction 1 runs an InsertExecutor of one raw value under            *)
(* READ_COMMITTED; transaction 2 scans under REPEATABLE_READ.  Two rids:  *)
(* the table heap has room for the insert and one slot to spare.  Each    *)
(* transaction makes one lock call.                                       *)
EXTENDS InsertExecutor, TLC

MCTxns == {1, 2}
MCIso == (1 :> "READ_COMMITTED") @@ (2 :> "REPEATABLE_READ")
MCRole == (1 :> "insert") @@ (2 :> "scan")
MCOps == (1 :> 1) @@ (2 :> 1)
=============================================================================
