CONSTANTS
    Txns <- MCTxns
    Iso <- MCIso
    Role <- MCRole
    Rids = {r1, r2}
    MaxOps <- MCOps
    NTuples = 1
    Disciplined = TRUE
SPECIFICATION Spec
INVARIANT NoDirtyRead
