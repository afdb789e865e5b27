CONSTANTS
    Txns <- MCTxns
    Iso <- MCIso
    Rids = {r1, r2}
    MaxOps <- LiveOps
    Disciplined = TRUE
SPECIFICATION FairSpec
PROPERTY AllTxnsFinish
CHECK_DEADLOCK FALSE
