CONSTANTS
    Txns = {1, 2}
    Iso <- MCIso
    Rids = {r1}
    MaxOps <- TwoOps
    Disciplined = FALSE
SPECIFICATION FairSpec
PROPERTY AllTxnsFinish
CHECK_DEADLOCK FALSE
