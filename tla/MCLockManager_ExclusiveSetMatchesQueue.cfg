CONSTANTS
    Txns <- MCTxns
    Iso <- MCIso
    Rids = {r1, r2}
    MaxOps <- TwoOps
    Disciplined = TRUE
SPECIFICATION Spec
INVARIANT ExclusiveSetMatchesQueue
