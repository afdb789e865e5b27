CONSTANTS
    Txns <- MCTxns
    Iso <- MCIso
    Rids = {r1, r2}
    MaxOps <- TwoOps
    Disciplined = TRUE
SPECIFICATION Spec
INVARIANT TypeOK
INVARIANT QueueMatchesLockSets
INVARIANT WaitsOnlyForOlder
PROPERTY TwoPhaseLocking
CHECK_DEADLOCK FALSE
