CONSTANTS
    PoolSize <- MCPoolSize
    NumInstances <- MCNumInstances
    InstanceIndex <- MCInstanceIndex
    MaxPageId <- MCMaxPageId
    MaxVersion <- MCMaxVersion
    MaxPins <- MCMaxPins
    Clients = {c1, c2}
SPECIFICATION Spec
INVARIANT TypeOK
INVARIANT PageTableBijection
INVARIANT FramePartition
INVARIANT PinCountMatchesHandles
INVARIANT HandlesValid
PROPERTY StoreRefinement
