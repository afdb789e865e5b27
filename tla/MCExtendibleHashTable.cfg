CONSTANTS
    k1 = k1
    k2 = k2
    k3 = k3
    k4 = k4
    v1 = v1
    Threads = {t1, t2}
    Keys <- MCKeysDeep
    Vals <- MCVals
    Hash <- MCHashDeep
    BucketSize = 1
    MaxBucketDepth = 3
    MaxGlobalDepth = 3
    MaxPageId = 8
    MaxCalls = 2
    InsertReleasesLatch = TRUE
SPECIFICATION FairSpec
INVARIANT TypeOK
INVARIANT DirectoryConsistent
INVARIANT PairsReachable
PROPERTY MapRefinement
PROPERTY AllCallsReturn
CHECK_DEADLOCK FALSE
