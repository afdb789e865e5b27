CONSTANTS
    k1 = k1
    k2 = k2
    k3 = k3
    k4 = k4
    v1 = v1
    Threads = {t1}
    Keys <- MCKeys
    Vals <- MCVals
    Hash <- MCHash
    BucketSize = 1
    MaxBucketDepth = 2
    MaxGlobalDepth = 2
    MaxPageId = 8
    MaxCalls = 2
    InsertReleasesLatch = FALSE
SPECIFICATION FairSpec
PROPERTY AllCallsReturn
CHECK_DEADLOCK FALSE
