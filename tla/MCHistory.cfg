SPECIFICATION Spec
CONSTANTS
    None = None
    k1 = k1
    k2 = k2
    Keys = {k1, k2}
    t1 = t1
    t2 = t2
    l1 = l1
    l2 = l2
    Vals <- MCVals
    Text <- MCText
    Configs <- MCConfigs
    Samples <- MCSamples
    MaxId = 3
    MaxBackups = 3
    MaxFaults = 2
    MaxViews = 1
INVARIANTS
    TypeOK
    BlameDescribes
    WalkChangesIndexed
    CumulativeSound
    CachedDiffTrue
    DiffSeesAll
    AnchorsRoundTrip
CHECK_DEADLOCK FALSE
