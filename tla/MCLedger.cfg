CONSTANTS
    Sessions = {s1, s2}
    NoSession = NoSession
    first = first
    second = second
    Contents <- MCContents
    Batches <- MCBatches
    MaxLedger = 6
SPECIFICATION FollowerSpec
SYMMETRY MCSymmetry
INVARIANTS
    ChainIntact
    ChainNeverForks
    FollowerMissesNothing
PROPERTIES
    LogSpec
    OnlyTheTailCanBeRewritten
