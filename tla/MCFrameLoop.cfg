SPECIFICATION LoopSpec
CONSTANTS
    a = a
    b = b
    c = c
    Images <- MCImages
    IntMax = 7
    MaxWait = 3
    Results = {"error", "suboptimal"}
    Cells = {c1, c2}
    NumRegions = 2
    InfiniteDamage = InfiniteDamage
    NoRegion = NoRegion
    Distrusted <- NegativeAndLast
INVARIANTS
    TypeOK
    AgeCountsFrames
    DistinctAges
    AgesGoOn
    FramesUpToDate
    TrackedDamageCovers
PROPERTIES
    AcquireServed
CHECK_DEADLOCK FALSE
