SPECIFICATION LoopSpec
CONSTANTS
    a = a
    b = b
    c = c
    Images <- MCImages
    IntMax = 15
    MaxWait = 5
    Results = {"error"}
    Cells = {c1, c2}
    NumRegions = 2
    InfiniteDamage = InfiniteDamage
    NoRegion = NoRegion
    Distrusted <- LastOnly
INVARIANTS
    PointsIntoRing

