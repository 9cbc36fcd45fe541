SPECIFICATION Spec
CONSTANTS
    Cells = {c1, c2}
    NumRegions = 3
    Ages <- AgesAll
    InfiniteDamage = InfiniteDamage
    NoRegion = NoRegion
INVARIANTS
    UntrackedIsEverything
