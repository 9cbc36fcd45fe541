SPECIFICATION Spec
CONSTANTS
    Cells = {c1, c2, c3}
    NumRegions = 3
    Ages <- AgesAnswerable
    InfiniteDamage = InfiniteDamage
    NoRegion = NoRegion
INVARIANTS
    TypeOK
    OlderIncludesYounger
PROPERTIES
    ImplementsByAge
