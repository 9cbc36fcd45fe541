SPECIFICATION Spec
CONSTANTS
    i1 = i1
    i2 = i2
    n1 = n1
    n2 = n2
    n3 = n3
    f = f
    g = g
    Null = Null
    Images <- MCImages
    Nodes <- MCNodes
    Callbacks <- MCCallbacks
    Rules <- AllRules
INVARIANTS
    TypeOK
    Linked
    NoMisuse
    GetsLatest
PROPERTIES
    ImplementsAttachments
    DestructionEnds
