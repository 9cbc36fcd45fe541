SPECIFICATION Spec
CONSTANTS
    t1 = t1
    t2 = t2
    tex = tex
    red = red
    Images <- MCTargets
    Masks <- NoMasks
    Targets <- MCTargets
    Textures <- NoMasks
    Solids <- MCSolids
    Calls <- OneRect
    Cells <- MCCells
    Origins = {0}
    Ops = {0}
    NoImage = NoImage
    NoCall = NoCall
    Blank = Blank
    StreamCap = 691
    VertexCap = 1
    PreambleLen = 278
    BindLen = 12
    DrawLen = 15
    Align = 8
    RingCap = 2
    Failures <- NoFailures
    Rules <- AllRules
INVARIANTS
    TypeOK
    NoMisuse
    DrawsTile
PROPERTIES
    AppendOnly
    PaintsAsAsked
    EverythingPainted
CHECK_DEADLOCK FALSE
