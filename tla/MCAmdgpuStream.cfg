SPECIFICATION Spec
CONSTANTS
    t1 = t1
    t2 = t2
    tex = tex
    red = red
    Images <- OneTarget
    Masks <- NoMasks
    Targets <- OneTarget
    Textures <- NoMasks
    Solids <- MCSolids
    Calls <- NoCalls
    Cells <- MCCells
    Origins = {0}
    Ops = {0}
    NoImage = NoImage
    NoCall = NoCall
    Blank = Blank
    StreamCap = 20480
    VertexCap = 1
    PreambleLen = 278
    BindLen = 12
    DrawLen = 15
    Align = 8
    RingCap = 1
    Failures <- NoFailures
    Rules <- Unmetered
INVARIANTS
    StreamFits
CHECK_DEADLOCK FALSE
