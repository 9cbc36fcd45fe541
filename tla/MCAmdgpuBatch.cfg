SPECIFICATION Spec
CONSTANTS
    t1 = t1
    t2 = t2
    tex = tex
    red = red
    Images <- TwoImages
    Masks <- NoMasks
    Targets <- OneTarget
    Textures <- MCTextures
    Solids <- MCSolids
    Calls <- MCCalls
    Cells <- MCCells
    Origins = {0, 1}
    Ops = {0}
    NoImage = NoImage
    NoCall = NoCall
    Blank = Blank
    StreamCap = 664
    VertexCap = 2
    PreambleLen = 278
    BindLen = 12
    DrawLen = 15
    Align = 8
    RingCap = 1
    Failures <- MayRefuse
    Rules <- Undeclared
INVARIANT DrawsTile
PROPERTIES
    PaintsAsAsked
CHECK_DEADLOCK FALSE
