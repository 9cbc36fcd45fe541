SPECIFICATION Spec
CONSTANTS
    t1 = t1
    t2 = t2
    tex = tex
    red = red
    Images <- TwoImages
    Masks <- NoMasks
    Targets <- OneTarget
    Textures <- MCTextures
    Solids <- MCSolids
    Calls <- OneRect
    Cells <- MCCells
    Origins = {0, 1}
    Ops = {0}
    NoImage = NoImage
    NoCall = NoCall
    Blank = Blank
    StreamCap = 691
    VertexCap = 2
    PreambleLen = 278
    BindLen = 12
    DrawLen = 15
    Align = 8
    RingCap = 1
    Failures <- NoFailures
    Rules <- AllRules
INVARIANTS
    SourcesListed
CHECK_DEADLOCK FALSE
