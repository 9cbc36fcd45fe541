SPECIFICATION Spec
CONSTANTS
    t1 = t1
    t2 = t2
    pic = pic
    red = red
    r1 = r1
    r2 = r2
    Images <- MCImages
    Masks <- MCMasks
    Targets <- MCTargets
    Textures <- MCTextures
    Solids <- MCSolids
    Rects <- MCRects
    Origins = {0, 1}
    Ops = {0}
    NoImage = NoImage
    NoRect = NoRect
    CopyPipeline = CopyPipeline
    NoPipeline = NoPipeline
    VertexCap = 2
    Setups <- MCSetups
    Dsts <- MCDsts
    SrcOrigins = {0}
    Failures <- AllFailures
    Rules <- AllRules
INVARIANTS
    TypeOK
    OneRecording
    NoOtherMisuse
    NothingLeftBehind
PROPERTIES
    PaintsAsAsked
    EverythingPainted
CHECK_DEADLOCK FALSE
