SPECIFICATION Spec
CONSTANTS
    Scenarios <- McScenarios
    Words <- McWords
    NoValue = NoValue
    Hash <- McHash
    Precached <- McPrecached
    Spelling <- McSpelling
    TagRoom = 10
    Matching <- McMatching
    Colors <- McColors
    Images <- McImages
    NoRegex <- McNoRegex
    Opaque <- McOpaque
    TextWidth <- McTextWidth
    TextHeight <- McTextHeight
    MaxZoom = 3
    ZoomTop = 3
    IntBits = 8
    LeafElements = 2
    NUM_CHILDREN = 2
    PageBlocks = 2
    SerBlocks = 3
    Norm = 16
    Overlap = 8
    TileLength = 8
    MetaTileLength = 2
    ShieldDistance = 8
    LabelOverlap = 10
INVARIANTS
    TypeOK
    ParsesRequests
    UrlNamesTile
    ReadsAsWritten
    ImportsDocument
    SearchExact
    StylesMatch
    EvaluatesAsWritten
    DrawnInOrder
    LabelsApart
    RingsClosed
    SlicesShowTile
    BorderLabelsWhole
CHECK_DEADLOCK FALSE
