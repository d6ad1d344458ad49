CONSTANTS
    Columns = 3
    Lines = 2
    XSpan = 8
    YSpan = 4
    SmallBitmap <- MCSmallBitmap
    MapSize = 4
    Unit = 2
    Maps <- MCMaps
    Frames <- MCFrames
    Transparent = Transparent
    HalfSpan = 4
    RefSpan = 8
    WindowSpan = 4
    PowerOn <- MCPowerOn
    Settings <- MCSettings
    Steps <- MCSteps
    References <- MCReferences
SPECIFICATION Spec
INVARIANTS TypeOK SecondIsBelow AffineFollowsLines
PROPERTIES LinesShowTheHighest
