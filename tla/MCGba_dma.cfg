\* Two DMA channels that reprogram each other, transfers longer than a line.
CONSTANTS
    Channels = {0, 3}
    Counts = {0, 1}
    ShortMax = 2
    LongMax = 4
    LineCycles = 4
    HBlankStart = 2
    VisibleLines = 2
    TotalLines = 3
    HighBit = 2
    TimerBits = {}
    IeValues = {}
    IfValues = {}
    DispstatValues = {}
    ControlValues <- MCControls
    InstrCosts = {2}
    IrqCost = 3
    MaxStores = 1
    BootCycles = 6
SPECIFICATION Spec
INVARIANTS DmaActiveHasWork HBlankSkippedOnlyByLongStep CallDrawsAFrame
