\* Liveness: one channel in HBlank repeat mode, HALT, VBlank.  Its transfers take a
\* line, all of VBlank, or a whole frame (2, 4 and 8 cycles).
CONSTANTS
    Channels = {0}
    Counts = {2, 4}
    ShortMax = 1
    LongMax = 1
    LineCycles = 2
    HBlankStart = 1
    VisibleLines = 2
    TotalLines = 4
    HighBit = 2
    TimerBits = {}
    IeValues = {{}, {0}}
    IfValues = {{0}}
    DispstatValues <- MCVBlankSettings
    ControlValues <- MCHBlankControls
    InstrCosts = {1}
    IrqCost = 1
    MaxStores = 1
    BootCycles = 1
SPECIFICATION FairSpec
PROPERTIES VBlankWakes IrqServed CallReturns
