\* A guest that neither halts nor transfers: calls drift from frames.
CONSTANTS
    Channels = {}
    Counts = {}
    ShortMax = 2
    LongMax = 3
    LineCycles = 5
    HBlankStart = 3
    VisibleLines = 2
    TotalLines = 3
    HighBit = 2
    TimerBits = {}
    IeValues = {}
    IfValues = {}
    DispstatValues = {}
    ControlValues = {}
    InstrCosts = {2}
    IrqCost = 3
    MaxStores = 0
    BootCycles = 6
SPECIFICATION Spec
INVARIANTS OneFramePerCall
