\* Interrupts, HALT and the beam, without DMA.
CONSTANTS
    Channels = {}
    Counts = {}
    ShortMax = 3
    LongMax = 5
    LineCycles = 4
    HBlankStart = 3
    VisibleLines = 2
    TotalLines = 5
    HighBit = 4
    TimerBits = {3}
    IeValues = {{}, {0}, {0, 1, 2, 3}}
    IfValues = {{0}, {1, 2}}
    DispstatValues <- MCSettings
    ControlValues = {}
    InstrCosts = {1, 2}
    IrqCost = 3
    MaxStores = 1
    BootCycles = 9
SPECIFICATION Spec
INVARIANTS TypeOK SafeHalt FlagsFollowBeam TimeKept
PROPERTIES VCountOnlyBelowHighBit
