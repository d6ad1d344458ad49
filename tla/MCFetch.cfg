CONSTANTS
    Size = 16
    Map <- MCMap
    Code <- MCCode
    SwiVector = 0
    IrqVector = 4
    Cycles = {2}
    Accesses <- MCAccesses
    Settings <- MCSettings
    Operands = {2, 6, 10, 11, 12, 13, 15}
    LowHalves = {0, 2}
    None = None
SPECIFICATION Spec
INVARIANTS TypeOK CallsReturn StallIsTheRest
PROPERTIES RunsInOrder
