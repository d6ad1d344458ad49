\* Words of 8 bits in a space of 256 addresses, 8 regions of 32; a stack of up to
\* three words in a memory of four that repeats after 16 bytes.
CONSTANTS
    ByteValues = 4
    Span = 32
    Layout <- MCLayout
    Size <- MCSize
    VramWindow = 16
    Rom <- MCRom
    Low = {0, 1}
    Others = {14}
    Values = {0, 27, 78}
    Offsets = {52}
    Followed <- MCFollowed
    Bottom = 48
    StackWords = 3
    MarkBound = 2
    Datum = 27
    Pointer = 78
SPECIFICATION Spec
CONSTRAINT StaysSmall
INVARIANTS TypeOK StoresAreFound
PROPERTIES StackIsKept
