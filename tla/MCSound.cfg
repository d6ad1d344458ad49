CONSTANTS
    Fifos = {"a"}
    Samples = {0, 1}
    Silence = 0
    Size = 9
    Period = 2
    Capacity = 3
    Steps = {1, 5}
    MarkBound = 1
SPECIFICATION SoundSpec
CONSTRAINT MarksAreFew
INVARIANTS SoundTypeOK
PROPERTIES PlaysInOrder HostHearsAll
