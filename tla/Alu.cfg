\* Words of two bits, numbers of up to two words; shifts by twice a word's width and more.
CONSTANTS
    Bits = 2
    Half = 2
    AmountBound = 5
    WordsBound = 2
SPECIFICATION AluSpec
INVARIANTS SumsAreExact OrderIsTold ShiftIsRepeated
