------------------------------ MODULE Shifter ------------------------------
(***************************************************************************)
(* The barrel shifter of cpu.rs and the shifter of its own that Thumb's    *)
(* shift instruction has: a value and a carry out of a word, an amount and *)
(* the carry flag.  Words have Bits bits.                                  *)
(***************************************************************************)
EXTENDS Integers

CONSTANTS
    Bits,   \* the width of a word (32)
    Half    \* the weight of its top bit (2^31)

\* The powers of two.
Weight[i \in 0..Bits] == IF i = 0 THEN 1 ELSE 2 * Weight[i - 1]

ASSUME ShifterAssumption ==
    /\ Bits \in Nat \ {0}
    /\ Half \in Nat \ {0} /\ Half = Weight[Bits - 1]

Modulus == 2 * Half
Word == 0..(Modulus - 1)

Sign(x) == x >= Half
Signed(x) == IF Sign(x) THEN x - Modulus ELSE x
Bit(x, i) == (x \div Weight[i]) % 2 = 1
AllOnes(x) == IF Sign(x) THEN Modulus - 1 ELSE 0

ShiftTypes == {"LSL", "LSR", "ASR", "ROR"}

Out(value, carry) == [value |-> value, carry |-> carry]

Lsl(x, n) ==
    IF n >= Bits THEN Out(0, n = Bits /\ Bit(x, 0))
    ELSE Out((x * Weight[n]) % Modulus, Bit(x, Bits - n))

\* Mutant of Lsr: a shift by the whole width is taken for a longer one.
LsrForgetful(x, n) ==
    IF n >= Bits THEN Out(0, FALSE) ELSE Out(x \div Weight[n], Bit(x, n - 1))

Lsr(x, n) ==
    IF n >= Bits THEN Out(0, n = Bits /\ Sign(x))
    ELSE Out(x \div Weight[n], Bit(x, n - 1))

Asr(x, n) ==
    IF n >= Bits THEN Out(AllOnes(x), Sign(x))
    ELSE Out((Signed(x) \div Weight[n]) % Modulus, Bit(x, n - 1))

Ror(x, n) ==
    LET m == n % Bits
    IN  IF m = 0 THEN Out(x, Sign(x))
        ELSE Out((x \div Weight[m]) + ((x * Weight[Bits - m]) % Modulus), Bit(x, m - 1))

\* The immediate amount 0: LSR and ASR shift by the whole width, ROR rotates
\* through the carry.
ByZero(x, type, c) ==
    CASE type = "LSL" -> Out(x, c)
      [] type = "LSR" -> Out(0, Sign(x))
      [] type = "ASR" -> Out(AllOnes(x), Sign(x))
      [] type = "ROR" -> Out((IF c THEN Half ELSE 0) + x \div 2, Bit(x, 0))

BarrelShift(x, type, n, c, regShift) ==
    IF n = 0 THEN IF regShift THEN Out(x, c) ELSE ByZero(x, type, c)
    ELSE CASE type = "LSL" -> Lsl(x, n)
           [] type = "LSR" -> Lsr(x, n)
           [] type = "ASR" -> Asr(x, n)
           [] type = "ROR" -> Ror(x, n)

\* thumb_shift has a shifter of its own.
ThumbShifted(x, type, offset, c) ==
    LET n == IF offset = 0 THEN Bits ELSE offset
    IN  CASE type = "LSL" -> IF offset = 0 THEN Out(x, c)
                             ELSE Out((x * Weight[offset]) % Modulus, Bit(x, Bits - offset))
          [] type = "LSR" -> IF n = Bits THEN Out(0, Sign(x))
                             ELSE Out(x \div Weight[n], Bit(x, n - 1))
          [] type = "ASR" -> IF n >= Bits THEN Out(AllOnes(x), Sign(x))
                             ELSE Out((Signed(x) \div Weight[n]) % Modulus, Bit(x, n - 1))

-----------------------------------------------------------------------------
(***************************************************************************)
(* The reference: a shift by one bit, repeated.                            *)
(***************************************************************************)
\* The bit that drops out is the carry.
OneStep(x, type) ==
    LET odd == x % 2 = 1
    IN  CASE type = "LSL" -> Out((2 * x) % Modulus, Sign(x))
          [] type = "LSR" -> Out(x \div 2, odd)
          [] type = "ASR" -> Out((x \div 2) + (IF Sign(x) THEN Half ELSE 0), odd)
          [] type = "ROR" -> Out((x \div 2) + (IF odd THEN Half ELSE 0), odd)

Repeated(x, c, type, n) ==
    LET after[k \in 0..n] ==
          IF k = 0 THEN Out(x, c) ELSE OneStep(after[k - 1].value, type)
    IN  after[n]

\* The amount that an immediate encodes: 0 stands for the width, except in LSL.
Encoded(type, n) == IF n = 0 /\ type # "LSL" THEN Bits ELSE n

\* Shifts with the carry flag c and amounts up to `most` are repeated shifts.
ShiftsAreRepeated(c, most) ==
    \A x \in Word, type \in ShiftTypes :
      /\ \A n \in 0..most : BarrelShift(x, type, n, c, TRUE) = Repeated(x, c, type, n)
      /\ type # "ROR" =>
           \A n \in 0..(Bits - 1) :
             LET repeated == Repeated(x, c, type, Encoded(type, n))
             IN  /\ BarrelShift(x, type, n, c, FALSE) = repeated
                 /\ ThumbShifted(x, type, n, c) = repeated
      /\ BarrelShift(x, "ROR", 0, c, FALSE)
           = LET wide == x + (IF c THEN Modulus ELSE 0)
             IN  Out(wide \div 2, wide % 2 = 1)
=============================================================================
