-------------------------------- MODULE Alu --------------------------------
(***************************************************************************)
(* The arithmetic of the CPU: condition flags and the data processing of   *)
(* both instruction sets (cpu.rs, arm.rs, thumb.rs), with the shifts of    *)
(* Shifter.  An instruction's operands are any words, since its            *)
(* registers may hold any; what it computes matters here as far as guests  *)
(* build on it: conditions after a comparison, and sums and differences of *)
(* more than one word, carried from instruction to instruction in flag C.  *)
(* Results that go to r15 belong to Fetch.                                 *)
(***************************************************************************)
EXTENDS Shifter, FiniteSetsExt

CONSTANTS
    AmountBound,    \* the largest shift amount taken from a register (255)
    WordsBound      \* bounds the history: the words of the longest number

ASSUME AluAssumption ==
    /\ AmountBound \in Nat
    /\ WordsBound \in Nat

VARIABLES
    flags,  \* CPSR bits 31-28
    chain,  \* history: the number the last arithmetic instructions compute
    fresh   \* history: N, Z and V are still those the last of them set

aluVars == <<flags, chain, fresh>>

Flags == [n: BOOLEAN, z: BOOLEAN, c: BOOLEAN, v: BOOLEAN]

\* z is the sum or the difference of x and y, each below weight.
NoChain == [op |-> "none", x |-> 0, y |-> 0, z |-> 0, weight |-> 1, words |-> 0,
            open |-> FALSE]
Chain == [op: {"none", "add", "sub"}, x: Nat, y: Nat, z: Nat, weight: Nat, words: Nat,
          open: BOOLEAN]

AluTypeOK ==
    /\ flags \in Flags
    /\ chain \in Chain
    /\ fresh \in BOOLEAN

\* Bus::reset and Cpu::reset leave all flags clear.
AluInit ==
    /\ flags = [n |-> FALSE, z |-> FALSE, c |-> FALSE, v |-> FALSE]
    /\ chain = NoChain
    /\ fresh = FALSE

-----------------------------------------------------------------------------
(***************************************************************************)
(* Words as sets of bits.                                                  *)
(***************************************************************************)
BitsOf(x) == {i \in 0..(Bits - 1) : Bit(x, i)}
WordOf(S) == SumSet({Weight[i] : i \in S})

-----------------------------------------------------------------------------
(***************************************************************************)
(* Flags.                                                                  *)
(***************************************************************************)
Conditions(f) ==
    [EQ |-> f.z, NE |-> ~f.z, CS |-> f.c, CC |-> ~f.c,
     MI |-> f.n, PL |-> ~f.n, VS |-> f.v, VC |-> ~f.v,
     HI |-> f.c /\ ~f.z, LS |-> ~f.c \/ f.z,
     GE |-> f.n = f.v, LT |-> f.n # f.v,
     GT |-> ~f.z /\ f.n = f.v, LE |-> f.z \/ f.n # f.v,
     AL |-> TRUE, NV |-> FALSE]

SetNZ(f, r) == [f EXCEPT !.n = Sign(r), !.z = r = 0]

Carry(f) == IF f.c THEN 1 ELSE 0

\* What an instruction computes and the flags it would set.
Outcome(f, r, c, v) ==
    [result |-> r, flags |-> [SetNZ(f, r) EXCEPT !.c = c, !.v = v]]

AdcWithFlags(f, a, b) ==
    LET sum == a + b + Carry(f)
        r == sum % Modulus
    IN  Outcome(f, r, sum >= Modulus, Sign(a) # Sign(r) /\ Sign(b) # Sign(r))

AddWithFlags(f, a, b) == AdcWithFlags([f EXCEPT !.c = FALSE], a, b)

\* Mutant of SbcWithFlags: overflow as in an addition.
SbcWithSumOverflow(f, a, b) ==
    LET r == (a - b - 1 + Carry(f)) % Modulus
    IN  Outcome(f, r, a >= b + (1 - Carry(f)), Sign(a) # Sign(r) /\ Sign(b) # Sign(r))

\* C set means no borrow.
SbcWithFlags(f, a, b) ==
    LET r == (a - b - 1 + Carry(f)) % Modulus
    IN  Outcome(f, r, a >= b + (1 - Carry(f)), Sign(a) # Sign(b) /\ Sign(a) # Sign(r))

SubWithFlags(f, a, b) == SbcWithFlags([f EXCEPT !.c = TRUE], a, b)

-----------------------------------------------------------------------------
(***************************************************************************)
(* History: the number that a run of carrying instructions computes, and   *)
(* nothing of the code.                                                    *)
(***************************************************************************)
Begun(op, x, y, z) ==
    [op |-> op, x |-> x, y |-> y, z |-> z, weight |-> Modulus, words |-> 1, open |-> TRUE]

\* One more word; `open` if the carry out of it is in the flag.
Extended(x, y, z, open) ==
    [chain EXCEPT !.x = @ + x * chain.weight, !.y = @ + y * chain.weight,
                  !.z = @ + z * chain.weight, !.weight = @ * Modulus,
                  !.words = @ + 1, !.open = open]

Extends(op) == chain.op = op /\ chain.open /\ chain.words < WordsBound

\* An arithmetic instruction on the words x and y, with (carries) or without the
\* carry of the one before; `kept` if that carry is the one it took.
ChainAfter(op, carries, kept, x, y, z, setFlags) ==
    IF setFlags /\ ~carries THEN Begun(op, x, y, z)
    ELSE IF carries /\ kept /\ Extends(op) THEN Extended(x, y, z, setFlags)
    ELSE IF ~setFlags /\ chain.open THEN chain
    ELSE NoChain

\* An instruction that leaves C, or all flags, alone does not disturb it.
KeepChain(c) ==
    chain' = IF chain.open /\ flags'.c = c THEN chain ELSE NoChain

-----------------------------------------------------------------------------
(***************************************************************************)
(* Data processing in ARM state.                                           *)
(***************************************************************************)
Comparisons == {"TST", "TEQ", "CMP", "CMN"}
ArmLogical == {"AND", "EOR", "TST", "TEQ", "ORR", "MOV", "BIC", "MVN"}
ArmArithmetic == {"SUB", "RSB", "ADD", "ADC", "SBC", "RSC", "CMP", "CMN"}

\* The second operand: its value, the shifter's carry, and whether it went
\* through the barrel shifter.
Operand(out, register) ==
    [value |-> out.value, carry |-> out.carry, register |-> register]

\* An immediate is not rotated, and has no carry of its own, or it is.
Immediates(c) ==
    {Operand(Out(x, c), FALSE) : x \in Word} \cup {Operand(Out(x, Sign(x)), FALSE) : x \in Word}

Shifteds(c) ==
    {Operand(BarrelShift(x, t, n, c, FALSE), TRUE) :
       x \in Word, t \in ShiftTypes, n \in 0..(Bits - 1)}
      \cup {Operand(BarrelShift(x, t, n, c, TRUE), TRUE) :
              x \in Word, t \in ShiftTypes, n \in 0..AmountBound}

Operands(c) ==
    (Immediates(c) \cup Shifteds(c)) \cap [value: Word, carry: BOOLEAN, register: BOOLEAN]

\* Mutant of CarryIn: the old carry is not put back.
LeakyCarryIn(setFlags, o) == IF o.register THEN o.carry ELSE flags.c

\* barrel_shift writes C, which is put back only if the instruction does not set
\* the flags: ADCS and SBCS of a shifted operand add the shifter's carry.
CarryIn(setFlags, o) == IF o.register /\ setFlags THEN o.carry ELSE flags.c

Logical(op, a, b) ==
    CASE op \in {"AND", "TST"} -> WordOf(BitsOf(a) \cap BitsOf(b))
      [] op \in {"EOR", "TEQ"} -> WordOf(SymDiff(BitsOf(a), BitsOf(b)))
      [] op = "ORR" -> WordOf(BitsOf(a) \cup BitsOf(b))
      [] op = "BIC" -> WordOf(BitsOf(a) \ BitsOf(b))
      [] op = "MOV" -> b
      [] op = "MVN" -> Modulus - 1 - b

Arithmetic(op, f, a, b) ==
    CASE op \in {"SUB", "CMP"} -> SubWithFlags(f, a, b)
      [] op = "RSB" -> SubWithFlags(f, b, a)
      [] op \in {"ADD", "CMN"} -> AddWithFlags(f, a, b)
      [] op = "ADC" -> AdcWithFlags(f, a, b)
      [] op = "SBC" -> SbcWithFlags(f, a, b)
      [] op = "RSC" -> SbcWithFlags(f, b, a)

\* Without the S bit a comparison is MSR or MRS (CpuModes).
ArmLogicalOp(op, setFlags, a, o) ==
    /\ op \in Comparisons => setFlags
    /\ flags' = IF setFlags
                THEN [SetNZ(flags, Logical(op, a, o.value)) EXCEPT !.c = o.carry]
                ELSE flags
    /\ KeepChain(flags.c)
    /\ fresh' = (fresh /\ chain'.open /\ ~setFlags)

ArmArithmeticOp(op, setFlags, a, o) ==
    LET f == [flags EXCEPT !.c = CarryIn(setFlags, o)]
        out == Arithmetic(op, f, a, o.value)
        reversed == op \in {"RSB", "RSC"}
    IN  /\ op \in Comparisons => setFlags
        /\ flags' = IF setFlags THEN out.flags ELSE flags
        /\ chain' = ChainAfter(IF op \in {"ADD", "CMN", "ADC"} THEN "add" ELSE "sub",
                               op \in {"ADC", "SBC", "RSC"},
                               ~setFlags \/ ~o.register \/ o.carry = flags.c,
                               IF reversed THEN o.value ELSE a,
                               IF reversed THEN a ELSE o.value,
                               out.result, setFlags)
        /\ fresh' = (chain'.open /\ (setFlags \/ fresh))

-----------------------------------------------------------------------------
(***************************************************************************)
(* Data processing in Thumb state, where nearly everything sets flags.     *)
(***************************************************************************)
\* ADD, SUB, CMP, CMN, NEG (x = 0), ADC and SBC.
ThumbArithmeticOp(op, a, b) ==
    LET out == Arithmetic(op, flags, a, b)
    IN  /\ flags' = out.flags
        /\ chain' = ChainAfter(IF op \in {"ADD", "CMN", "ADC"} THEN "add" ELSE "sub",
                               op \in {"ADC", "SBC"}, TRUE, a, b, out.result, TRUE)
        /\ fresh' = chain'.open

\* AND, EOR, TST, ORR, BIC, MVN, MOV of an immediate, and every multiplication
\* that sets flags: N and Z only.  A long product has two words.
SetsNZ(negative, zero) ==
    /\ flags' = [flags EXCEPT !.n = negative, !.z = zero]
    /\ KeepChain(flags.c)
    /\ fresh' = FALSE

\* LSL, LSR and ASR by an immediate, all four by a register.
ThumbShift(out) ==
    /\ flags' = [SetNZ(flags, out.value) EXCEPT !.c = out.carry]
    /\ KeepChain(flags.c)
    /\ fresh' = FALSE

\* MSR to the flags and returns from exceptions.
WriteFlags(f) ==
    /\ flags' = f
    /\ chain' = NoChain /\ fresh' = FALSE

ThumbShiftOutcomes(c) ==
    ({ThumbShifted(x, t, n, c) : x \in Word, t \in ShiftTypes \ {"ROR"}, n \in 0..(Bits - 1)}
      \cup {BarrelShift(x, t, n, c, TRUE) :
              x \in Word, t \in ShiftTypes, n \in 0..AmountBound})
      \cap [value: Word, carry: BOOLEAN]

AluNext ==
    \/ \E op \in ArmLogical, s \in BOOLEAN, a \in Word, o \in Operands(flags.c) :
         ArmLogicalOp(op, s, a, o)
    \/ \E op \in ArmArithmetic, s \in BOOLEAN, a \in Word, o \in Operands(flags.c) :
         ArmArithmeticOp(op, s, a, o)
    \/ \E op \in {"ADD", "SUB", "CMP", "CMN", "ADC", "SBC"}, a \in Word, b \in Word :
         ThumbArithmeticOp(op, a, b)
    \/ \E n \in BOOLEAN, z \in BOOLEAN : ~(n /\ z) /\ SetsNZ(n, z)
    \/ \E out \in ThumbShiftOutcomes(flags.c) : ThumbShift(out)
    \/ \E f \in Flags : WriteFlags(f)

AluSpec == AluInit /\ [][AluNext]_aluVars

-----------------------------------------------------------------------------
(***************************************************************************)
(* Properties                                                              *)
(***************************************************************************)
\* Numbers of several words add and subtract exactly: the words that ADDS, ADCS
\* ... or SUBS, SBCS ... leave make up the sum or the difference, and C is its
\* carry, or set if there is no borrow; whatever instructions that leave C alone
\* come in between, shifted operands without S among them.
SumsAreExact ==
    LET ch == chain
    IN  /\ ch.op = "add" => /\ ch.z = (ch.x + ch.y) % ch.weight
                            /\ ch.open => (flags.c <=> ch.x + ch.y >= ch.weight)
        /\ ch.op = "sub" => /\ ch.z = (ch.x - ch.y) % ch.weight
                            /\ ch.open => (flags.c <=> ch.x >= ch.y)

\* A number of several words read as a signed one.
SignedBelow(weight, x) == IF 2 * x >= weight THEN x - weight ELSE x
Fits(weight, k) == 2 * k < weight /\ 2 * k >= -weight

\* The conditions tell how the two numbers compare, unsigned and signed, after a
\* comparison of one word or a subtraction of many; and V tells a signed sum or
\* difference that does not fit.
OrderIsTold ==
    LET cond == Conditions(flags)
        ch == chain
        x == SignedBelow(ch.weight, ch.x)
        y == SignedBelow(ch.weight, ch.y)
    IN  fresh =>
          /\ ch.op = "sub" =>
               /\ cond.CS <=> ch.x >= ch.y
               /\ cond.CC <=> ch.x < ch.y
               /\ cond.GE <=> x >= y
               /\ cond.LT <=> x < y
               /\ cond.VC <=> Fits(ch.weight, x - y)
               /\ ch.words = 1 =>
                    /\ cond.EQ <=> x = y
                    /\ cond.NE <=> x # y
                    /\ cond.HI <=> ch.x > ch.y
                    /\ cond.LS <=> ch.x <= ch.y
                    /\ cond.GT <=> x > y
                    /\ cond.LE <=> x <= y
          /\ ch.op = "add" => (cond.VS <=> ~Fits(ch.weight, x + y))

\* Every shift is as many shifts by one bit as its amount says, at and past the
\* width of a word too; the barrel shifter and the one of thumb_shift agree; and
\* a rotation by the immediate 0 is one step through the carry.
ShiftIsRepeated == ShiftsAreRepeated(flags.c, AmountBound)
=============================================================================
