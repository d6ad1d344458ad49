----------------------------- MODULE LoadStore ------------------------------
(***************************************************************************)
(* Loads and stores of both instruction sets: single transfers, swaps and  *)
(* block transfers, on the memory map of Memory.  Loads of r15 are jumps   *)
(* and belong to Fetch; user-bank transfers belong to CpuModes.            *)
(*                                                                         *)
(* The program keeps a stack in one of the four ways that block transfers  *)
(* support, and may do anything that does not disturb it.                  *)
(***************************************************************************)
EXTENDS Memory, FiniteSets

CONSTANTS
    Low,            \* the registers that most Thumb instructions can name
    Others,         \* the other registers but r13
    Values,         \* what the program may put into a register
    Offsets,        \* the offsets of single transfers
    Followed,       \* the addresses whose contents are followed
    Bottom,         \* where its stack begins
    StackWords      \* bounds the words on it

Sp == 13
Lr == 14
Registers == Low \cup Others \cup {Sp}

ASSUME LoadStoreAssumption ==
    /\ Low \subseteq 0..(Sp - 1) /\ Others \subseteq 0..Lr \ {Sp}
    /\ Low \cap Others = {} /\ Lr \in Others
    /\ Values \in SUBSET Word /\ Offsets \in SUBSET Nat
    /\ Followed \in SUBSET Word
    /\ \A a \in Followed : Aligned(a, 4)..(Aligned(a, 4) + 3) \subseteq Followed
    /\ Bottom \in Word /\ Bottom % 4 = 0
    /\ StackWords \in Nat

VARIABLES
    mem,
    regs,
    kind,   \* the kind of stack: whether it grows upwards, and whether r13
            \* points to the last word on it (full) or past it
    told    \* history: what a program that knows the map expects at each address

vars == <<mem, regs, kind, told>>

TypeOK ==
    /\ IsMemory(mem)
    /\ regs \in [Registers -> Word]
    /\ kind \in [up: BOOLEAN, full: BOOLEAN]
    /\ told \in [Followed -> Byte]

\* A program that has set up its stack.
Init ==
    /\ mem = Blank
    /\ regs \in [Registers -> Values \cup {Bottom}] /\ regs[Sp] = Bottom
    /\ kind \in [up: BOOLEAN, full: BOOLEAN]
    /\ told = [a \in Followed |-> IF Region[a] = "rom" THEN RomRead(a % (2 * Span), 1) ELSE 0]

-----------------------------------------------------------------------------
(***************************************************************************)
(* Words                                                                   *)
(***************************************************************************)
Plus(a, n) == (a + n) % WordModulus

\* A word whose lowest byte is the one at position k.
Rotated(v, k) == (v \div Place(k)) + Place(4 - k) * (v % Place(k))

SignExtended(v, n) ==
    IF 2 * v >= Place(n) THEN v + (WordModulus - Place(n)) ELSE v

\* The address a transfer uses, and the one its base register moves to.
Moved(up, base, offset) == IF up THEN Plus(base, offset) ELSE Plus(base, -offset)
Address(pre, up, base, offset) == IF pre THEN Moved(up, base, offset) ELSE base

Kinds == {"word", "byte", "half", "signed byte", "signed half"}

\* LDR rotates the word it finds; LDRSH of an odd address loads a byte.
Loaded(m, what, a) ==
    CASE what = "word" -> Rotated(Read(m, a, 4), a % 4)
      [] what = "byte" -> Read(m, a, 1)
      [] what = "half" -> Read(m, a, 2)
      [] what = "signed byte" \/ (what = "signed half" /\ a % 2 = 1) ->
           SignExtended(Read(m, a, 1), 1)
      [] what = "signed half" /\ a % 2 = 0 -> SignExtended(Read(m, a, 2), 2)

Bytes(what) == CASE what = "word" -> 4 [] what = "half" -> 2 [] what = "byte" -> 1

-----------------------------------------------------------------------------
(***************************************************************************)
(* History: a store of n bytes, as the memory's bus has it, is seen at all *)
(* addresses that name the same cells.                                     *)
(***************************************************************************)
Alias(a, b) ==
    /\ Region[a] = Region[b] /\ Region[a] \in Ram
    /\ IF Region[a] = "vram"
       THEN LET x == a % VramWindow
                y == b % VramWindow
                quarter == VramWindow \div 4
            IN  x = y \/ (x = y + quarter /\ x >= 3 * quarter)
                      \/ (y = x + quarter /\ y >= 3 * quarter)
       ELSE (a - b) % Size[Region[a]] = 0

Aliases == [a \in Word |-> {b \in Followed : Alias(a, b)}]

\* The bytes that a store changes: the position of each in the value stored.
Covered(a, n) ==
    CASE Region[a] \notin Ram \/ (Region[a] = "oam" /\ n = 1) -> [b \in {} |-> 0]
      [] Region[a] \in {"palette", "vram"} /\ n = 1 ->
           [b \in Aligned(a, 2)..(Aligned(a, 2) + 1) |-> 0]
      [] Region[a] = "sram" -> [b \in {Aligned(a, n)} |-> 0]
      [] OTHER -> [b \in Aligned(a, n)..(Aligned(a, n) + n - 1) |-> b - Aligned(a, n)]

Told(t, a, n, v) ==
    LET covered == Covered(a, n)
        changed == UNION {Aliases[c] : c \in DOMAIN covered}
    IN  [b \in Followed |-> IF b \notin changed THEN t[b]
                       ELSE ByteOf(v, covered[CHOOSE c \in DOMAIN covered : b \in Aliases[c]])]

Store(a, n, v) ==
    /\ mem' = Write(mem, a, n, v)
    /\ told' = Told(told, a, n, v)

NoStore == UNCHANGED <<mem, told>>

-----------------------------------------------------------------------------
(***************************************************************************)
(* The stack of the program.                                               *)
(***************************************************************************)
StackKinds == [up: BOOLEAN, full: BOOLEAN]
Growth(k) == IF k.up THEN 4 ELSE -4

\* The address of a word, counted from the bottom, and what the stack may reach.
Slot(k, j) == (IF k.full THEN Bottom + Growth(k) ELSE Bottom) + j * Growth(k)
Slots(k) == {Slot(k, j) : j \in 0..(StackWords - 1)}
AreaOf(k) == UNION {a..(a + 3) : a \in Slots(k)}

\* It lies in memory that holds words, and does not reach a mirror of itself.
ASSUME StackAssumption ==
    /\ 4 * StackWords <= Bottom /\ Bottom + 4 * StackWords < WordModulus
    /\ \A k \in StackKinds : \A a \in AreaOf(k) :
         /\ a \in Followed /\ Region[a] \in Ram \ {"sram"}
         /\ \A b \in AreaOf(k) : Alias(a, b) => a = b

-----------------------------------------------------------------------------
(***************************************************************************)
(* Single transfers                                                        *)
(***************************************************************************)
\* Post-indexed transfers always write the base back, but a base just loaded stays.
WithBase(rs, pre, up, wb, load, rn, rd, offset) ==
    IF (~pre \/ wb) /\ (~load \/ rd # rn)
    THEN [rs EXCEPT ![rn] = Moved(up, regs[rn], offset)]
    ELSE rs

ArmTransfer(what, pre, up, wb, load, rn, rd, offset) ==
    LET a == Address(pre, up, regs[rn], offset)
    IN  /\ IF load THEN NoStore ELSE Store(a, Bytes(what), regs[rd])
        /\ regs' = WithBase(IF load THEN [regs EXCEPT ![rd] = Loaded(mem, what, a)] ELSE regs,
                            pre, up, wb, load, rn, rd, offset)
        /\ UNCHANGED kind

ArmSingleTransfer(what, pre, up, wb, load, rn, rd, offset) ==
    /\ what \in {"word", "byte"}
    /\ ArmTransfer(what, pre, up, wb, load, rn, rd, offset)

ArmHalfwordTransfer(what, pre, up, wb, load, rn, rd, offset) ==
    /\ what = "half" \/ (load /\ what \in {"signed byte", "signed half"})
    /\ ArmTransfer(what, pre, up, wb, load, rn, rd, offset)

ArmSwp(what, rn, rd, rm) ==
    /\ what \in {"word", "byte"}
    /\ Store(regs[rn], Bytes(what), regs[rm])
    /\ regs' = [regs EXCEPT ![rd] = Loaded(mem, what, regs[rn])]
    /\ UNCHANGED kind

ThumbTransfer(what, load, rd, a) ==
    /\ IF load THEN NoStore ELSE Store(a, Bytes(what), regs[rd])
    /\ regs' = IF load THEN [regs EXCEPT ![rd] = Loaded(mem, what, a)] ELSE regs
    /\ UNCHANGED kind

ThumbLoadStoreReg(what, load, rb, ro, rd) ==
    /\ what \in {"word", "byte"}
    /\ ThumbTransfer(what, load, rd, Plus(regs[rb], regs[ro]))

ThumbLoadStoreSign(what, load, rb, ro, rd) ==
    /\ what = "half" \/ (load /\ what \in {"signed byte", "signed half"})
    /\ ThumbTransfer(what, load, rd, Plus(regs[rb], regs[ro]))

ThumbLoadStoreImm(what, load, rb, rd, offset) ==
    /\ what \in {"word", "byte"} /\ (what = "word" => offset % 4 = 0)
    /\ ThumbTransfer(what, load, rd, Plus(regs[rb], offset))

ThumbLoadStoreHalf(load, rb, rd, offset) ==
    /\ offset % 2 = 0
    /\ ThumbTransfer("half", load, rd, Plus(regs[rb], offset))

\* These load what they find, without a rotation.
ThumbSpRelLoadStore(load, rd, offset) ==
    LET a == Plus(regs[Sp], offset)
    IN  /\ offset % 4 = 0
        /\ IF load THEN NoStore ELSE Store(a, 4, regs[rd])
        /\ regs' = IF load THEN [regs EXCEPT ![rd] = Read(mem, a, 4)] ELSE regs
        /\ UNCHANGED kind

ThumbPcRelLoad(rd, a) ==
    /\ a % 4 = 0
    /\ regs' = [regs EXCEPT ![rd] = Read(mem, a, 4)]
    /\ NoStore /\ UNCHANGED kind

ThumbAdjustSp(offset) ==
    /\ regs' = [regs EXCEPT ![Sp] = Plus(@, offset)]
    /\ NoStore /\ UNCHANGED kind

-----------------------------------------------------------------------------
(***************************************************************************)
(* Block transfers                                                         *)
(***************************************************************************)
First(list) == CHOOSE r \in list : \A s \in list : r <= s
Above(list, r) == Cardinality({s \in list : s < r})

\* Mutant of BlockStart: a transfer that moves down skips the word at its base.
StartPastBase(pre, up, base, n) ==
    CASE up /\ ~pre -> base
      [] up /\ pre -> Plus(base, 4)
      [] ~up -> Plus(base, -4 * n)

\* The lowest address; the lowest register goes there.
BlockStart(pre, up, base, n) ==
    CASE up /\ ~pre -> base
      [] up /\ pre -> Plus(base, 4)
      [] ~up /\ ~pre -> Plus(base, 4 - 4 * n)
      [] ~up /\ pre -> Plus(base, -4 * n)

\* One turn of the loop over the registers: a word for each of a list.
StoreNext(s, r, words) ==
    IF r \in DOMAIN words
    THEN [mem |-> Write(s.mem, s.at, 4, words[r]), told |-> Told(s.told, s.at, 4, words[r]),
          at |-> Plus(s.at, 4)]
    ELSE s

StoreBlock(start, words) ==
    LET after[i \in 0..16] ==
          IF i = 0 THEN [mem |-> mem, told |-> told, at |-> start]
          ELSE StoreNext(after[i - 1], i - 1, words)
    IN  mem' = after[16].mem /\ told' = after[16].told

\* The registers with a list loaded from `start`.
LoadedBlock(list, start) ==
    [r \in Registers |-> IF r \in list THEN Read(mem, Plus(start, 4 * Above(list, r)), 4)
                         ELSE regs[r]]

\* The base is written back after the first store, so that only the first word can
\* be the old base, and after the last load, so that a base loaded is lost.
ArmBlockTransfer(pre, up, wb, load, rn, list) ==
    LET n == Cardinality(list)
        start == BlockStart(pre, up, regs[rn], n)
        moved == Moved(up, regs[rn], 4 * n)
        words == [r \in list |-> IF r = rn /\ wb /\ r # First(list) THEN moved ELSE regs[r]]
    IN  /\ list # {}
        /\ IF load THEN NoStore ELSE StoreBlock(start, words)
        /\ regs' = LET loaded == IF load THEN LoadedBlock(list, start) ELSE regs
                   IN  IF wb THEN [loaded EXCEPT ![rn] = moved] ELSE loaded
        /\ UNCHANGED kind

\* In Thumb state a base that is loaded stays.
ThumbMultipleLoadStore(load, rb, list) ==
    LET moved == Plus(regs[rb], 4 * Cardinality(list))
        words == [r \in list |-> IF r = rb /\ r # First(list) THEN moved ELSE regs[r]]
    IN  /\ list # {}
        /\ IF load THEN NoStore ELSE StoreBlock(regs[rb], words)
        /\ regs' = LET loaded == IF load THEN LoadedBlock(list, regs[rb]) ELSE regs
                   IN  IF load /\ rb \in list THEN loaded ELSE [loaded EXCEPT ![rb] = moved]
        /\ UNCHANGED kind

\* A word popped into r15 goes to Fetch.
ThumbPop(list, pc) ==
    LET n == Cardinality(list) + (IF pc THEN 1 ELSE 0)
    IN  /\ regs' = [LoadedBlock(list, regs[Sp]) EXCEPT ![Sp] = Plus(regs[Sp], 4 * n)]
        /\ NoStore /\ UNCHANGED kind

ThumbPush(list, lr) ==
    LET pushed == list \cup (IF lr THEN {Lr} ELSE {})
        start == Plus(regs[Sp], -4 * Cardinality(pushed))
    IN  /\ StoreBlock(start, [r \in pushed |-> regs[r]])
        /\ regs' = [regs EXCEPT ![Sp] = start]
        /\ UNCHANGED kind

-----------------------------------------------------------------------------
(***************************************************************************)
(* The program                                                             *)
(***************************************************************************)
Depth == (IF kind.up THEN regs[Sp] - Bottom ELSE Bottom - regs[Sp]) \div 4
Back == -Growth(kind)
Top == IF kind.full THEN regs[Sp] ELSE Plus(regs[Sp], Back)
AddressOnStack(i) == Plus(Top, (i - 1) * Back)
StackFound == [i \in 1..Depth |-> Read(mem, AddressOnStack(i), 4)]

StackArea == AreaOf(kind)

\* A store elsewhere, through whatever mirror.
Harmless(a, n) ==
    \A b \in Aligned(a, n)..(Aligned(a, n) + n - 1) : Aliases[b] \cap StackArea = {}

HasRoom(n) == Depth + n <= StackWords
HasWords(n) == n <= Depth

Elsewhere == Registers \ {Sp}

SetRegister == \E r \in Elsewhere, v \in Values :
    regs' = [regs EXCEPT ![r] = v] /\ NoStore /\ UNCHANGED kind

\* Pushing and popping a register by a single transfer.
ArmPushPop == \E load \in BOOLEAN, rd \in Elsewhere :
    /\ IF load THEN HasWords(1) ELSE HasRoom(1)
    /\ ArmSingleTransfer("word", kind.full # load, kind.up # load, kind.full # load,
                         load, Sp, rd, 4)

ArmSingle == \E pre, up, load \in BOOLEAN, rn, rd \in Low, offset \in Offsets :
    \E what \in IF load THEN Kinds ELSE {"word", "byte", "half"},
       wb \in IF pre THEN BOOLEAN ELSE {TRUE} :
      /\ ~load => Harmless(Address(pre, up, regs[rn], offset), Bytes(what))
      /\ \/ ArmSingleTransfer(what, pre, up, wb, load, rn, rd, offset)
         \/ ArmHalfwordTransfer(what, pre, up, wb, load, rn, rd, offset)

ArmSwap == \E what \in {"word", "byte"}, rn, rd, rm \in Low :
    Harmless(regs[rn], Bytes(what)) /\ ArmSwp(what, rn, rd, rm)

ThumbSingle == \E load \in BOOLEAN, rb, rd \in Low :
    \E what \in IF load THEN Kinds ELSE {"word", "byte", "half"} :
      \/ \E ro \in Low :
           /\ ~load => Harmless(Plus(regs[rb], regs[ro]), Bytes(what))
           /\ \/ ThumbLoadStoreReg(what, load, rb, ro, rd)
              \/ ThumbLoadStoreSign(what, load, rb, ro, rd)
      \/ \E offset \in Offsets :
           /\ ~load => Harmless(Plus(regs[rb], offset), Bytes(what))
           /\ \/ ThumbLoadStoreImm(what, load, rb, rd, offset)
              \/ what = "half" /\ ThumbLoadStoreHalf(load, rb, rd, offset)

ThumbPcRel == \E rd \in Low, a \in Values : ThumbPcRelLoad(rd, a)

\* Thumb state works on the words of a full descending stack.  SP moves up here,
\* over words that are given back: words that it moved down over would be on the
\* stack without a push.
ThumbFrame ==
    /\ kind = [up |-> FALSE, full |-> TRUE]
    /\ \/ \E load \in BOOLEAN, rd \in Low, i \in 1..Depth :
            ThumbSpRelLoadStore(load, rd, 4 * (i - 1))
       \/ \E n \in 1..Depth : ThumbAdjustSp(4 * n)
       \/ \E list \in SUBSET Low, lr \in BOOLEAN :
            /\ list # {} \/ lr
            /\ \/ HasRoom(Cardinality(list) + (IF lr THEN 1 ELSE 0)) /\ ThumbPush(list, lr)
               \/ HasWords(Cardinality(list) + (IF lr THEN 1 ELSE 0)) /\ ThumbPop(list, lr)

\* STMDB and LDMIA, for instance, on a full descending stack.
ArmBlockPushPop == \E load \in BOOLEAN, list \in SUBSET Registers :
    /\ IF load THEN HasWords(Cardinality(list)) ELSE HasRoom(Cardinality(list))
    /\ ArmBlockTransfer(kind.full # load, kind.up # load, TRUE, load, Sp, list)

\* Blocks of data that is not the stack.
ArmBlock == \E pre, up, wb, load \in BOOLEAN, rn \in Low, list \in SUBSET Low :
    /\ LET n == Cardinality(list)
           start == BlockStart(pre, up, regs[rn], n)
       IN  ~load => \A k \in 0..(n - 1) : Harmless(Plus(start, 4 * k), 4)
    /\ ArmBlockTransfer(pre, up, wb, load, rn, list)

ThumbBlock == \E load \in BOOLEAN, rb \in Low, list \in SUBSET Low :
    /\ ~load => \A k \in 0..(Cardinality(list) - 1) : Harmless(Plus(regs[rb], 4 * k), 4)
    /\ ThumbMultipleLoadStore(load, rb, list)

Next ==
    \/ SetRegister \/ ArmPushPop \/ ArmSingle \/ ArmSwap \/ ThumbSingle \/ ThumbPcRel
    \/ ThumbFrame \/ ArmBlockPushPop \/ ArmBlock \/ ThumbBlock

Spec == Init /\ [][Next]_vars

-----------------------------------------------------------------------------
(***************************************************************************)
(* Properties                                                              *)
(***************************************************************************)
\* Memory is where the map says: at every address, through every mirror, the bytes
\* of the last store that reached them are found, by loads of every width; a word
\* at an unaligned address has the byte there lowest.
StoresAreFound ==
    /\ \A a \in Followed : Loaded(mem, "byte", a) = told[a]
    /\ \A a \in {b \in Followed : \E k \in 0..3 : told[Aligned(b, 4) + k] # 0} :
         LET r == Region[a]
             whole(n) == r = "rom" => (Aligned(a, n) % (2 * Span)) + n <= Len(Rom)
         IN  r # "sram" =>
               /\ whole(2) => Loaded(mem, "half", a) = Joined(told, Aligned(a, 2), 2)
               /\ whole(4) => Loaded(mem, "word", a)
                               = Rotated(Joined(told, Aligned(a, 4), 4), a % 4)

\* Pushes and pops of both instruction sets, one register or many, make a stack,
\* of each of the four kinds, whatever the program stores elsewhere, and with r13
\* itself in the list.
Stack == INSTANCE WordStack WITH
    stack <- StackFound, held <- [r \in Elsewhere |-> regs[r]], upwards <- kind.up
StackIsKept == Stack!Spec
=============================================================================
