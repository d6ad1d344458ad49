------------------------------- MODULE Fetch -------------------------------
(***************************************************************************)
(* How the CPU moves through a program: r15 and its pipeline offset, the   *)
(* flush after a jump, the two instruction sets, calls, exceptions and     *)
(* returns (cpu.rs, arm.rs, thumb.rs), and the cycles that a fetch in      *)
(* sequence still waits for (WaitStates).  One action is one Cpu::step.    *)
(*                                                                         *)
(* The program is any program that keeps to the processor's rules: it      *)
(* calls with BL in user or system mode ("usr"), an exception handler      *)
(* keeps its lr and spsr and returns with S set, and an interrupt handler  *)
(* does not switch interrupts on.  An interrupt may be pending at any      *)
(* step (Gba says when it is).                                             *)
(***************************************************************************)
EXTENDS Integers, Sequences, WaitStates

CONSTANTS
    Size,       \* addresses are 0..(Size - 1); r15 wraps (2^32)
    Map,        \* the region of each address
    SwiVector,  \* 0x08
    IrqVector,  \* 0x18
    Code,       \* where each mode has code, and in which instruction set
    Cycles,     \* what the handlers of instructions in sequence return
    Accesses,   \* their loads and stores
    Settings,   \* what they write to WAITCNT
    Operands,   \* what they load into r15 or give to BX
    LowHalves,  \* the offsets in the second half of a Thumb BL
    None        \* no call, or nothing in order

Address == 0..(Size - 1)
Words == {a \in Address : a % 4 = 0}
Width(th) == IF th THEN 2 ELSE 4
Access == [region: Areas \cup {"bios", "ewram", "iwram"}, addr: Address, wide: BOOLEAN, store: BOOLEAN]

ASSUME FetchAssumption ==
    /\ Code \in [{"usr", "svc", "irq"} -> SUBSET {c \in [pc: Address, thumb: BOOLEAN] :
                                                    c.pc % Width(c.thumb) = 0}]
    /\ Size \in Nat \ {0} /\ Size % 4 = 0
    /\ Map \in [Address -> Areas \cup {"bios", "ewram", "iwram"}]
    /\ SwiVector \in Words /\ IrqVector \in Words
    /\ Map[SwiVector] = "bios" /\ Map[IrqVector] = "bios"
    /\ Cycles \subseteq Nat \ {0} /\ Accesses \subseteq Seq(Access)
    /\ Settings \subseteq {UpdateWaitcnt(first, second, prefetch) :
         first \in [Areas -> 0..3], second \in [Areas -> 0..1], prefetch \in BOOLEAN}
    /\ Operands \subseteq Address
    /\ LowHalves \subseteq {k \in Nat : k % 2 = 0}
    /\ None \notin [pc: Address, thumb: BOOLEAN]

VARIABLES
    r15, valid,     \* regs[15] and pipeline_valid
    thumb, masked,  \* CPSR bits T and I
    mode,           \* CPSR mode: usr (or system), svc, irq
    lr,             \* r14 of each mode
    spsr,           \* of svc and irq
    waits, prev,    \* the wait state settings; prev_exec_cycles, or Branched
    call,           \* history: what lr holds for the call or half call in progress
    spent, last     \* history: work of the last instruction, what follows it in order

cpu == <<r15, valid, thumb, masked, mode, lr, spsr>>
vars == <<cpu, waits, prev, call, spent, last>>

Modes == {"usr", "svc", "irq"}
Psr == [mode: Modes, thumb: BOOLEAN, masked: BOOLEAN]

\* The BIOS has started a program in system mode.  (Cpu::reset itself enters the
\* BIOS, masked and in supervisor mode; what the BIOS does is not in the repository.)
Init ==
    /\ \E c \in Code["usr"] : r15 = c.pc /\ thumb = c.thumb
    /\ valid = FALSE /\ masked = FALSE /\ mode = "usr"
    /\ lr = [m \in Modes |-> 0]
    /\ spsr = [m \in Modes \ {"usr"} |-> [mode |-> "usr", thumb |-> FALSE, masked |-> FALSE]]
    /\ waits = PowerOnWaits /\ prev = Branched
    /\ call = None /\ spent = 0 /\ last = None

-----------------------------------------------------------------------------
(***************************************************************************)
(* The pipeline.                                                           *)
(***************************************************************************)

\* Mutant of Plus: addresses do not wrap.
UnwrappedPlus(a, k) == a + k

Plus(a, k) == (a + k) % Size
Ahead(th) == 2 * Width(th)
Aligned(a, th) == a - (a % Width(th))
Context(pc, th) == [pc |-> pc, thumb |-> th]

\* r15 once the pipeline is full.
FlushPipeline == IF valid THEN r15 ELSE Plus(r15, Ahead(thumb))

\* The instruction that the next step executes, and the one after it.
Here == Plus(FlushPipeline, -Ahead(thumb))
NextInstr == Plus(Here, Width(thumb))

\* Mutant of InSequence: the stall is counted as work.
InSequenceStallKept(cycles, accesses, w) ==
    LET work == Work(w, cycles, accesses, Map[Here], thumb, FALSE, Map[Here])
    IN  /\ r15' = Plus(FlushPipeline, Width(thumb)) /\ valid' = TRUE
        /\ waits' = w
        /\ prev' = work + PipelineStall(waits, prev, Map[Here], thumb)
        /\ spent' = work /\ last' = Context(NextInstr, thumb)

\* An instruction that leaves the pipeline full.
InSequence(cycles, accesses, w) ==
    LET work == Work(w, cycles, accesses, Map[Here], thumb, FALSE, Map[Here])
    IN  /\ r15' = Plus(FlushPipeline, Width(thumb)) /\ valid' = TRUE
        /\ waits' = w
        /\ prev' = work
        /\ spent' = work /\ last' = Context(NextInstr, thumb)

\* One that writes r15.
Jumps(target) ==
    /\ r15' = target /\ valid' = FALSE
    /\ prev' = Branched
    /\ spent' = 0 /\ last' = None
    /\ UNCHANGED waits

-----------------------------------------------------------------------------
(***************************************************************************)
(* Instructions.                                                           *)
(***************************************************************************)
SameState == UNCHANGED <<thumb, masked, mode, lr, spsr, call>>

\* Any other instruction, in either state; a store may be to WAITCNT.
Other ==
    /\ \/ \E c \in Cycles, a \in Accesses : InSequence(c, a, waits)
       \/ \E w \in Settings : InSequence(2, <<>>, w)
    /\ SameState

BranchTarget(offset) == Plus(FlushPipeline, offset)

\* arm_branch, thumb_cond_branch, thumb_uncond_branch: relative to r15.
Branch(offset) == Jumps(BranchTarget(offset)) /\ SameState

\* Data processing without S, LDR and LDM in ARM state, ADD, MOV and POP in
\* Thumb state: the value a is written to r15.
LoadPc(a) == Jumps(Aligned(a, thumb)) /\ SameState

\* arm_bx, thumb_hi_reg.
Bx(a) ==
    /\ Jumps(Aligned(a, a % 2 = 1))
    /\ thumb' = (a % 2 = 1)
    /\ UNCHANGED <<masked, mode, lr, spsr, call>>

ArmBranchLink(offset) ==
    /\ ~thumb /\ mode = "usr"
    /\ Jumps(BranchTarget(offset))
    /\ lr' = [lr EXCEPT ![mode] = Plus(FlushPipeline, -4)]
    /\ call' = [kind |-> "return", to |-> Context(NextInstr, FALSE)]
    /\ UNCHANGED <<thumb, masked, mode, spsr>>

\* The two halves of a Thumb BL: instructions of their own.  The first leaves in lr
\* where the call goes but for the low part of the offset, which the second adds.
ThumbLongBranchHigh(offset) ==
    /\ thumb /\ mode = "usr"
    /\ InSequence(1, <<>>, waits)
    /\ lr' = [lr EXCEPT ![mode] = BranchTarget(offset)]
    /\ call' = [kind |-> "half", to |-> Context(Plus(Here, Ahead(thumb) + offset), TRUE)]
    /\ UNCHANGED <<thumb, masked, mode, spsr>>

\* Mutant of ThumbLink: the link does not say that the caller is in Thumb state.
BareLink == Plus(FlushPipeline, -2)

ThumbLink == Plus(FlushPipeline, -2) + 1

ThumbLongBranchLow(low) ==
    /\ thumb /\ mode = "usr" /\ call # None /\ call.kind = "half"
    /\ Jumps(Plus(lr[mode], low))
    /\ lr' = [lr EXCEPT ![mode] = ThumbLink]
    /\ call' = [kind |-> "return", to |-> Context(NextInstr, TRUE)]
    /\ UNCHANGED <<thumb, masked, mode, spsr>>

\* MSR in a handler of software interrupts.
MaskInterrupts ==
    /\ ~thumb /\ mode = "svc"
    /\ InSequence(1, <<>>, waits)
    /\ masked' \in BOOLEAN
    /\ UNCHANGED <<thumb, mode, lr, spsr, call>>

-----------------------------------------------------------------------------
(***************************************************************************)
(* Exceptions.                                                             *)
(***************************************************************************)
Enter(m, ret, vector) ==
    /\ spsr' = [spsr EXCEPT ![m] = [mode |-> mode, thumb |-> thumb, masked |-> masked]]
    /\ lr' = [lr EXCEPT ![m] = ret]
    /\ mode' = m /\ thumb' = FALSE /\ masked' = TRUE
    /\ r15' = vector /\ valid' = FALSE
    /\ UNCHANGED <<waits, call>>

SoftwareInterrupt ==
    /\ mode = "usr"
    /\ Enter("svc", Plus(FlushPipeline, -Width(thumb)), SwiVector)
    /\ prev' = Branched /\ spent' = 0 /\ last' = None

\* Mutant of IrqReturn: the pipeline is not flushed first.
IrqReturnUnflushed(th) == IF th THEN r15 ELSE Plus(r15, -4)

\* Where SUBS PC, LR, #4 returns to, plus 4, in either state.
IrqReturn(th) == IF th THEN FlushPipeline ELSE Plus(FlushPipeline, -4)

CheckIrq ==
    /\ ~masked
    /\ Enter("irq", IrqReturn(thumb), IrqVector)
    /\ UNCHANGED prev
    /\ spent' = 0 /\ last' = None

\* MOVS PC, LR or SUBS PC, LR, #4, or LDM of what they compute: the SPSR comes
\* back first, and its T bit says how the address is aligned.
ReturnFromException ==
    LET ret == IF mode = "irq" THEN Plus(lr[mode], -4) ELSE lr[mode]
    IN  /\ mode # "usr" /\ ~thumb
        /\ Jumps(Aligned(ret, spsr[mode].thumb))
        /\ mode' = spsr[mode].mode /\ thumb' = spsr[mode].thumb
        /\ masked' = spsr[mode].masked
        /\ UNCHANGED <<lr, spsr, call>>

Offsets == {k \in Address : k % Width(thumb) = 0}

Instruction ==
    \/ Other \/ MaskInterrupts
    \/ \E k \in Offsets : Branch(k) \/ ArmBranchLink(k) \/ ThumbLongBranchHigh(k)
    \/ \E a \in Operands : LoadPc(a) \/ Bx(a)
    \/ \E low \in LowHalves : ThumbLongBranchLow(low)

\* A program leaves its own code only through exceptions.
Stays ==
    Context(IF valid' THEN Plus(r15', -Ahead(thumb')) ELSE r15', thumb') \in Code[mode]

Next ==
    \/ Instruction /\ Stays
    \/ SoftwareInterrupt \/ CheckIrq \/ ReturnFromException

Spec == Init /\ [][Next]_vars

-----------------------------------------------------------------------------
(***************************************************************************)
(* Properties                                                              *)
(***************************************************************************)
TypeOK ==
    /\ r15 \in Address /\ valid \in BOOLEAN
    /\ thumb \in BOOLEAN /\ masked \in BOOLEAN /\ mode \in Modes
    /\ lr \in [Modes -> Address]
    /\ spsr \in [Modes \ {"usr"} -> Psr]
    /\ r15 % Width(thumb) = 0

\* The context that the exception of mode m interrupted, as its handler returns to it.
Saved(m) == Context(Plus(lr[m], IF m = "irq" THEN -4 ELSE 0), spsr[m].thumb)

SavedBelow(m) == IF spsr[m].mode = "usr" THEN <<>> ELSE <<Saved(spsr[m].mode)>>

\* The contexts that are suspended: an interrupt handler may have come over a
\* software interrupt's.
Suspended == IF mode = "usr" THEN <<>> ELSE Append(SavedBelow(mode), Saved(mode))

Order == INSTANCE ProgramOrder WITH
    at <- Context(Here, thumb), suspended <- Suspended

\* What each step of the CPU is to the program.
IsItsOwnStep ==
    /\ Other \/ MaskInterrupts => Order!Advance
    /\ \A k \in Offsets : /\ ThumbLongBranchHigh(k) => Order!Advance
                          /\ Branch(k) \/ ArmBranchLink(k) => Order!Branch(k)
    /\ \A a \in Operands : /\ LoadPc(a) => Order!Goto(a, thumb)
                           /\ Bx(a) => Order!Goto(a, a % 2 = 1)
    /\ \A low \in LowHalves :
         ThumbLongBranchLow(low) => Order!Goto(Plus(call.to.pc, low), TRUE)
    /\ SoftwareInterrupt => Order!SoftwareInterrupt
    /\ CheckIrq => Order!Interrupt
    /\ ReturnFromException => Order!Resume

\* A program runs in order, whatever interrupts come between, in either state
\* and with the pipeline full or just flushed.  An instruction that does not jump
\* is followed by the next, a jump goes where its offset or its operand says and
\* in the state it says.  A software interrupt returns behind itself, an interrupt
\* to the instruction it came before, each in the state it interrupted, and an
\* interrupt within a software interrupt to the handler first.
RunsInOrder == Order!Spec /\ [][IsItsOwnStep]_vars

\* BX to lr returns behind the call, and the second half of a Thumb call finds
\* what the first left, with interrupts between them.
CallsReturn ==
    call # None =>
      /\ call.kind = "return" =>
           call.to = Context(Aligned(lr["usr"], lr["usr"] % 2 = 1), lr["usr"] % 2 = 1)
      /\ call.kind = "half" => lr["usr"] = call.to.pc

\* A fetch waits for what the work of the instruction just before, in program
\* order, has not covered: never after a jump or an exception.
StallIsTheRest ==
    LET region == Map[Here]
        rest == FetchTime(waits, region, thumb) - spent
    IN  PipelineStall(waits, prev, region, thumb)
          = IF Slow(waits, region) /\ last = Context(Here, thumb) /\ rest > 0 THEN rest ELSE 0
=============================================================================
