---------------------------- MODULE ProgramOrder ----------------------------
(***************************************************************************)
(* What a program may take for granted of the CPU, pipeline and registers  *)
(* aside: an instruction is followed by the next one or by the one that it *)
(* names, and an exception comes between two of them and, once its handler *)
(* returns, has left no trace of where it came.  The contexts that         *)
(* exceptions suspended are a stack.                                       *)
(***************************************************************************)
EXTENDS Integers, Sequences, SequencesExt

CONSTANTS
    Size,       \* addresses are 0..(Size - 1) and wrap
    SwiVector,  \* where the handler of software interrupts starts
    IrqVector   \* where that of interrupts starts

VARIABLES
    at,         \* the next instruction: its address and its instruction set
    suspended   \* the contexts that exceptions interrupted

vars == <<at, suspended>>

Width(thumb) == IF thumb THEN 2 ELSE 4
Context == {c \in [pc: 0..(Size - 1), thumb: BOOLEAN] : c.pc % Width(c.thumb) = 0}

After(c, k) == [c EXCEPT !.pc = (@ + k) % Size]
NextOf(c) == After(c, Width(c.thumb))

\* An instruction that does not jump.
Advance == at' = NextOf(at) /\ UNCHANGED suspended

\* A relative branch: offsets count from two instructions on.
Branch(offset) ==
    at' = After(at, 2 * Width(at.thumb) + offset) /\ UNCHANGED suspended

\* A jump to a given address, into a given instruction set.
Goto(a, thumb) ==
    at' = [pc |-> a - (a % Width(thumb)), thumb |-> thumb] /\ UNCHANGED suspended

Enter(vector, resume) ==
    /\ at' = [pc |-> vector, thumb |-> FALSE]
    /\ suspended' = Append(suspended, resume)

\* A software interrupt is an instruction, which has run; an interrupt comes
\* before one, which has not.
SoftwareInterrupt == Enter(SwiVector, NextOf(at))
Interrupt         == Enter(IrqVector, at)

Resume ==
    /\ suspended # <<>>
    /\ at' = Last(suspended)
    /\ suspended' = Front(suspended)

Next ==
    \/ Advance \/ SoftwareInterrupt \/ Interrupt \/ Resume
    \/ \E offset \in 0..(Size - 1) : Branch(offset)
    \/ \E c \in Context : Goto(c.pc, c.thumb)

Spec == at \in Context /\ suspended = <<>> /\ [][Next]_vars
=============================================================================
