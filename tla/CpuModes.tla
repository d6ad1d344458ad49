------------------------------ MODULE CpuModes ------------------------------
(***************************************************************************)
(* Processor modes, banked registers and the exceptions that switch        *)
(* between them (cpu.rs, arm.rs).  The code keeps the registers of the     *)
(* current mode in `regs` and copies them to and from the other modes'     *)
(* arrays at every change of mode.  r0-r7 and r15 are not banked and are   *)
(* left out.                                                               *)
(***************************************************************************)
EXTENDS Naturals

CONSTANTS
    Modes,      \* the modes guests use, of those below
    Low,        \* r8-r12
    Banked,     \* "sp" and "lr"
    Values,     \* what a register may hold
    Zero,       \* the 0 registers start with
    Top,        \* the stack pointers set by Cpu::reset
    GuestPsrs,  \* the values guests write to CPSR and SPSR
    Lists,      \* the register lists of their instructions
    NoPsr       \* an SPSR never written (its bits name no mode)

Regs == Low \cup Banked

\* User and system mode share their registers.
Group(m) == IF m \in {"usr", "sys"} THEN "usr" ELSE m

Groups     == {Group(m) : m \in Modes}
Exceptions == Groups \ {"usr"}

ASSUME ModesAssumption ==
    /\ {"usr", "fiq", "irq", "svc"} \subseteq Modes
    /\ Modes \subseteq {"usr", "sys", "fiq", "irq", "svc", "abt", "und"}
    /\ "lr" \in Banked
    /\ Low \cap Banked = {}
    /\ Zero \in Values /\ Top \in Values

\* CPSR and SPSR: the mode bits and the I bit; flags and T play no part here.
Psr == [mode: Modes, masked: BOOLEAN]

ASSUME PsrAssumption ==
    /\ NoPsr \notin Psr
    /\ GuestPsrs \subseteq Psr
    /\ Lists \subseteq SUBSET Regs

VARIABLES
    cpu,        \* regs, cpsr and the arrays of the other modes
    spsr        \* spsr_fiq, spsr_irq, ...

vars == <<cpu, spsr>>

Cpu ==
    [regs: [Regs -> Values], psr: Psr,
     bank: [Groups -> [Banked -> Values]],   \* r13_14_usr, ..., r8_14_fiq[5..6]
     usrLow: [Low -> Values],                \* r8_12_usr
     fiqLow: [Low -> Values]]                \* r8_14_fiq[0..4]

TypeOK ==
    /\ cpu \in Cpu
    /\ spsr \in [Exceptions -> Psr \cup {NoPsr}]

\* Cpu::new and Cpu::reset.
PowerOn ==
    [regs |-> [r \in Regs |-> IF r = "sp" THEN Top ELSE Zero],
     psr |-> [mode |-> "svc", masked |-> TRUE],
     bank |-> [g \in Groups |-> [r \in Banked |->
                IF r = "sp" /\ g \in {"usr", "irq", "svc"} THEN Top ELSE Zero]],
     usrLow |-> [r \in Low |-> Zero],
     fiqLow |-> [r \in Low |-> Zero]]

Init ==
    /\ cpu = PowerOn
    /\ spsr = [g \in Exceptions |-> NoPsr]

-----------------------------------------------------------------------------
(***************************************************************************)
(* Cpu::switch_mode                                                        *)
(***************************************************************************)
\* The registers of c with those in the domain of w overwritten.
Overwritten(regs, w) == [r \in Regs |-> IF r \in DOMAIN w THEN w[r] ELSE regs[r]]

Only(regs, R) == [r \in R |-> regs[r]]

\* Mutant of Saved: every mode puts away seven registers, as FIQ does.
WholeSaved(c, g) ==
    [c EXCEPT !.bank[g] = c.regs,
              !.usrLow = IF g = "usr" THEN Only(c.regs, Low) ELSE c.usrLow,
              !.fiqLow = IF g = "fiq" THEN Only(c.regs, Low) ELSE c.fiqLow]

\* The current registers put away, leaving group g.
Saved(c, g) ==
    [c EXCEPT !.bank[g] = Only(c.regs, Banked),
              !.usrLow = IF g = "usr" THEN Only(c.regs, Low) ELSE c.usrLow,
              !.fiqLow = IF g = "fiq" THEN Only(c.regs, Low) ELSE c.fiqLow]

\* Mutant of LowAfter: r8-r12 are not brought back when FIQ mode is left.
LowKept(c, g, h) ==
    IF h = "fiq" THEN c.fiqLow ELSE Only(c.regs, Low)

\* r8-r12 of group h, which is entered from g.
LowAfter(c, g, h) ==
    IF h = "fiq" THEN c.fiqLow
    ELSE IF g = "fiq" THEN c.usrLow
    ELSE Only(c.regs, Low)

\* cpu after switch_mode(m); the other bits of the CPSR stay.
Switched(c, m) ==
    LET g == Group(c.psr.mode)
        h == Group(m)
        s == Saved(c, g)
    IN  IF c.psr.mode = m THEN c
        ELSE [s EXCEPT
                !.regs = Overwritten(Overwritten(c.regs, s.bank[h]), LowAfter(s, g, h)),
                !.usrLow = IF g # "fiq" /\ h = "fiq" THEN Only(c.regs, Low) ELSE s.usrLow,
                !.psr.mode = m]

\* cpu with registers and with the whole CPSR set.
WithRegs(c, w) == [c EXCEPT !.regs = Overwritten(c.regs, w)]
WithPsr(c, p)  == [c EXCEPT !.psr = p]

-----------------------------------------------------------------------------
(***************************************************************************)
(* Exceptions and returns.                                                 *)
(***************************************************************************)
Here == Group(cpu.psr.mode)

\* Cpu::check_irq (g = "irq") and Cpu::software_interrupt (g = "svc"): the old
\* CPSR is kept, the return address goes to the new mode's r14, and interrupts
\* are masked.
TakeException(g, ret) ==
    /\ cpu' = WithPsr(WithRegs(Switched(cpu, g), [r \in {"lr"} |-> ret]),
                      [mode |-> g, masked |-> TRUE])
    /\ spsr' = [spsr EXCEPT ![g] = cpu.psr]

TakeIrq(ret) == ~cpu.psr.masked /\ TakeException("irq", ret)

SoftwareInterrupt(ret) == TakeException("svc", ret)

\* get_spsr: user and system mode have no SPSR and read the CPSR.
GetSpsr == IF Here = "usr" THEN cpu.psr ELSE spsr[Here]

\* The program has something to return to.
MayReturn == GetSpsr # NoPsr

\* A data-processing instruction with the S bit that writes r15 (MOVS pc, lr).
ReturnByMove ==
    /\ MayReturn
    /\ cpu' = WithPsr(Switched(cpu, GetSpsr.mode), GetSpsr)
    /\ UNCHANGED spsr

\* LDM with the S bit and r15 in its list: loads w, returns, and only then
\* writes its base register back, in the mode it has returned to.
ReturnByLoad(w, back) ==
    /\ MayReturn
    /\ LET loaded   == WithRegs(cpu, w)
           returned == WithPsr(Switched(loaded, GetSpsr.mode), GetSpsr)
       IN  cpu' = WithRegs(returned, back)
    /\ UNCHANGED spsr

\* LDM or STM with the S bit and without r15 in its list works on the user
\* registers, and writes no base register back.
UserBlock(w) == Switched(WithRegs(Switched(cpu, "usr"), w), cpu.psr.mode)

TransferUserRegs(w) == cpu' = UserBlock(w) /\ UNCHANGED spsr

\* Any other instruction that writes registers.
Execute(w) == cpu' = WithRegs(cpu, w) /\ UNCHANGED spsr

-----------------------------------------------------------------------------
(***************************************************************************)
(* arm_psr_transfer, where its mask selects the control byte; with other   *)
(* masks, and when it reads a PSR, it writes flags or a register only.     *)
(***************************************************************************)
\* Mutant of Privileged: user mode may write the control byte.
Everyone == TRUE

\* In user mode the mask keeps nothing but the flags.
Privileged == cpu.psr.mode # "usr"

MsrCpsr(p) ==
    /\ Privileged
    /\ cpu' = WithPsr(Switched(cpu, p.mode), p)
    /\ UNCHANGED spsr

\* set_spsr does nothing in system mode.
MsrSpsr(p) ==
    /\ Privileged /\ Here # "usr"
    /\ spsr' = [spsr EXCEPT ![Here] = p]
    /\ UNCHANGED cpu

\* emu_reset makes a new Cpu.
Reset == cpu' = PowerOn /\ spsr' = [g \in Exceptions |-> NoPsr]

\* What one instruction loads.
Loads == UNION {[R -> Values] : R \in Lists}

\* What a base register takes, if it is written back at all.
Backs == UNION {[R -> Values] : R \in {{}} \cup {{r} : r \in Regs}}

Next ==
    \/ \E ret \in Values : TakeIrq(ret) \/ SoftwareInterrupt(ret)
    \/ ReturnByMove
    \/ \E w \in Loads : TransferUserRegs(w) \/ Execute(w)
    \/ \E w \in Loads, back \in Backs : ReturnByLoad(w, back)
    \/ \E p \in GuestPsrs : MsrCpsr(p) \/ MsrSpsr(p)
    \/ Reset

Spec == Init /\ [][Next]_vars

-----------------------------------------------------------------------------
(***************************************************************************)
(* Properties                                                              *)
(***************************************************************************)

\* The physical register that name r means to group g: current, or put away.
View(c, g, r) ==
    LET here == Group(c.psr.mode)
    IN  IF r \in Banked THEN IF g = here THEN c.regs[r] ELSE c.bank[g][r]
        ELSE IF (g = "fiq") <=> (here = "fiq") THEN c.regs[r]
        ELSE IF g = "fiq" THEN c.fiqLow[r] ELSE c.usrLow[r]

Phys(g, r) == IF r \in Low /\ g # "fiq" THEN <<"usr", r>> ELSE <<g, r>>

\* All of them, as cpu c has them.
FileOf(c) == [p \in {Phys(g, r) : g \in Groups, r \in Regs} |-> View(c, p[1], p[2])]

File == INSTANCE RegisterFile WITH
    file <- FileOf(cpu), group <- Here, Lr <- "lr", BootFile <- FileOf(PowerOn)

\* The copies behave as one file of banked registers: whatever the order of
\* exceptions, returns, MSRs and user-bank transfers, no register of a mode is
\* lost, duplicated or swapped with another's.
BanksAreOneFile == File!Spec

\* A user program gets into another mode through an exception or a reset only;
\* the exception masks interrupts and leaves the way back in its SPSR.
UserLeavesByException ==
    [][ cpu.psr.mode = "usr" /\ cpu'.psr.mode # "usr" =>
          \/ cpu' = PowerOn
          \/ /\ cpu'.psr.mode \in {"irq", "svc"} /\ cpu'.psr.masked
             /\ spsr'[cpu'.psr.mode] = cpu.psr ]_vars
=============================================================================
