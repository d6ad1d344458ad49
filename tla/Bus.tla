--------------------------------- MODULE Bus ---------------------------------
(***************************************************************************)
(* The clock of the emulator (bus.rs): Bus::tick, which charges the cycles *)
(* of one step to the timers and to the video beam, Bus::run_dma, which    *)
(* performs one DMA transfer, and the I/O registers through which the      *)
(* guest steers both.                                                      *)
(*                                                                         *)
(* The code is sequential: `stage` says which function it is in, so that   *)
(* the loops of tick and run_dma, and an instruction that stores to        *)
(* several registers, are sequences of actions with nothing in between.    *)
(* Only at stage "step" has Gba::step returned.                            *)
(***************************************************************************)
EXTENDS Dma

CONSTANTS
    LineCycles,     \* cycles of a scanline (1232)
    HBlankStart,    \* cycle of a line at which HBlank begins (960)
    VisibleLines,   \* lines drawn, and the number of the first VBlank line (160)
    TotalLines,     \* lines of a frame (228)
    HighBit,        \* weight of the top bit of the VCount setting (128)
    TimerBits,      \* interrupt bits of the timers in use, a subset of 3..6
    IeValues,       \* sets of bits that guests write to IE
    IfValues,       \* sets of bits that guests write to IF
    DispstatValues, \* what guests write to DISPSTAT
    ControlValues   \* what guests write to a DMA control register

VBlank == 0
HBlank == 1
VCount == 2
DmaBit(ch) == 8 + ch

IrqBits == {VBlank, HBlank, VCount} \cup TimerBits \cup {DmaBit(ch) : ch \in Channels}

\* The writable part of DISPSTAT.
DispstatSetting ==
    [vbirq: BOOLEAN, hbirq: BOOLEAN, vcirq: BOOLEAN, lyc: 0..(2 * HighBit - 1)]

ASSUME BusAssumption ==
    /\ LineCycles \in Nat /\ HBlankStart \in 1..(LineCycles - 1)
    /\ TotalLines \in Nat /\ VisibleLines \in 1..(TotalLines - 1)
    /\ HighBit \in Nat \ {0} /\ TotalLines <= 2 * HighBit
    /\ TimerBits \subseteq 3..6
    /\ IeValues \subseteq SUBSET IrqBits
    /\ IfValues \subseteq SUBSET IrqBits
    /\ DispstatValues \subseteq DispstatSetting
    /\ ControlValues \subseteq Control

VARIABLES
    line,       \* Bus.current_scanline
    cyc,        \* Bus.scanline_cycles
    dispstat,   \* Ppu.dispstat: three status flags and the setting
    ie, if_,    \* Bus.ie, Bus.if_ as sets of bit numbers
    ime,        \* Bus.ime
    halted,     \* Bus.halted
    frames,     \* Bus.frame_count, counted from the start of a run_frame call
    stage,      \* "step", "cpu", "dma", "tick" or "lines"
    cost,       \* the cycles the current step has cost so far
    xfer        \* locals of run_dma: the channel and the units left to move

video   == <<line, cyc, frames>>
control == <<ie, if_, ime, halted>>

Dispstat ==
    [vblank: BOOLEAN, hblank: BOOLEAN, vcount: BOOLEAN,
     vbirq: BOOLEAN, hbirq: BOOLEAN, vcirq: BOOLEAN, lyc: 0..(2 * HighBit - 1)]

NoTransfer == [ch |-> 0, left |-> 0]

BusTypeOK ==
    /\ DmaTypeOK
    /\ line \in 0..(TotalLines - 1)
    /\ cyc \in Nat
    /\ dispstat \in Dispstat
    /\ ie \in SUBSET IrqBits
    /\ if_ \in SUBSET IrqBits
    /\ ime \in BOOLEAN
    /\ halted \in BOOLEAN
    /\ frames \in Nat
    /\ stage \in {"step", "cpu", "dma", "tick", "lines"}
    /\ cost \in Nat
    /\ xfer \in [ch: 0..3, left: Nat]

PowerOnDispstat ==
    [vblank |-> FALSE, hblank |-> FALSE, vcount |-> FALSE,
     vbirq |-> FALSE, hbirq |-> FALSE, vcirq |-> FALSE, lyc |-> 0]

\* Bus::new, as far as it is modelled.
BusInit ==
    /\ DmaInit
    /\ line = 0 /\ cyc = 0 /\ frames = 0
    /\ dispstat = PowerOnDispstat
    /\ ie = {} /\ if_ = {} /\ ime = FALSE /\ halted = FALSE
    /\ stage = "step" /\ cost = 0 /\ xfer = NoTransfer

\* Bus::reset: a host call, between two steps.
BusReset ==
    /\ stage = "step"
    /\ DmaReset
    /\ line' = 0 /\ cyc' = 0 /\ frames' = 0
    /\ dispstat' = PowerOnDispstat
    /\ ie' = {} /\ if_' = {} /\ ime' = FALSE /\ halted' = FALSE
    /\ UNCHANGED <<stage, cost, xfer>>

Beam == line * LineCycles + cyc         \* position of the beam in the frame

DrawnCycles == VisibleLines * LineCycles    \* mutant of FrameCycles
FrameCycles == TotalLines * LineCycles

-----------------------------------------------------------------------------
(***************************************************************************)
(* Register writes (io_write16, io_write8).  IF is acknowledged by writing *)
(* ones; a byte write reads the halfword, replaces the byte and writes it  *)
(* back, so it also acknowledges every pending bit of the other byte.      *)
(***************************************************************************)
LowByte == 0..7

WriteIe ==
    /\ \E bits \in IeValues : ie' = bits
    /\ UNCHANGED <<if_, ime, halted, dispstat, dma>>

WriteIf ==
    /\ \E bits \in IfValues : if_' = if_ \ bits
    /\ UNCHANGED <<ie, ime, halted, dispstat, dma>>

WriteIfByte ==
    /\ \E bits \in IfValues :
         \/ if_' = (if_ \cap LowByte) \ bits
         \/ if_' = (if_ \ LowByte) \ bits
    /\ UNCHANGED <<ie, ime, halted, dispstat, dma>>

WriteIme ==
    /\ ime' \in BOOLEAN
    /\ UNCHANGED <<ie, if_, halted, dispstat, dma>>

WriteHaltcnt ==
    /\ halted' = TRUE
    /\ UNCHANGED <<ie, if_, ime, dispstat, dma>>

\* A word write is two halfword writes: of IE and then IF, where it reaches both.
WriteIeIf ==
    /\ \E bits \in IeValues : ie' = bits
    /\ \E bits \in IfValues : if_' = if_ \ bits
    /\ UNCHANGED <<ime, halted, dispstat, dma>>

\* The three status flags keep their values, the VCount flag included.
WriteDispstat ==
    /\ \E s \in DispstatValues :
         dispstat' = [dispstat EXCEPT !.vbirq = s.vbirq, !.hbirq = s.hbirq,
                                      !.vcirq = s.vcirq, !.lyc = s.lyc]
    /\ UNCHANGED <<control, dma>>

WriteDma ==
    /\ \E ch \in Channels :
         \/ \E count \in Counts : WriteCount(ch, count)
         \/ \E cnt \in ControlValues : WriteControl(ch, cnt)
         \/ \E count \in Counts, cnt \in ControlValues : WriteWord(ch, count, cnt)
    /\ UNCHANGED <<control, dispstat>>

RegisterWrite ==
    \/ WriteIe \/ WriteIf \/ WriteIfByte \/ WriteIeIf \/ WriteIme
    \/ WriteHaltcnt \/ WriteDispstat \/ WriteDma

-----------------------------------------------------------------------------
(***************************************************************************)
(* run_dma: the channel's units move one by one, two cycles each; a unit   *)
(* may land on an I/O register.  Then the channel is rearmed or disabled   *)
(* and its interrupt is raised.                                            *)
(***************************************************************************)
DmaStart(ch) ==
    /\ IsNext(ch)
    /\ xfer' = [ch |-> ch, left |-> dma[ch].icount]
    /\ stage' = "dma" /\ cost' = 0
    /\ UNCHANGED <<video, control, dispstat, dma>>

DmaUnit ==
    /\ stage = "dma" /\ xfer.left > 0
    /\ xfer' = [xfer EXCEPT !.left = @ - 1]
    /\ cost' = cost + 2
    /\ \/ RegisterWrite
       \/ UNCHANGED <<control, dispstat, dma>>
    /\ UNCHANGED <<video, stage>>

DmaEnd ==
    /\ stage = "dma" /\ xfer.left = 0
    /\ Complete(xfer.ch)
    /\ if_' = if_ \cup IF dma[xfer.ch].cnt.irq THEN {DmaBit(xfer.ch)} ELSE {}
    /\ cost' = IF cost = 0 THEN 1 ELSE cost
    /\ stage' = "tick" /\ xfer' = NoTransfer
    /\ UNCHANGED <<video, ie, ime, halted, dispstat>>

-----------------------------------------------------------------------------
(***************************************************************************)
(* tick.  Timers::tick may raise any of the timer interrupts; then the     *)
(* beam moves on, line by line, and where it comes to rest decides HBlank  *)
(* and wakes a halted CPU.                                                 *)
(***************************************************************************)
TickStart ==
    /\ stage = "tick"
    /\ \E raised \in SUBSET TimerBits : if_' = if_ \cup raised
    /\ cyc' = cyc + cost
    /\ stage' = "lines"
    /\ UNCHANGED <<line, frames, ie, ime, halted, dispstat, dma, cost, xfer>>

\* Mutant of CompareLine: the setting is the line.
PlainCompareLine(lyc) == lyc

\* The line that the VCount setting names: its top bit counts twice.
CompareLine(lyc) == IF lyc >= HighBit THEN lyc + 2 * HighBit ELSE lyc

\* Mutant of NextLine: the last line is one too far.
LateNextLine == IF line >= TotalLines THEN 0 ELSE line + 1

NextLine == IF line + 1 >= TotalLines THEN 0 ELSE line + 1

\* Mutant of Overrun: the line starts at its first cycle.
NoOverrun == 0

\* Cycles of the step that belong to the line it ran into.
Overrun == cyc - LineCycles

\* Mutant of VBlankFlag: the last line clears the flag.
ShortVBlankFlag(n) == n \in VisibleLines..(TotalLines - 2)

\* The VBlank flag on line n: lines 160-226 set it, line 0 clears it, and the
\* last line leaves it alone.
VBlankFlag(n) ==
    \/ n = VisibleLines
    \/ n > VisibleLines /\ n < TotalLines - 1
    \/ n # 0 /\ dispstat.vblank

AdvanceScanline ==
    /\ stage = "lines" /\ cyc >= LineCycles
    /\ cyc' = Overrun
    /\ line' = NextLine
    /\ frames' = IF line' = 0 THEN frames + 1 ELSE frames
    /\ dispstat' = [dispstat EXCEPT !.vblank = VBlankFlag(line'),
                                    !.vcount = (line' = CompareLine(dispstat.lyc)),
                                    !.hblank = FALSE]
    /\ if_' = if_
          \cup (IF line' = VisibleLines /\ dispstat.vbirq THEN {VBlank} ELSE {})
          \cup (IF dispstat'.vcount /\ dispstat.vcirq THEN {VCount} ELSE {})
    /\ IF line' = VisibleLines THEN Trigger("vblank") ELSE UNCHANGED dma
    /\ UNCHANGED <<ie, ime, halted, stage, cost, xfer>>

\* Mutant of InHBlank: off by one.
LateInHBlank == cyc > HBlankStart

InHBlank == cyc >= HBlankStart

\* Mutant of SleepsOn: only what this tick requests wakes the CPU.
DeafSleepsOn(requests) == halted /\ ie \cap (requests \ if_) = {}

SleepsOn(requests) == halted /\ ie \cap requests = {}

TickEnd ==
    LET entered == InHBlank /\ ~dispstat.hblank /\ line < VisibleLines
    IN  /\ stage = "lines" /\ cyc < LineCycles
        /\ dispstat' = [dispstat EXCEPT !.hblank = InHBlank]
        /\ if_' = if_ \cup IF entered /\ dispstat.hbirq THEN {HBlank} ELSE {}
        /\ IF entered THEN Trigger("hblank") ELSE UNCHANGED dma
        /\ halted' = SleepsOn(if_')
        /\ stage' = "step" /\ cost' = 0
        /\ UNCHANGED <<video, ie, ime, xfer>>
==============================================================================
