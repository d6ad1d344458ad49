--------------------------------- MODULE Gba ---------------------------------
(***************************************************************************)
(* The machine as the host drives it (lib.rs): emu_load_rom, emu_reset and *)
(* emu_run_frame, the loop of Gba::run_frame, and Gba::step, which gives   *)
(* each turn to a due DMA transfer, to a halted CPU or to an instruction.  *)
(* The CPU is reduced to what the rest of the machine sees of it: it takes *)
(* interrupts, it masks them, it stores to I/O registers, it costs cycles. *)
(***************************************************************************)
EXTENDS Bus

CONSTANTS
    InstrCosts,     \* what an instruction may cost
    IrqCost,        \* what entering an interrupt costs (3)
    MaxStores,      \* bound: register stores of one instruction
    BootCycles      \* cycles emu_load_rom lets pass (276000)

ASSUME GbaAssumption ==
    /\ InstrCosts \subseteq Nat \ {0}
    /\ IrqCost \in Nat \ {0}
    /\ MaxStores \in Nat
    /\ \E c \in InstrCosts : c >= MaxStores
    /\ BootCycles \in Nat

\* No step takes longer than a frame: an instruction takes a few hundred cycles
\* at most, a DMA transfer 2 * 0x10000, a frame 228 * 1232.
ASSUME CostAssumption ==
    /\ \A c \in InstrCosts : c <= FrameCycles
    /\ IrqCost <= FrameCycles
    /\ \A n \in Counts : 2 * n <= FrameCycles
    /\ 2 * ShortMax <= FrameCycles /\ 2 * LongMax <= FrameCycles

VARIABLES
    irqMask,    \* CPSR.I
    phase,      \* which host call runs: "boot" (emu_load_rom), "frame", or "idle"
    elapsed,    \* local of run_frame (bios_cycles in emu_load_rom)
    start       \* history: where the beam was when the host call began

host    == <<phase, start>>
bus     == <<dma, line, cyc, dispstat, ie, if_, ime, halted, frames, stage, cost, xfer>>
vars    == <<bus, irqMask, phase, elapsed, start>>

TypeOK ==
    /\ BusTypeOK
    /\ irqMask \in BOOLEAN
    /\ phase \in {"boot", "frame", "idle"}
    /\ elapsed \in Nat
    /\ start \in 0..(FrameCycles - 1)

\* emu_init.
Init ==
    /\ BusInit
    /\ irqMask = TRUE
    /\ phase = "idle" /\ elapsed = 0 /\ start = 0

-----------------------------------------------------------------------------
(***************************************************************************)
(* Cpu::step                                                               *)
(***************************************************************************)
Deliverable == ~irqMask /\ ime /\ ie \cap if_ # {}

\* check_irq takes the interrupt.
IrqEntry ==
    /\ Deliverable
    /\ halted' = FALSE
    /\ irqMask' = TRUE
    /\ cost' = IrqCost /\ stage' = "tick"
    /\ UNCHANGED <<video, ie, if_, ime, dispstat, dma, xfer>>

\* Otherwise an instruction begins.
Execute ==
    /\ ~Deliverable
    /\ cost' = 0 /\ stage' = "cpu"
    /\ UNCHANGED <<video, control, dispstat, dma, xfer, irqMask>>

CpuStep == IrqEntry \/ Execute

\* A store of the instruction hits an I/O register.
CpuStore ==
    /\ stage = "cpu" /\ cost < MaxStores
    /\ cost' = cost + 1
    /\ RegisterWrite
    /\ UNCHANGED <<video, stage, xfer, irqMask, host, elapsed>>

\* The instruction ends; it may have written CPSR (MSR, SWI, a return).
CpuEnd ==
    /\ stage = "cpu"
    /\ \E c \in InstrCosts : c >= cost /\ cost' = c
    /\ irqMask' \in BOOLEAN
    /\ stage' = "tick"
    /\ UNCHANGED <<video, control, dispstat, dma, xfer, host, elapsed>>

-----------------------------------------------------------------------------
(***************************************************************************)
(* Gba::step, called by run_frame until a frame's worth of cycles passed   *)
(***************************************************************************)
Running == stage = "step" /\ phase = "frame" /\ elapsed < FrameCycles

DmaTurn ==
    /\ Running
    /\ \E ch \in Channels : DmaStart(ch)
    /\ UNCHANGED <<irqMask, host, elapsed>>

\* Mutant of HaltCost: sleep until HBlank, and no minimum.
NapCost == IF cyc < HBlankStart THEN HBlankStart - cyc ELSE 0

\* A halted CPU sleeps to the end of the line.
HaltCost == IF cyc < LineCycles THEN LineCycles - cyc ELSE 1

HaltTurn ==
    /\ Running /\ ~AnyActive /\ halted
    /\ cost' = HaltCost /\ stage' = "tick"
    /\ UNCHANGED <<video, control, dispstat, dma, xfer, irqMask, host, elapsed>>

CpuTurn ==
    /\ Running /\ ~AnyActive /\ ~halted
    /\ CpuStep
    /\ UNCHANGED <<host, elapsed>>

\* What happens inside a turn, whoever's it is.
DmaTransfers == (DmaUnit \/ DmaEnd) /\ UNCHANGED <<irqMask, host, elapsed>>
Tick         == (TickStart \/ AdvanceScanline) /\ UNCHANGED <<irqMask, host, elapsed>>
TurnEnds     == TickEnd /\ elapsed' = elapsed + cost /\ UNCHANGED <<irqMask, host>>

-----------------------------------------------------------------------------
(***************************************************************************)
(* Host calls                                                              *)
(***************************************************************************)
RunFrame ==
    /\ phase = "idle" /\ stage = "step"
    /\ phase' = "frame"
    /\ elapsed' = 0 /\ frames' = 0 /\ start' = Beam
    /\ UNCHANGED <<line, cyc, control, dispstat, dma, stage, cost, xfer, irqMask>>

RunFrameReturns ==
    /\ phase = "frame" /\ stage = "step" /\ elapsed >= FrameCycles
    /\ phase' = "idle"
    /\ UNCHANGED <<bus, irqMask, elapsed, start>>

Restart(p) ==
    /\ phase = "idle"
    /\ BusReset
    /\ irqMask' = TRUE
    /\ phase' = p /\ elapsed' = 0 /\ start' = 0

EmuReset   == Restart("idle")
EmuLoadRom == Restart("boot")

\* emu_load_rom calls Cpu::step directly: neither HALT nor DMA gets a turn.
\* The guard bounds the BIOS code, which is not part of the repository.
BootTurn ==
    /\ phase = "boot" /\ stage = "step" /\ elapsed < BootCycles
    /\ CpuStep
    /\ UNCHANGED <<host, elapsed>>

\* The BIOS has reached the cartridge; the rest of the boot time passes at once.
BootEnds ==
    /\ phase = "boot" /\ stage = "step"
    /\ phase' = "idle"
    /\ IF elapsed < BootCycles
       THEN cost' = BootCycles - elapsed /\ stage' = "tick"
       ELSE UNCHANGED <<cost, stage>>
    /\ UNCHANGED <<video, control, dispstat, dma, xfer, irqMask, elapsed, start>>

Machine ==
    \/ DmaTurn \/ HaltTurn \/ CpuTurn
    \/ DmaTransfers \/ CpuStore \/ CpuEnd \/ Tick \/ TurnEnds
    \/ RunFrameReturns \/ BootTurn \/ BootEnds

Next == Machine \/ RunFrame \/ EmuReset \/ EmuLoadRom

Spec == Init /\ [][Next]_vars

\* The machine is one thread, which goes on until the host call returns; the
\* host calls emu_run_frame again and again.
FairSpec == Spec /\ WF_vars(Machine) /\ WF_vars(RunFrame)

-----------------------------------------------------------------------------
(***************************************************************************)
(* Properties                                                              *)
(***************************************************************************)

\* No lost wake-up: whenever Gba::step returns with the CPU halted, no enabled
\* interrupt is pending, even when the store to HALTCNT or to IE came after the
\* request, or when a DMA transfer made the store.
SafeHalt == stage = "step" /\ halted => ie \cap if_ = {}

\* However many lines a step spans, the status flags that the guest polls are
\* those of the beam's position: the VBlank flag is up on lines 160 to 227 and
\* the HBlank flag from cycle 960 of every line.
FlagsFollowBeam ==
    stage = "step" => /\ dispstat.vblank <=> line >= VisibleLines
                      /\ dispstat.hblank <=> cyc >= HBlankStart

\* No cycle is lost or counted twice between run_frame and the beam: what the
\* call has charged is what the beam has travelled since the call began.
TimeKept ==
    start + elapsed + (IF stage = "lines" THEN cost ELSE 0)
        = frames * FrameCycles + Beam

\* A line can pass with no HBlank, and no HBlank interrupt or transfer, only
\* under a step longer than the HBlank period: a DMA transfer, the boot padding,
\* or the sleep of a halted CPU.
HBlankSkippedOnlyByLongStep ==
    stage = "lines" /\ cyc >= LineCycles /\ ~dispstat.hblank
        => cost > LineCycles - HBlankStart

\* The top bit of the VCount setting makes the upper lines unreachable: VCount
\* interrupts come from lines 0 to 127 only, whatever the guest asks for.
VCountOnlyBelowHighBit ==
    [][(VCount \in if_' \ if_) => line' < HighBit]_vars

\* When run_frame is about to return, the beam has crossed the end of a frame,
\* and at most twice, so the host finds a newly completed picture.
CallDrawsAFrame ==
    phase = "frame" /\ stage = "step" /\ elapsed >= FrameCycles => frames \in 1..2

\* What the frame dumps of the test programs rest on: one call, one frame.
OneFramePerCall ==
    phase = "frame" /\ stage = "step" /\ elapsed >= FrameCycles => frames = 1

\* A CPU that halts waiting for VBlank wakes up, or stops waiting for it.
AwaitsVBlank == halted /\ dispstat.vbirq /\ VBlank \in ie
VBlankWakes  == AwaitsVBlank ~> ~AwaitsVBlank

\* No transfer can start another, and none outlasts VBlank, in which no HBlank
\* makes a channel due again.
BriefTransfers ==
    \A ch \in Channels : dma[ch].icount > 0 =>
        /\ \A other \in Channels \ {ch} : dma[other].icount = 0
        /\ 2 * dma[ch].icount <= (TotalLines - VisibleLines) * LineCycles

\* DMA goes before the CPU, and an HBlank channel whose transfers take a line is due
\* again whenever it ends, until the last line is drawn.  If from some time on at
\* most one channel has a transfer programmed, and one that VBlank has room for, the
\* CPU gets its turn: a request that it is ready to take is taken, or withdrawn by a
\* transfer that writes IE, IF or IME.  Longer transfers can keep it out for good.
IrqServed == <>[]BriefTransfers => (Deliverable /\ phase = "frame" ~> ~Deliverable)

\* emu_run_frame returns.
CallReturns == phase = "frame" ~> phase = "idle"
==============================================================================
