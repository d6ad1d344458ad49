----------------------------- MODULE Gba_proofs -------------------------------
(***************************************************************************)
(* Safety of the step loop, for every frame geometry, every set of DMA     *)
(* channels and every cost of instructions.  First what the operations of the *)
(* DMA controller preserve.                                                *)
(***************************************************************************)
EXTENDS Gba, TLAPS

DmaOK == DmaTypeOK /\ DmaActiveHasWork

\* A latched count is a positive number of units.
LEMMA FullCountPositive ==
    ASSUME NEW ch \in Channels, NEW count \in Counts \cup {0}
    PROVE  FullCount(ch, count) \in Nat \ {0}
  BY DmaAssumption DEF FullCount

\* Channel records that differ from a channel in the fields the controller
\* changes are channels.
LEMMA EnabledOK ==
    ASSUME NEW ch \in Channels, NEW chan \in Channel, NEW cnt \in Control,
           chan.active => chan.icount > 0
    PROVE  LET c == Enabled(ch, chan, cnt)
           IN  c \in Channel /\ (c.active => c.icount > 0)
  <1> DEFINE n == FullCount(ch, chan.count)
  <1>1. n \in Nat \ {0}
    BY FullCountPositive DEF Channel
  <1>2. CASE cnt.enable
    <2>1. Enabled(ch, chan, cnt) =
            [chan EXCEPT !.cnt = cnt, !.icount = n, !.active = @ \/ cnt.timing = "immediate"]
      BY <1>2 DEF Enabled
    <2> HIDE DEF n
    <2>2. Enabled(ch, chan, cnt) \in Channel
      BY <1>1, <2>1 DEF Channel
    <2>3. Enabled(ch, chan, cnt).icount = n
      BY <1>1, <2>1 DEF Channel
    <2> QED  BY <1>1, <2>2, <2>3
  <1>3. CASE ~cnt.enable
    <2>1. Enabled(ch, chan, cnt) = [chan EXCEPT !.cnt = cnt]
      BY <1>3 DEF Enabled
    <2> QED  BY <2>1 DEF Channel
  <1> QED  BY <1>2, <1>3

LEMMA TriggeredOK ==
    ASSUME NEW ch \in Channels, NEW chan \in Channel, NEW event \in Timings,
           chan.active => chan.icount > 0
    PROVE  LET c == Triggered(ch, chan, event)
           IN  c \in Channel /\ (c.active => c.icount > 0)
  <1> DEFINE n == FullCount(ch, chan.count)
  <1>1. n \in Nat \ {0}
    BY FullCountPositive DEF Channel
  <1>2. CASE chan.cnt.enable /\ chan.cnt.timing = event
    <2>1. Triggered(ch, chan, event) =
            [chan EXCEPT !.active = TRUE, !.icount = IF @ = 0 THEN n ELSE @]
      BY <1>2 DEF Triggered
    <2> HIDE DEF n
    <2>2. Triggered(ch, chan, event) \in Channel
      BY <1>1, <2>1 DEF Channel
    <2>3. Triggered(ch, chan, event).icount > 0
      BY <1>1, <2>1 DEF Channel
    <2> QED  BY <2>2, <2>3
  <1>3. CASE ~(chan.cnt.enable /\ chan.cnt.timing = event)
    BY <1>3 DEF Triggered
  <1> QED  BY <1>2, <1>3

LEMMA CompletedOK ==
    ASSUME NEW ch \in Channels, NEW chan \in Channel
    PROVE  LET c == Completed(ch, chan)
           IN  c \in Channel /\ ~c.active
  <1> DEFINE m == IF Repeats(chan) THEN FullCount(ch, chan.count) ELSE 0
             k == [chan.cnt EXCEPT !.enable = @ /\ Repeats(chan)]
  <1>1. m \in Nat
    BY FullCountPositive DEF Channel
  <1>2. k \in Control
    BY DEF Channel, Control, Repeats
  <1>3. Completed(ch, chan) =
          [chan EXCEPT !.active = FALSE, !.icount = m, !.cnt = k]
    BY DEF Completed, Channel
  <1> HIDE DEF m, k
  <1>4. Completed(ch, chan) \in Channel
    BY <1>1, <1>2, <1>3 DEF Channel
  <1>5. Completed(ch, chan).active = FALSE
    BY <1>3 DEF Channel
  <1> QED  BY <1>4, <1>5

\* The initial controller has no transfer due.
LEMMA IdleOK == dma = Idle => DmaOK
  BY DmaAssumption DEF Idle, DmaOK, DmaTypeOK, DmaActiveHasWork, Channel, Control, Timings

LEMMA IdleOKNext == dma' = Idle => DmaOK'
  BY DmaAssumption DEF Idle, DmaOK, DmaTypeOK, DmaActiveHasWork, Channel, Control, Timings

\* Each operation of the controller keeps it well formed, with work to do on
\* every channel that is due.
LEMMA WriteCountOK ==
    ASSUME DmaOK, NEW ch \in Channels, NEW count \in Counts, WriteCount(ch, count)
    PROVE  DmaOK'
  BY DEF DmaOK, DmaTypeOK, DmaActiveHasWork, WriteCount, Channel

LEMMA WriteControlOK ==
    ASSUME DmaOK, NEW ch \in Channels, NEW cnt \in Control, WriteControl(ch, cnt)
    PROVE  DmaOK'
  <1>1. LET c == Enabled(ch, dma[ch], cnt)
        IN  c \in Channel /\ (c.active => c.icount > 0)
    BY EnabledOK DEF DmaOK, DmaTypeOK, DmaActiveHasWork
  <1> QED  BY <1>1 DEF DmaOK, DmaTypeOK, DmaActiveHasWork, WriteControl

LEMMA WriteWordOK ==
    ASSUME DmaOK, NEW ch \in Channels, NEW count \in Counts, NEW cnt \in Control,
           WriteWord(ch, count, cnt)
    PROVE  DmaOK'
  <1> DEFINE chan == [dma[ch] EXCEPT !.count = count]
  <1>1. chan \in Channel /\ (chan.active => chan.icount > 0)
    BY DEF DmaOK, DmaTypeOK, DmaActiveHasWork, Channel
  <1>2. dma' = [dma EXCEPT ![ch] = Enabled(ch, chan, cnt)]
    BY DEF WriteWord, DmaOK, DmaTypeOK
  <1> HIDE DEF chan
  <1>3. LET c == Enabled(ch, chan, cnt) IN c \in Channel /\ (c.active => c.icount > 0)
    BY <1>1, EnabledOK
  <1> QED  BY <1>2, <1>3 DEF DmaOK, DmaTypeOK, DmaActiveHasWork

LEMMA TriggerOK ==
    ASSUME DmaOK, NEW event \in Timings, Trigger(event)
    PROVE  DmaOK'
  <1>1. ASSUME NEW ch \in Channels
        PROVE  LET c == Triggered(ch, dma[ch], event)
               IN  c \in Channel /\ (c.active => c.icount > 0)
    BY TriggeredOK DEF DmaOK, DmaTypeOK, DmaActiveHasWork
  <1> QED  BY <1>1 DEF DmaOK, DmaTypeOK, DmaActiveHasWork, Trigger

LEMMA CompleteOK ==
    ASSUME DmaOK, NEW ch \in Channels, Complete(ch)
    PROVE  DmaOK'
  <1>1. LET c == Completed(ch, dma[ch]) IN c \in Channel /\ ~c.active
    BY CompletedOK DEF DmaOK, DmaTypeOK
  <1> QED  BY <1>1 DEF DmaOK, DmaTypeOK, DmaActiveHasWork, Complete

-----------------------------------------------------------------------------
(***************************************************************************)
(* The step loop                                                           *)
(***************************************************************************)
(***************************************************************************)
(* What the proofs of the invariants need besides the types: where the     *)
(* beam may be outside tick, and which channel run_dma holds.              *)
(***************************************************************************)
BeamAtRest == stage # "lines" => cyc < LineCycles
XferOK     == stage = "dma" => xfer.ch \in Channels
StepOK     == stage = "step" => cost = 0

IInv ==
    /\ TypeOK
    /\ DmaActiveHasWork
    /\ BeamAtRest
    /\ XferOK
    /\ StepOK

-----------------------------------------------------------------------------
\* Any position of the beam inside a line is inside the frame.
LEMMA BeamInFrame ==
    ASSUME NEW l \in 0..(TotalLines - 1), NEW c \in Nat, c < LineCycles
    PROVE  l * LineCycles + c \in 0..(FrameCycles - 1)
  <1>1. LineCycles \in Nat \ {0} /\ TotalLines \in Nat \ {0}
    BY BusAssumption
  <1>2. l * LineCycles \in Nat
    BY <1>1
  <1>3. l * LineCycles <= (TotalLines - 1) * LineCycles
    BY <1>1
  <1>4. (TotalLines - 1) * LineCycles + LineCycles = FrameCycles
    BY <1>1 DEF FrameCycles
  <1> QED  BY <1>1, <1>2, <1>3, <1>4

LEMMA FrameCyclesNat == FrameCycles \in Nat \ {0}
  BY BusAssumption DEF FrameCycles

\* A register write of an instruction or of a transfer keeps the types, the DMA
\* invariant and the status flags.
LEMMA RegisterWriteOK ==
    ASSUME BusTypeOK, DmaActiveHasWork, RegisterWrite
    PROVE  /\ DmaOK'
           /\ ie' \in SUBSET IrqBits /\ if_' \in SUBSET IrqBits
           /\ ime' \in BOOLEAN /\ halted' \in BOOLEAN
           /\ dispstat' \in Dispstat
           /\ dispstat'.vblank = dispstat.vblank
           /\ dispstat'.hblank = dispstat.hblank
  <1> USE DEF BusTypeOK
  <1>0. DmaOK
    BY DEF DmaOK
  <1>1. UNCHANGED dma => DmaOK'
    BY <1>0 DEF DmaOK, DmaTypeOK, DmaActiveHasWork
  <1>2. CASE WriteIe
    BY <1>1, <1>2, BusAssumption DEF WriteIe
  <1>3. CASE WriteIf
    BY <1>1, <1>3 DEF WriteIf
  <1>4. CASE WriteIfByte
    BY <1>1, <1>4 DEF WriteIfByte
  <1>9. CASE WriteIeIf
    BY <1>1, <1>9, BusAssumption DEF WriteIeIf
  <1>5. CASE WriteIme
    BY <1>1, <1>5 DEF WriteIme
  <1>6. CASE WriteHaltcnt
    BY <1>1, <1>6 DEF WriteHaltcnt
  <1>7. CASE WriteDispstat
    <2>1. PICK s \in DispstatSetting :
            dispstat' = [dispstat EXCEPT !.vbirq = s.vbirq, !.hbirq = s.hbirq,
                                         !.vcirq = s.vcirq, !.lyc = s.lyc]
      BY <1>7, BusAssumption DEF WriteDispstat
    <2>2. /\ dispstat' \in Dispstat
          /\ dispstat'.vblank = dispstat.vblank
          /\ dispstat'.hblank = dispstat.hblank
      BY <2>1 DEF Dispstat, DispstatSetting
    <2> QED  BY <1>1, <1>7, <2>2 DEF WriteDispstat, control
  <1>8. CASE WriteDma
    <2>1. DmaOK'
      <3>1. PICK ch \in Channels :
              \/ \E count \in Counts : WriteCount(ch, count)
              \/ \E cnt \in ControlValues : WriteControl(ch, cnt)
              \/ \E count \in Counts, cnt \in ControlValues : WriteWord(ch, count, cnt)
        BY <1>8 DEF WriteDma
      <3>2. CASE \E count \in Counts : WriteCount(ch, count)
        BY <1>0, <3>2, WriteCountOK
      <3>3. CASE \E cnt \in ControlValues : WriteControl(ch, cnt)
        BY <1>0, <3>3, WriteControlOK, BusAssumption
      <3>4. CASE \E count \in Counts, cnt \in ControlValues : WriteWord(ch, count, cnt)
        BY <1>0, <3>4, WriteWordOK, BusAssumption
      <3> QED  BY <3>1, <3>2, <3>3, <3>4
    <2> QED  BY <1>8, <2>1 DEF WriteDma, control
  <1> QED  BY <1>2, <1>3, <1>4, <1>5, <1>6, <1>7, <1>8, <1>9 DEF RegisterWrite

LEMMA InitIInv == Init => IInv
  <1> SUFFICES ASSUME Init PROVE IInv
    OBVIOUS
  <1>1. DmaTypeOK /\ DmaActiveHasWork
    BY IdleOK DEF Init, BusInit, DmaInit, DmaOK
  <1>2. dispstat \in Dispstat
    BY BusAssumption DEF Init, BusInit, PowerOnDispstat, Dispstat
  <1>3. start \in 0..(FrameCycles - 1)
    BY FrameCyclesNat DEF Init
  <1>4. line \in 0..(TotalLines - 1) /\ cyc < LineCycles
    BY BusAssumption DEF Init, BusInit
  <1>5. BusTypeOK
    <2>1. xfer \in [ch: 0..3, left: Nat]
      BY DEF Init, BusInit, NoTransfer
    <2>2. ie \in SUBSET IrqBits /\ if_ \in SUBSET IrqBits
      BY DEF Init, BusInit
    <2>3. ime \in BOOLEAN /\ halted \in BOOLEAN
      BY DEF Init, BusInit
    <2>4. /\ cyc \in Nat /\ frames \in Nat /\ cost \in Nat
          /\ stage \in {"step", "cpu", "dma", "tick", "lines"}
      BY DEF Init, BusInit
    <2> QED  BY <1>1, <1>2, <1>4, <2>1, <2>2, <2>3, <2>4 DEF BusTypeOK
  <1> QED  BY <1>1, <1>3, <1>4, <1>5
           DEF Init, BusInit, IInv, TypeOK, BeamAtRest, XferOK, StepOK

-----------------------------------------------------------------------------
(***************************************************************************)
(* One lemma per operation: it preserves the invariant.                    *)
(***************************************************************************)
LEMMA DmaTurnIInv == IInv /\ DmaTurn => IInv'
  <1> SUFFICES ASSUME IInv, DmaTurn PROVE IInv'
    OBVIOUS
  <1> USE DEF IInv, TypeOK, BusTypeOK
  <1>1. PICK ch \in Channels : DmaStart(ch)
    BY DEF DmaTurn
  <1>2. xfer' \in [ch: 0..3, left: Nat] /\ xfer'.ch \in Channels
    BY <1>1, DmaAssumption DEF DmaStart, DmaTypeOK, Channel
  <1>3. DmaTypeOK' /\ DmaActiveHasWork'
    BY <1>1 DEF DmaStart, DmaTypeOK, DmaActiveHasWork
  <1> QED  BY <1>1, <1>2, <1>3
           DEF DmaTurn, Running, DmaStart, video, control, host, BeamAtRest, XferOK, StepOK

LEMMA HaltTurnIInv == IInv /\ HaltTurn => IInv'
  BY BusAssumption
  DEF IInv, TypeOK, BusTypeOK, HaltTurn, Running, HaltCost, video, control, host,
      BeamAtRest, XferOK, StepOK, DmaTypeOK, DmaActiveHasWork

LEMMA CpuStepIInv ==
    ASSUME IInv, CpuStep, UNCHANGED <<host, elapsed>>, stage = "step"
    PROVE  IInv'
  BY GbaAssumption
  DEF IInv, TypeOK, BusTypeOK, CpuStep, IrqEntry, Execute, video, control, host,
      BeamAtRest, XferOK, StepOK, DmaTypeOK, DmaActiveHasWork

LEMMA DmaTransfersIInv == IInv /\ DmaTransfers => IInv'
  <1> SUFFICES ASSUME IInv, DmaTransfers PROVE IInv'
    OBVIOUS
  <1> USE DEF IInv, TypeOK, BusTypeOK
  <1>1. CASE DmaUnit
    <2>1. xfer' \in [ch: 0..3, left: Nat] /\ xfer'.ch = xfer.ch
      BY <1>1 DEF DmaUnit
    <2>2. CASE RegisterWrite
      <3>1. DmaTypeOK' /\ DmaActiveHasWork'
        BY <2>2, RegisterWriteOK DEF DmaOK
      <3> QED  BY <1>1, <2>1, <2>2, <3>1, RegisterWriteOK
               DEF DmaTransfers, DmaUnit, video, host, BeamAtRest, XferOK, StepOK
    <2>3. CASE UNCHANGED <<control, dispstat, dma>>
      BY <1>1, <2>1, <2>3
      DEF DmaTransfers, DmaUnit, video, control, host, BeamAtRest, XferOK, StepOK,
          DmaTypeOK, DmaActiveHasWork
    <2> QED  BY <1>1, <2>2, <2>3 DEF DmaUnit
  <1>2. CASE DmaEnd
    <2>1. xfer.ch \in Channels
      BY <1>2 DEF DmaEnd, XferOK
    <2>2. DmaTypeOK' /\ DmaActiveHasWork'
      BY <1>2, <2>1, CompleteOK DEF DmaEnd, DmaOK
    <2>3. if_' \in SUBSET IrqBits
      BY <1>2, <2>1 DEF DmaEnd, IrqBits
    <2> QED  BY <1>2, <2>2, <2>3
             DEF DmaTransfers, DmaEnd, NoTransfer, video, host, BeamAtRest, XferOK, StepOK
  <1> QED  BY <1>1, <1>2 DEF DmaTransfers

LEMMA CpuStoreIInv == IInv /\ CpuStore => IInv'
  <1> SUFFICES ASSUME IInv, CpuStore PROVE IInv'
    OBVIOUS
  <1>1. DmaTypeOK' /\ DmaActiveHasWork'
    BY RegisterWriteOK DEF CpuStore, DmaOK, IInv, TypeOK
  <1> QED  BY <1>1, RegisterWriteOK
           DEF IInv, TypeOK, BusTypeOK, CpuStore, video, host, BeamAtRest, XferOK, StepOK

LEMMA CpuEndIInv == IInv /\ CpuEnd => IInv'
  BY GbaAssumption
  DEF IInv, TypeOK, BusTypeOK, CpuEnd, video, control, host, BeamAtRest, XferOK, StepOK,
      DmaTypeOK, DmaActiveHasWork

LEMMA TickStartIInv ==
    ASSUME IInv, TickStart, UNCHANGED <<irqMask, host, elapsed>>
    PROVE  IInv'
  BY DEF IInv, TypeOK, BusTypeOK, TickStart, IrqBits, host, BeamAtRest, XferOK, StepOK,
         DmaTypeOK, DmaActiveHasWork

LEMMA AdvanceScanlineIInv ==
    ASSUME IInv, AdvanceScanline, UNCHANGED <<irqMask, host, elapsed>>
    PROVE  IInv'
  <1> USE DEF IInv, TypeOK, BusTypeOK
  <1>1. DmaTypeOK' /\ DmaActiveHasWork'
    BY TriggerOK DEF AdvanceScanline, DmaOK, DmaTypeOK, DmaActiveHasWork, Timings
  <1>2. line' \in 0..(TotalLines - 1) /\ cyc' \in Nat /\ frames' \in Nat
    BY BusAssumption DEF AdvanceScanline, NextLine, Overrun
  <1>3. dispstat' \in Dispstat
    <2>1. VBlankFlag(line') \in BOOLEAN /\ (line' = CompareLine(dispstat.lyc)) \in BOOLEAN
      BY DEF VBlankFlag
    <2> QED  BY <2>1 DEF AdvanceScanline, Dispstat
  <1>4. if_' \in SUBSET IrqBits
    BY DEF AdvanceScanline, IrqBits
  <1> QED  BY <1>1, <1>2, <1>3, <1>4
           DEF AdvanceScanline, host, BeamAtRest, XferOK, StepOK

LEMMA TurnEndsIInv == IInv /\ TurnEnds => IInv'
  <1> SUFFICES ASSUME IInv, TurnEnds PROVE IInv'
    OBVIOUS
  <1> USE DEF IInv, TypeOK, BusTypeOK
  <1>1. DmaTypeOK' /\ DmaActiveHasWork'
    BY TriggerOK DEF TurnEnds, TickEnd, DmaOK, DmaTypeOK, DmaActiveHasWork, Timings
  <1>2. dispstat' \in Dispstat
    <2>1. InHBlank \in BOOLEAN
      BY DEF InHBlank
    <2> QED  BY <2>1 DEF TurnEnds, TickEnd, Dispstat
  <1>3. if_' \in SUBSET IrqBits /\ halted' \in BOOLEAN
    BY DEF TurnEnds, TickEnd, IrqBits, SleepsOn
  <1> QED  BY <1>1, <1>2, <1>3
           DEF TurnEnds, TickEnd, video, host, BeamAtRest, XferOK, StepOK

LEMMA RunFrameIInv == IInv /\ RunFrame => IInv'
  <1> SUFFICES ASSUME IInv, RunFrame PROVE IInv'
    OBVIOUS
  <1>1. Beam \in 0..(FrameCycles - 1)
    BY BeamInFrame DEF Beam, IInv, TypeOK, BusTypeOK, BeamAtRest, RunFrame
  <1> QED  BY <1>1
           DEF IInv, TypeOK, BusTypeOK, RunFrame, control, BeamAtRest, XferOK, StepOK,
               DmaTypeOK, DmaActiveHasWork

LEMMA RunFrameReturnsIInv == IInv /\ RunFrameReturns => IInv'
  BY DEF IInv, TypeOK, BusTypeOK, RunFrameReturns, bus, BeamAtRest, XferOK, StepOK,
         DmaTypeOK, DmaActiveHasWork

LEMMA RestartIInv ==
    ASSUME IInv, NEW p \in {"idle", "boot"}, Restart(p)
    PROVE  IInv'
  <1>1. DmaTypeOK' /\ DmaActiveHasWork'
    BY IdleOKNext DEF Restart, BusReset, DmaReset, DmaOK
  <1>2. dispstat' \in Dispstat
    BY BusAssumption DEF Restart, BusReset, PowerOnDispstat, Dispstat
  <1>3. start' \in 0..(FrameCycles - 1)
    BY FrameCyclesNat DEF Restart
  <1>4. line' \in 0..(TotalLines - 1) /\ cyc' < LineCycles
    BY BusAssumption DEF Restart, BusReset
  <1> QED  BY <1>1, <1>2, <1>3, <1>4
           DEF IInv, TypeOK, BusTypeOK, Restart, BusReset, BeamAtRest, XferOK, StepOK

LEMMA BootEndsIInv == IInv /\ BootEnds => IInv'
  BY GbaAssumption
  DEF IInv, TypeOK, BusTypeOK, BootEnds, video, control, host, BeamAtRest, XferOK, StepOK,
      DmaTypeOK, DmaActiveHasWork

LEMMA NextIInv == IInv /\ [Next]_vars => IInv'
  <1> SUFFICES ASSUME IInv, [Next]_vars PROVE IInv'
    OBVIOUS
  <1>1. CASE DmaTurn \/ HaltTurn
    BY <1>1, DmaTurnIInv, HaltTurnIInv
  <1>2. CASE CpuTurn \/ BootTurn
    BY <1>2, CpuStepIInv DEF CpuTurn, BootTurn, Running
  <1>3. CASE DmaTransfers \/ CpuStore \/ CpuEnd
    BY <1>3, DmaTransfersIInv, CpuStoreIInv, CpuEndIInv
  <1>4. CASE Tick
    BY <1>4, TickStartIInv, AdvanceScanlineIInv DEF Tick
  <1>5. CASE TurnEnds \/ RunFrame \/ RunFrameReturns \/ BootEnds
    BY <1>5, TurnEndsIInv, RunFrameIInv, RunFrameReturnsIInv, BootEndsIInv
  <1>6. CASE EmuReset \/ EmuLoadRom
    BY <1>6, RestartIInv DEF EmuReset, EmuLoadRom
  <1>7. CASE UNCHANGED vars
    BY <1>7 DEF vars, bus, IInv, TypeOK, BusTypeOK, DmaTypeOK, DmaActiveHasWork,
                BeamAtRest, XferOK, StepOK
  <1> QED  BY <1>1, <1>2, <1>3, <1>4, <1>5, <1>6, <1>7 DEF Next, Machine

LEMMA Invariance == Spec => []IInv
  BY InitIInv, NextIInv, PTL DEF Spec

\* Every variable of the machine keeps its type.
THEOREM TypeCorrect == Spec => []TypeOK
  BY Invariance, PTL DEF IInv

\* run_dma never finds an active channel with nothing to move.
THEOREM DmaHasWork == Spec => []DmaActiveHasWork
  BY Invariance, PTL DEF IInv

-----------------------------------------------------------------------------
(***************************************************************************)
(* HALT.  Only the end of tick leads back to stage "step" with the CPU     *)
(* still halted, and it looks at every pending request.                    *)
(***************************************************************************)
LEMMA NextSafeHalt == IInv /\ SafeHalt /\ [Next]_vars => SafeHalt'
  <1> SUFFICES ASSUME IInv, SafeHalt, [Next]_vars PROVE SafeHalt'
    OBVIOUS
  <1> USE DEF SafeHalt
  <1>1. CASE DmaTurn \/ HaltTurn \/ DmaTransfers \/ CpuStore \/ CpuEnd \/ Tick
    BY <1>1 DEF DmaTurn, DmaStart, HaltTurn, DmaTransfers, DmaUnit, DmaEnd, CpuStore, CpuEnd,
                Tick, TickStart, AdvanceScanline
  <1>2. CASE CpuTurn \/ BootTurn
    BY <1>2 DEF CpuTurn, BootTurn, CpuStep, IrqEntry, Execute
  <1>3. CASE TurnEnds
    BY <1>3 DEF TurnEnds, TickEnd, SleepsOn
  <1>4. CASE RunFrame \/ RunFrameReturns \/ BootEnds
    BY <1>4 DEF RunFrame, RunFrameReturns, BootEnds, bus, control
  <1>5. CASE EmuReset \/ EmuLoadRom
    BY <1>5 DEF EmuReset, EmuLoadRom, Restart, BusReset
  <1>6. CASE UNCHANGED vars
    BY <1>6 DEF vars, bus
  <1> QED  BY <1>1, <1>2, <1>3, <1>4, <1>5, <1>6 DEF Next, Machine

\* No wake-up is lost: between two steps a halted CPU has nothing to wake for.
THEOREM HaltIsSafe == Spec => []SafeHalt
  <1>1. Init => SafeHalt
    BY DEF Init, BusInit, SafeHalt
  <1> QED  BY <1>1, Invariance, NextSafeHalt, PTL DEF Spec

-----------------------------------------------------------------------------
(***************************************************************************)
(* The status flags and the beam.  Outside tick the flags are right; inside *)
(* it the VBlank flag is, and the HBlank flag still tells whether the line *)
(* the step began on (or a later one) had reached its HBlank.              *)
(***************************************************************************)
FlagInv ==
    /\ dispstat.vblank <=> line >= VisibleLines
    /\ stage # "lines" => (dispstat.hblank <=> cyc >= HBlankStart)
    /\ stage = "lines" => /\ cyc < LineCycles + cost
                          /\ ~dispstat.hblank => cyc < HBlankStart + cost

LEMMA InitFlagInv == Init => FlagInv
  BY BusAssumption DEF Init, BusInit, PowerOnDispstat, FlagInv

LEMMA NextFlagInv == IInv /\ FlagInv /\ [Next]_vars => FlagInv'
  <1> SUFFICES ASSUME IInv, FlagInv, [Next]_vars PROVE FlagInv'
    OBVIOUS
  <1> USE DEF FlagInv, IInv, TypeOK, BusTypeOK
  <1>1. CASE DmaTurn \/ HaltTurn \/ CpuEnd
    BY <1>1 DEF DmaTurn, DmaStart, HaltTurn, Running, CpuEnd, video
  <1>2. CASE CpuTurn \/ BootTurn
    BY <1>2 DEF CpuTurn, BootTurn, Running, CpuStep, IrqEntry, Execute, video
  <1>3. CASE CpuStore
    BY <1>3, RegisterWriteOK DEF CpuStore, video
  <1>4. CASE DmaTransfers
    BY <1>4, RegisterWriteOK DEF DmaTransfers, DmaUnit, DmaEnd, video
  <1>5. CASE Tick
    <2>1. CASE TickStart
      BY <2>1, BusAssumption DEF TickStart, BeamAtRest
    <2>2. CASE AdvanceScanline
      <3>1. line' \in Int /\ line' = NextLine /\ cyc' = cyc - LineCycles
        BY <2>2, BusAssumption DEF AdvanceScanline, NextLine, Overrun
      <3>2. /\ dispstat'.vblank = VBlankFlag(line')
            /\ dispstat'.hblank = FALSE
        BY <2>2 DEF AdvanceScanline, Dispstat
      <3>3. VBlankFlag(line') <=> line' >= VisibleLines
        BY <3>1, BusAssumption DEF VBlankFlag, NextLine
      <3> QED  BY <2>2, <3>1, <3>2, <3>3, BusAssumption DEF AdvanceScanline
    <2> QED  BY <1>5, <2>1, <2>2 DEF Tick
  <1>6. CASE TurnEnds
    BY <1>6 DEF TurnEnds, TickEnd, InHBlank, video, Dispstat
  <1>7. CASE RunFrame \/ RunFrameReturns \/ BootEnds
    BY <1>7 DEF RunFrame, RunFrameReturns, BootEnds, bus, video
  <1>8. CASE EmuReset \/ EmuLoadRom
    BY <1>8, BusAssumption DEF EmuReset, EmuLoadRom, Restart, BusReset, PowerOnDispstat
  <1>9. CASE UNCHANGED vars
    BY <1>9 DEF vars, bus
  <1> QED  BY <1>1, <1>2, <1>3, <1>4, <1>5, <1>6, <1>7, <1>8, <1>9 DEF Next, Machine

\* Between two steps the VBlank and HBlank flags are those of the beam's
\* position, whatever number of lines the steps before it spanned.
THEOREM FlagsAreRight == Spec => []FlagsFollowBeam
  <1>1. FlagInv => FlagsFollowBeam
    BY DEF FlagInv, FlagsFollowBeam
  <1> QED  BY <1>1, InitFlagInv, Invariance, NextFlagInv, PTL DEF Spec

\* Only a step longer than the HBlank period can pass over an HBlank.
THEOREM HBlankSkips == Spec => []HBlankSkippedOnlyByLongStep
  <1>1. IInv /\ FlagInv => HBlankSkippedOnlyByLongStep
    BY BusAssumption DEF IInv, TypeOK, BusTypeOK, FlagInv, HBlankSkippedOnlyByLongStep
  <1> QED  BY <1>1, InitFlagInv, Invariance, NextFlagInv, PTL DEF Spec

\* VCount interrupts come from the lower lines only: a setting with its top bit
\* on names a line beyond the frame.
THEOREM VCountLines == Spec => VCountOnlyBelowHighBit
  <1>1. IInv /\ [Next]_vars => [(VCount \in if_' \ if_) => line' < HighBit]_vars
    <2>1. SUFFICES ASSUME IInv, [Next]_vars, VCount \in if_' \ if_
                   PROVE  line' < HighBit
      OBVIOUS
    <2> USE <2>1 DEF IInv, TypeOK, BusTypeOK
    <2>2. CASE RegisterWrite
      BY <2>2 DEF RegisterWrite, WriteIe, WriteIf, WriteIfByte, WriteIeIf, WriteIme,
                  WriteHaltcnt, WriteDispstat, WriteDma, control
    <2>3. CASE AdvanceScanline
      <3>1. dispstat'.vcount
        BY <2>3 DEF AdvanceScanline, VBlank, VCount
      <3>2. line' = CompareLine(dispstat.lyc)
        <4> DEFINE hit == line' = CompareLine(dispstat.lyc)
        <4>1. dispstat'.vcount = hit
          BY <2>3 DEF AdvanceScanline, Dispstat
        <4> QED  BY <3>1, <4>1
      <3>3. line' \in 0..(TotalLines - 1)
        BY <2>3, BusAssumption DEF AdvanceScanline, NextLine
      <3> QED  BY <3>2, <3>3, BusAssumption DEF CompareLine, Dispstat
    <2>4. CASE TickStart \/ TickEnd \/ DmaEnd
      BY <2>4, BusAssumption, DmaAssumption
      DEF TickStart, TickEnd, DmaEnd, XferOK, VCount, HBlank, DmaBit
    <2>5. CASE UNCHANGED if_ \/ if_' = {}
      BY <2>5
    <2> QED  BY <2>2, <2>3, <2>4, <2>5
             DEF Next, Machine, DmaTurn, DmaStart, HaltTurn, CpuTurn, BootTurn, CpuStep,
                 IrqEntry, Execute, DmaTransfers, DmaUnit, CpuStore, CpuEnd, Tick, TurnEnds,
                 RunFrame, RunFrameReturns, EmuReset, EmuLoadRom, Restart, BusReset, BootEnds,
                 bus, vars, control
  <1> QED  BY <1>1, Invariance, PTL DEF Spec, VCountOnlyBelowHighBit

-----------------------------------------------------------------------------
(***************************************************************************)
(* Time.  The cycles charged to the call and the beam's travel agree.      *)
(***************************************************************************)
LEMMA AdvanceKeepsTime ==
    ASSUME IInv, TimeKept, AdvanceScanline, UNCHANGED <<irqMask, host, elapsed>>
    PROVE  TimeKept'
  <1> DEFINE F == FrameCycles
  <1>1. /\ LineCycles \in Nat \ {0} /\ TotalLines \in Nat \ {0} /\ F \in Nat
        /\ line \in Nat /\ cyc \in Nat /\ frames \in Nat /\ line <= TotalLines - 1
    BY BusAssumption, FrameCyclesNat DEF IInv, TypeOK, BusTypeOK
  <1>2. F = (TotalLines - 1) * LineCycles + LineCycles
    BY <1>1 DEF FrameCycles
  <1>3. (line + 1) * LineCycles = line * LineCycles + LineCycles
    BY <1>1
  <1>4. (frames + 1) * F = frames * F + F
    BY <1>1
  <1>5. /\ start' = start /\ elapsed' = elapsed /\ cost' = cost
        /\ stage = "lines" /\ stage' = "lines" /\ cyc' = cyc - LineCycles
    BY DEF AdvanceScanline, Overrun, host
  <1>6. frames' * F + (line' * LineCycles + cyc')
            = frames * F + (line * LineCycles + cyc)
    <2>1. CASE line + 1 >= TotalLines
      <3>1. line = TotalLines - 1 /\ line' = 0 /\ frames' = frames + 1
        BY <2>1, <1>1 DEF AdvanceScanline, NextLine
      <3>2. line' * LineCycles = 0
        BY <3>1, <1>1
      <3>3. frames' * F = frames * F + F
        BY <3>1, <1>4
      <3>4. F = line * LineCycles + LineCycles
        BY <3>1, <1>2
      <3>5. line * LineCycles \in Nat /\ frames * F \in Nat
        BY <1>1
      <3> HIDE DEF F
      <3> QED  BY <3>2, <3>3, <3>4, <3>5, <1>1, <1>5
    <2>2. CASE line + 1 < TotalLines
      <3>1. line' = line + 1 /\ frames' = frames
        BY <2>2, <1>1 DEF AdvanceScanline, NextLine
      <3>2. line' * LineCycles = line * LineCycles + LineCycles
        BY <3>1, <1>3
      <3>3. line * LineCycles \in Nat /\ frames * F \in Nat
        BY <1>1
      <3> HIDE DEF F
      <3> QED  BY <3>1, <3>2, <3>3, <1>1, <1>5
    <2> QED  BY <1>1, <2>1, <2>2
  <1> QED  BY <1>5, <1>6 DEF TimeKept, Beam, FrameCycles

LEMMA InitTimeKept == Init => TimeKept
  <1>1. 0 * FrameCycles = 0 /\ 0 * LineCycles = 0
    BY FrameCyclesNat, BusAssumption
  <1> QED  BY <1>1 DEF Init, BusInit, TimeKept, Beam

LEMMA NextTimeKept == IInv /\ TimeKept /\ [Next]_vars => TimeKept'
  <1> SUFFICES ASSUME IInv, TimeKept, [Next]_vars PROVE TimeKept'
    OBVIOUS
  <1>0. /\ elapsed \in Nat /\ cost \in Nat /\ cyc \in Nat /\ start \in Nat
        /\ frames * FrameCycles \in Nat /\ line * LineCycles \in Nat
    BY FrameCyclesNat, BusAssumption DEF IInv, TypeOK, BusTypeOK
  <1>1. CASE DmaTurn \/ HaltTurn \/ CpuEnd \/ DmaTransfers
    BY <1>1, <1>0
    DEF TimeKept, Beam, DmaTurn, DmaStart, HaltTurn, Running, CpuEnd, DmaTransfers, DmaUnit,
        DmaEnd, video, host
  <1>2. CASE CpuTurn \/ BootTurn \/ CpuStore
    BY <1>2, <1>0
    DEF TimeKept, Beam, CpuTurn, BootTurn, Running, CpuStep, IrqEntry, Execute, CpuStore,
        video, host
  <1>3. CASE Tick
    <2>1. CASE TickStart
      BY <2>1, <1>0, <1>3 DEF TimeKept, Beam, Tick, TickStart, host, AdvanceScanline
    <2>2. CASE AdvanceScanline
      BY <2>2, <1>3, AdvanceKeepsTime DEF Tick
    <2> QED  BY <1>3, <2>1, <2>2 DEF Tick
  <1>4. CASE TurnEnds
    BY <1>4, <1>0 DEF TimeKept, Beam, TurnEnds, TickEnd, video, host
  <1>5. CASE RunFrame
    <2>1. 0 * FrameCycles = 0
      BY FrameCyclesNat
    <2> QED  BY <1>5, <1>0, <2>1 DEF TimeKept, Beam, RunFrame
  <1>6. CASE RunFrameReturns \/ BootEnds
    BY <1>6, <1>0 DEF TimeKept, Beam, RunFrameReturns, BootEnds, bus, video
  <1>7. CASE EmuReset \/ EmuLoadRom
    <2>1. 0 * FrameCycles = 0 /\ 0 * LineCycles = 0
      BY FrameCyclesNat, BusAssumption
    <2> QED  BY <1>7, <2>1 DEF TimeKept, Beam, EmuReset, EmuLoadRom, Restart, BusReset
  <1>8. CASE UNCHANGED vars
    BY <1>8 DEF TimeKept, Beam, vars, bus
  <1> QED  BY <1>1, <1>2, <1>3, <1>4, <1>5, <1>6, <1>7, <1>8 DEF Next, Machine

\* No cycle is lost between run_frame and the beam.
THEOREM TimeIsKept == Spec => []TimeKept
  BY InitTimeKept, Invariance, NextTimeKept, PTL DEF Spec

-----------------------------------------------------------------------------
(***************************************************************************)
(* No step outlasts a frame, so that run_frame overshoots by less than one *)
(* and the beam has crossed the end of a frame once or twice.              *)
(***************************************************************************)
ShortTransfers == \A ch \in Channels : 2 * dma[ch].icount <= FrameCycles

CallInv ==
    /\ ShortTransfers
    /\ stage = "dma" => cost + 2 * xfer.left <= FrameCycles
    /\ stage \in {"tick", "lines"} /\ phase = "frame" => cost <= FrameCycles
    /\ stage # "step" /\ phase = "frame" => elapsed < FrameCycles
    /\ phase = "frame" => elapsed < 2 * FrameCycles

LEMMA FullCountShort ==
    ASSUME NEW ch \in Channels, NEW count \in Counts \cup {0}
    PROVE  2 * FullCount(ch, count) <= FrameCycles
  BY CostAssumption, FrameCyclesNat DEF FullCount

\* A channel's new count is its old one, a full count, or zero.
LEMMA NewCounts ==
    ASSUME NEW ch \in Channels, NEW chan \in Channel, NEW cnt \in Control,
           NEW event \in Timings, 2 * chan.icount <= FrameCycles
    PROVE  /\ 2 * Enabled(ch, chan, cnt).icount <= FrameCycles
           /\ 2 * Triggered(ch, chan, event).icount <= FrameCycles
           /\ 2 * Completed(ch, chan).icount <= FrameCycles
  <1> DEFINE n == FullCount(ch, chan.count)
  <1>1. 2 * n <= FrameCycles /\ n \in Nat
    BY FullCountShort, FullCountPositive DEF Channel
  <1>2. /\ Enabled(ch, chan, cnt).icount \in {chan.icount, n}
        /\ Triggered(ch, chan, event).icount \in {chan.icount, n}
        /\ Completed(ch, chan).icount \in {0, n}
    BY DEF Enabled, Triggered, Completed, Channel
  <1> HIDE DEF n
  <1> QED  BY <1>1, <1>2, FrameCyclesNat

LEMMA TriggerShort ==
    ASSUME DmaTypeOK, ShortTransfers, NEW event \in Timings, Trigger(event)
    PROVE  ShortTransfers'
  <1>1. \A ch \in Channels : 2 * Triggered(ch, dma[ch], event).icount <= FrameCycles
    <2>1. SUFFICES ASSUME NEW ch \in Channels
                   PROVE  2 * Triggered(ch, dma[ch], event).icount <= FrameCycles
      OBVIOUS
    <2>2. dma[ch].cnt \in Control
      BY DEF DmaTypeOK, Channel
    <2> QED  BY <2>2, NewCounts DEF ShortTransfers, DmaTypeOK
  <1>2. FrameCycles' = FrameCycles
    BY DEF FrameCycles
  <1> QED  BY <1>1, <1>2 DEF ShortTransfers, Trigger

LEMMA CompleteShort ==
    ASSUME DmaTypeOK, ShortTransfers, NEW ch \in Channels, Complete(ch)
    PROVE  ShortTransfers'
  <1>1. dma[ch].cnt \in Control
    BY DEF DmaTypeOK, Channel
  <1>2. 2 * Completed(ch, dma[ch]).icount <= FrameCycles
    BY <1>1, NewCounts DEF ShortTransfers, DmaTypeOK, Timings
  <1>3. FrameCycles' = FrameCycles
    BY DEF FrameCycles
  <1> QED  BY <1>2, <1>3 DEF ShortTransfers, Complete, DmaTypeOK

LEMMA RegisterWriteShort ==
    ASSUME DmaTypeOK, ShortTransfers, RegisterWrite
    PROVE  ShortTransfers'
  <1>0. FrameCycles' = FrameCycles
    BY DEF FrameCycles
  <1>1. CASE UNCHANGED dma
    BY <1>0, <1>1 DEF ShortTransfers
  <1>2. CASE WriteDma
    <2>1. PICK ch \in Channels :
            \/ \E count \in Counts : WriteCount(ch, count)
            \/ \E cnt \in ControlValues : WriteControl(ch, cnt)
            \/ \E count \in Counts, cnt \in ControlValues : WriteWord(ch, count, cnt)
      BY <1>2 DEF WriteDma
    <2>2. CASE \E count \in Counts : WriteCount(ch, count)
      <3>1. \A c \in Channels : dma'[c].icount = dma[c].icount
        BY <2>2 DEF WriteCount, DmaTypeOK, Channel
      <3> QED  BY <1>0, <3>1 DEF ShortTransfers
    <2>3. CASE \E cnt \in ControlValues : WriteControl(ch, cnt)
      <3>1. PICK cnt \in Control : WriteControl(ch, cnt)
        BY <2>3, BusAssumption
      <3>2. 2 * Enabled(ch, dma[ch], cnt).icount <= FrameCycles
        BY NewCounts DEF ShortTransfers, DmaTypeOK, Timings
      <3> QED  BY <1>0, <3>1, <3>2 DEF ShortTransfers, WriteControl, DmaTypeOK
    <2>4. CASE \E count \in Counts, cnt \in ControlValues : WriteWord(ch, count, cnt)
      <3>1. PICK count \in Counts, cnt \in Control : WriteWord(ch, count, cnt)
        BY <2>4, BusAssumption
      <3> DEFINE chan == [dma[ch] EXCEPT !.count = count]
      <3>2. chan \in Channel /\ 2 * chan.icount <= FrameCycles
        BY DEF ShortTransfers, DmaTypeOK, Channel
      <3>3. dma' = [dma EXCEPT ![ch] = Enabled(ch, chan, cnt)]
        BY <3>1 DEF WriteWord, DmaTypeOK
      <3> HIDE DEF chan
      <3>4. 2 * Enabled(ch, chan, cnt).icount <= FrameCycles
        BY <3>2, NewCounts DEF Timings
      <3> QED  BY <1>0, <3>3, <3>4 DEF ShortTransfers, DmaTypeOK
    <2> QED  BY <2>1, <2>2, <2>3, <2>4
  <1> QED  BY <1>1, <1>2
           DEF RegisterWrite, WriteIe, WriteIf, WriteIfByte, WriteIeIf, WriteIme,
               WriteHaltcnt, WriteDispstat

LEMMA LineInFrame == LineCycles <= FrameCycles
  <1>1. TotalLines \in Nat \ {0} /\ LineCycles \in Nat
    BY BusAssumption
  <1>2. (TotalLines - 1) * LineCycles >= 0
    BY <1>1
  <1>3. FrameCycles = (TotalLines - 1) * LineCycles + LineCycles
    BY <1>1 DEF FrameCycles
  <1> QED  BY <1>1, <1>2, <1>3, FrameCyclesNat

LEMMA IdleShort == dma' = Idle => ShortTransfers'
  <1>1. FrameCycles' = FrameCycles
    BY DEF FrameCycles
  <1> QED  BY <1>1, FrameCyclesNat DEF ShortTransfers, Idle

LEMMA InitCallInv == Init => CallInv
  BY FrameCyclesNat DEF Init, BusInit, DmaInit, Idle, CallInv, ShortTransfers

LEMMA NextCallInv == IInv /\ CallInv /\ [Next]_vars => CallInv'
  <1> SUFFICES ASSUME IInv, CallInv, [Next]_vars PROVE CallInv'
    OBVIOUS
  <1> USE FrameCyclesNat DEF IInv, TypeOK, BusTypeOK
  <1>0. FrameCycles' = FrameCycles
    BY DEF FrameCycles
  <1>1. UNCHANGED dma => ShortTransfers'
    BY <1>0 DEF CallInv, ShortTransfers
  <1>2. CASE DmaTurn
    <2>1. PICK ch \in Channels : DmaStart(ch)
      BY <1>2 DEF DmaTurn
    <2>2. 2 * dma[ch].icount <= FrameCycles /\ dma[ch].icount \in Nat
      BY DEF CallInv, ShortTransfers, DmaTypeOK, Channel
    <2> QED  BY <1>0, <1>1, <1>2, <2>1, <2>2
             DEF CallInv, DmaTurn, Running, DmaStart, host
  <1>3. CASE HaltTurn
    <2>1. HaltCost <= FrameCycles
      BY LineInFrame, BusAssumption DEF HaltCost
    <2> QED  BY <1>0, <1>1, <1>3, <2>1 DEF CallInv, HaltTurn, Running, host
  <1>4. CASE CpuTurn \/ BootTurn
    BY <1>0, <1>1, <1>4, CostAssumption
    DEF CallInv, CpuTurn, BootTurn, Running, CpuStep, IrqEntry, Execute, host
  <1>5. CASE DmaTransfers
    <2>1. CASE DmaUnit
      <3>1. ShortTransfers'
        BY <1>1, <2>1, RegisterWriteShort DEF DmaUnit, CallInv
      <3>2. xfer'.left = xfer.left - 1 /\ xfer.left \in Nat
        BY <2>1 DEF DmaUnit
      <3> QED  BY <1>0, <1>5, <2>1, <3>1, <3>2 DEF CallInv, DmaTransfers, DmaUnit, host
    <2>2. CASE DmaEnd
      <3>1. ShortTransfers'
        BY <2>2, CompleteShort DEF DmaEnd, CallInv, XferOK
      <3> QED  BY <1>0, <1>5, <2>2, <3>1 DEF CallInv, DmaTransfers, DmaEnd, host
    <2> QED  BY <1>5, <2>1, <2>2 DEF DmaTransfers
  <1>6. CASE CpuStore
    <2>1. ShortTransfers'
      BY <1>6, RegisterWriteShort DEF CpuStore, CallInv
    <2> QED  BY <1>0, <1>6, <2>1 DEF CallInv, CpuStore, host
  <1>7. CASE CpuEnd
    BY <1>0, <1>1, <1>7, CostAssumption DEF CallInv, CpuEnd, host
  <1>8. CASE Tick
    <2>1. ShortTransfers'
      BY <1>1, <1>8, TriggerShort DEF Tick, TickStart, AdvanceScanline, CallInv, Timings
    <2> QED  BY <1>0, <1>8, <2>1 DEF CallInv, Tick, TickStart, AdvanceScanline, host
  <1>9. CASE TurnEnds
    <2>1. ShortTransfers'
      BY <1>1, <1>9, TriggerShort DEF TurnEnds, TickEnd, CallInv, Timings
    <2> QED  BY <1>0, <1>9, <2>1 DEF CallInv, TurnEnds, TickEnd, host
  <1>10. CASE RunFrame \/ RunFrameReturns \/ BootEnds
    BY <1>0, <1>1, <1>10 DEF CallInv, RunFrame, RunFrameReturns, BootEnds, bus
  <1>11. CASE EmuReset \/ EmuLoadRom
    BY <1>0, <1>11, IdleShort
    DEF CallInv, EmuReset, EmuLoadRom, Restart, BusReset, DmaReset
  <1>12. CASE UNCHANGED vars
    BY <1>0, <1>1, <1>12 DEF CallInv, vars, bus
  <1> QED  BY <1>2, <1>3, <1>4, <1>5, <1>6, <1>7, <1>8, <1>9, <1>10, <1>11, <1>12
           DEF Next, Machine

\* Between one and three frame lengths lie one or two ends of frames.
LEMMA OneOrTwo ==
    ASSUME NEW f \in Nat, NEW n \in Nat \ {0}, NEW b \in 0..(n - 1),
           NEW t \in Nat, t = f * n + b, t >= n, t < 3 * n
    PROVE  f \in 1..2
  <1>1. f # 0
    <2>1. SUFFICES ASSUME f = 0 PROVE FALSE
      OBVIOUS
    <2>2. f * n = 0
      BY <2>1
    <2> QED  BY <2>2
  <1>2. f < 3
    <2>1. SUFFICES ASSUME f >= 3 PROVE FALSE
      OBVIOUS
    <2>2. f * n >= 3 * n
      BY <2>1
    <2> QED  BY <2>2
  <1> QED  BY <1>1, <1>2

\* A call of emu_run_frame returns after the beam has crossed the end of a frame
\* once or twice.
THEOREM CallsDrawFrames == Spec => []CallDrawsAFrame
  <1>1. IInv /\ TimeKept /\ CallInv => CallDrawsAFrame
    <2>1. SUFFICES ASSUME IInv, TimeKept, CallInv,
                          phase = "frame", stage = "step", elapsed >= FrameCycles
                   PROVE  frames \in 1..2
      BY DEF CallDrawsAFrame
    <2> USE <2>1 DEF IInv, TypeOK, BusTypeOK
    <2>2. Beam \in 0..(FrameCycles - 1)
      BY BeamInFrame DEF Beam, BeamAtRest
    <2>3. start + elapsed = frames * FrameCycles + Beam
      BY DEF TimeKept
    <2>4. start + elapsed \in Nat /\ start + elapsed < 3 * FrameCycles
            /\ start + elapsed >= FrameCycles
      BY FrameCyclesNat DEF CallInv
    <2> QED  BY <2>2, <2>3, <2>4, OneOrTwo, FrameCyclesNat
  <1> QED  BY <1>1, InitCallInv, InitTimeKept, Invariance, NextCallInv, NextTimeKept, PTL
           DEF Spec
===============================================================================
