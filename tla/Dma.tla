--------------------------------- MODULE Dma ---------------------------------
(***************************************************************************)
(* The DMA controller (dma.rs): four channels, each with the registers the *)
(* guest programs, a working count latched from them, and an `active` flag *)
(* that says a transfer is due.  Source and destination addresses are      *)
(* abstracted away: which bytes move does not matter here, only when, how  *)
(* many units, and with which effect on the channel.                       *)
(***************************************************************************)
EXTENDS Integers

CONSTANTS
    Channels,   \* the channels in use, a subset of the code's 0..3
    Counts,     \* the values guests write to the word count register
    ShortMax,   \* units moved for a count of 0 on channels 0-2 (0x4000)
    LongMax     \* units moved for a count of 0 on channel 3 (0x10000)

ASSUME DmaAssumption ==
    /\ Channels \subseteq 0..3
    /\ Counts \subseteq Nat
    /\ ShortMax \in Nat \ {0}
    /\ LongMax \in Nat \ {0}

VARIABLE dma        \* DmaController.channels

Timings == {"immediate", "vblank", "hblank", "special"}

\* The bits of the control register that decide when a channel runs.
Control == [enable: BOOLEAN, repeat: BOOLEAN, irq: BOOLEAN, timing: Timings]

Channel == [cnt: Control, count: Counts \cup {0}, icount: Nat, active: BOOLEAN]

DmaTypeOK == dma \in [Channels -> Channel]

\* DmaController::new(), at power on and inside Bus::reset.
Idle ==
    [ch \in Channels |->
       [cnt |-> [enable |-> FALSE, repeat |-> FALSE, irq |-> FALSE,
                 timing |-> "immediate"],
        count |-> 0, icount |-> 0, active |-> FALSE]]

DmaInit  == dma = Idle
DmaReset == dma' = Idle

AnyActive == \E ch \in Channels : dma[ch].active

\* The channel run_dma serves: the lowest numbered active one.
IsNext(ch) ==
    /\ dma[ch].active
    /\ \A other \in Channels : other < ch => ~dma[other].active

\* Mutant of FullCount: a count of 0 means no units.
PlainCount(ch, count) == count

\* A programmed count of 0 means the maximum.
FullCount(ch, count) ==
    IF count # 0 THEN count ELSE IF ch = 3 THEN LongMax ELSE ShortMax

(***************************************************************************)
(* Register writes.  Any write of the control register that leaves the     *)
(* enable bit set latches the count again and, for immediate timing, makes *)
(* the channel due; clearing the enable bit does not cancel a due transfer.*)
(***************************************************************************)
WriteCount(ch, count) == dma' = [dma EXCEPT ![ch].count = count]

Enabled(ch, chan, cnt) ==
    IF cnt.enable
    THEN [chan EXCEPT !.cnt = cnt,
                      !.icount = FullCount(ch, chan.count),
                      !.active = @ \/ cnt.timing = "immediate"]
    ELSE [chan EXCEPT !.cnt = cnt]

WriteControl(ch, cnt) ==
    dma' = [dma EXCEPT ![ch] = Enabled(ch, dma[ch], cnt)]

\* A word write reaches both registers, the count first.
WriteWord(ch, count, cnt) ==
    dma' = [dma EXCEPT ![ch] = Enabled(ch, [@ EXCEPT !.count = count], cnt)]

\* DmaController::trigger: the channels waiting for `event` become due.
Triggered(ch, chan, event) ==
    IF chan.cnt.enable /\ chan.cnt.timing = event
    THEN [chan EXCEPT !.active = TRUE,
                      !.icount = IF @ = 0 THEN FullCount(ch, chan.count) ELSE @]
    ELSE chan

Trigger(event) ==
    dma' = [ch \in Channels |-> Triggered(ch, dma[ch], event)]

(***************************************************************************)
(* The end of a transfer.  The control and count registers are read again  *)
(* here, after the transfer, which may have overwritten them.              *)
(***************************************************************************)
Repeats(chan) == chan.cnt.repeat /\ chan.cnt.timing # "immediate"

\* Mutant of Completed: the transfer stays due.
StillDue(ch, chan) ==
    [chan EXCEPT !.icount = FullCount(ch, chan.count),
                 !.cnt.enable = @ /\ Repeats(chan)]

Completed(ch, chan) ==
    [chan EXCEPT !.active = FALSE,
                 !.icount = IF Repeats(chan) THEN FullCount(ch, chan.count) ELSE 0,
                 !.cnt.enable = @ /\ Repeats(chan)]

Complete(ch) == dma' = [dma EXCEPT ![ch] = Completed(ch, dma[ch])]

\* run_dma never finds an active channel with nothing to move, whatever the
\* order of count and control writes, triggers and completions: its transfer
\* loop runs at least once and its cost is that of the units moved.
DmaActiveHasWork == \A ch \in Channels : dma[ch].active => dma[ch].icount > 0
==============================================================================
