-------------------------------- MODULE Psg --------------------------------
(***************************************************************************)
(* The tone, wave and noise channels (apu.rs): their registers, the        *)
(* triggers, and the frame sequencer that clocks length counters,          *)
(* envelopes and the sweep of channel 1.  What a channel sounds like (duty,*)
(* wave table, noise, panning) is data and left out; so are the frequency  *)
(* counters, which nothing reads.                                          *)
(***************************************************************************)
EXTENDS Integers

CONSTANTS
    Channels,       \* the channels in use, of 1..4
    Longest,        \* length counter of each for a length of 0 (64, of 3: 256)
    MaxVolume,      \* 15
    MaxPace,        \* 7
    MaxFreq,        \* 2047
    TicksPerStep,   \* samples per step of the frame sequencer (64)
    Lengths,        \* what guests write: length bits,
    Envelopes,      \*   envelopes,
    Freqs,          \*   frequencies,
    Sweeps,         \*   sweeps
    AgeBound        \* the history below follows an envelope this long

Envelope == [start: 0..MaxVolume, up: BOOLEAN, pace: 0..MaxPace]

\* The shift as the number it divides by: 1 stands for a shift of 0.
Sweep == [pace: 0..MaxPace, down: BOOLEAN, divisor: Nat \ {0}]

NoEnvelope == [start |-> 0, up |-> FALSE, pace |-> 0]
NoSweep    == [pace |-> 0, down |-> FALSE, divisor |-> 1]

ASSUME PsgAssumption ==
    /\ Channels \subseteq 1..4
    /\ Longest \in [Channels -> Nat \ {0}]
    /\ MaxVolume \in Nat /\ MaxPace \in Nat /\ MaxFreq \in Nat
    /\ TicksPerStep \in Nat \ {0}
    /\ 0 \in Lengths /\ \A c \in Channels : Lengths \subseteq 0..(Longest[c] - 1)
    /\ Envelopes \subseteq Envelope
    /\ Freqs \subseteq 0..MaxFreq
    /\ Sweeps \subseteq Sweep
    /\ AgeBound \in Nat

VARIABLES
    enabled,    \* Apu.enabled, SOUNDCNT_X bit 7
    ticks,      \* frame_seq_counter
    step,       \* frame_seq_step
    regs,       \* length and control registers of each channel
    chan,       \* on, length counter, volume and envelope timer of each
    freq,       \* ch1_freq, the frequency bits
    sweep,      \* ch1_sweep
    sweeper,    \* ch1_sweep_enabled, ch1_sweep_timer, ch1_shadow_freq
    steady,     \* history: the channels with the envelope they were triggered with
    age         \* history: the envelope clocks each has heard since its trigger

sweepVars == <<freq, sweep, sweeper>>
seqVars   == <<ticks, step>>
history   == <<steady, age>>
psgVars   == <<enabled, ticks, step, regs, chan, freq, sweep, sweeper, steady, age>>

\* The wave channel has no envelope.
Enveloped == Channels \ {3}

\* timed, trigger: bits 14 and 15 of the control register.
Registers == [len: Lengths, env: Envelopes \cup {NoEnvelope}, timed: BOOLEAN, trigger: BOOLEAN]

Channel(c) == [on: BOOLEAN, left: 0..Longest[c], volume: 0..MaxVolume, envTimer: 0..MaxPace]

PsgTypeOK ==
    /\ enabled \in BOOLEAN
    /\ ticks \in 0..(TicksPerStep - 1) /\ step \in 0..7
    /\ regs \in [Channels -> Registers]
    /\ DOMAIN chan = Channels /\ \A c \in Channels : chan[c] \in Channel(c)
    /\ freq \in 0..MaxFreq
    /\ sweep \in Sweeps \cup {NoSweep}
    /\ sweeper \in [on: BOOLEAN, timer: 0..(MaxPace + 1), shadow: 0..MaxFreq]
    /\ steady \subseteq Enveloped
    /\ age \in [Channels -> 0..AgeBound]

PsgInit ==
    /\ enabled = FALSE
    /\ ticks = 0 /\ step = 0
    /\ regs = [c \in Channels |->
                 [len |-> 0, env |-> NoEnvelope, timed |-> FALSE, trigger |-> FALSE]]
    /\ chan = [c \in Channels |-> [on |-> FALSE, left |-> 0, volume |-> 0, envTimer |-> 0]]
    /\ freq = 0 /\ sweep = NoSweep
    /\ sweeper = [on |-> FALSE, timer |-> 0, shadow |-> 0]
    /\ steady = {} /\ age = [c \in Channels |-> 0]

\* emu_reset and emu_load_rom: Bus::reset makes a new Apu.
PsgReset ==
    /\ enabled' = FALSE
    /\ ticks' = 0 /\ step' = 0
    /\ regs' = [c \in Channels |->
                  [len |-> 0, env |-> NoEnvelope, timed |-> FALSE, trigger |-> FALSE]]
    /\ chan' = [c \in Channels |-> [on |-> FALSE, left |-> 0, volume |-> 0, envTimer |-> 0]]
    /\ freq' = 0 /\ sweep' = NoSweep
    /\ sweeper' = [on |-> FALSE, timer |-> 0, shadow |-> 0]
    /\ steady' = {} /\ age' = [c \in Channels |-> 0]

-----------------------------------------------------------------------------
(***************************************************************************)
(* Register writes.  A byte write reads the register, replaces half of it  *)
(* and writes it back (Bus::io_write8); what read_reg leaves out is lost.  *)
(***************************************************************************)
SetLength(c, len, env) ==
    /\ regs' = [regs EXCEPT ![c].len = len,
                            ![c].env = IF c \in Enveloped THEN env ELSE NoEnvelope]
    /\ steady' = steady \ {c}
    /\ UNCHANGED <<enabled, seqVars, chan, sweepVars, age>>

WriteLength(c, len, env) == SetLength(c, len, env)

\* No envelope can be read, so that a write of the length erases it.
WriteLengthByte(c, len) == SetLength(c, len, NoEnvelope)

\* The length bits of channels 1 and 2 read as 0, those of channel 3 as its
\* volume register, which is any length here; channel 4 keeps them.
WriteEnvelopeByte(c, env) ==
    \E len \in IF c = 4 THEN {regs[c].len} ELSE IF c = 3 THEN Lengths ELSE {0} :
      SetLength(c, len, env)

\* trigger_ch1, ..., trigger_ch4.
Trigger(c, f) ==
    LET env == regs[c].env
    IN  /\ chan' = [chan EXCEPT ![c] =
             [on |-> TRUE, left |-> Longest[c] - regs[c].len,
              volume   |-> IF c \in Enveloped THEN env.start ELSE 0,
              envTimer |-> IF c \in Enveloped THEN env.pace ELSE 0]]
        /\ sweeper' = IF c # 1 THEN sweeper ELSE
             [on |-> sweep.pace # 0 \/ sweep.divisor # 1,
              timer |-> IF sweep.pace = 0 THEN MaxPace + 1 ELSE sweep.pace,
              shadow |-> f]
        /\ steady' = steady \cup ({c} \cap Enveloped)
        /\ age' = [age EXCEPT ![c] = 0]

SetControl(c, f, timed, trigger) ==
    /\ regs' = [regs EXCEPT ![c].timed = timed, ![c].trigger = trigger]
    /\ freq' = IF c = 1 THEN f ELSE freq
    /\ IF trigger THEN Trigger(c, f) ELSE UNCHANGED <<chan, sweeper, history>>
    /\ UNCHANGED <<enabled, seqVars, sweep>>

\* The whole register, or its high byte.
WriteControl(c, f, timed, trigger) == SetControl(c, f, timed, trigger)

\* Its low byte.  The trigger bit reads back as it was written, so that the
\* write triggers once more.
WriteControlByte(c, f) == SetControl(c, f, regs[c].timed, regs[c].trigger)

WriteSweep(s) ==
    /\ sweep' = s
    /\ UNCHANGED <<enabled, seqVars, regs, chan, freq, sweeper, history>>

\* SOUND3CNT_L with bit 7 clear.
StopWave ==
    /\ chan' = [chan EXCEPT ![3].on = FALSE]
    /\ UNCHANGED <<enabled, seqVars, regs, sweepVars, history>>

\* SOUNDCNT_X: turned off, every channel falls silent; they may be triggered
\* again before it is turned on.
WriteMaster(on) ==
    /\ enabled' = on
    /\ chan' = [c \in Channels |->
         [chan[c] EXCEPT !.on = @ /\ ~(enabled /\ ~on)]]
    /\ UNCHANGED <<seqVars, regs, sweepVars, history>>

-----------------------------------------------------------------------------
(***************************************************************************)
(* generate_sample, as far as it changes state: tick_frame_sequencer.      *)
(***************************************************************************)
\* Mutant of OnLastCount: the channel is cut at the count after the last.
NeverLast(x) == FALSE

OnLastCount(x) == x.left = 1

\* clock_length for one channel.
LengthClocked(c, x) ==
    IF regs[c].timed /\ x.left > 0
    THEN [x EXCEPT !.left = @ - 1, !.on = @ /\ ~OnLastCount(x)]
    ELSE x

\* Mutant of Louder: no limit.
EverLouder(v) == v + 1

Louder(v) == IF v < MaxVolume THEN v + 1 ELSE v

\* Mutant of Quieter: the volume wraps.
WrappingQuieter(v) == IF v > 0 THEN v - 1 ELSE MaxVolume

Quieter(v) == IF v > 0 THEN v - 1 ELSE v

\* clock_envelope for one channel.
HearsEnvelope(c, x) == c \in Enveloped /\ x.on /\ regs[c].env.pace # 0

EnvelopeClocked(c, x) ==
    LET env == regs[c].env
        t   == IF x.envTimer > 0 THEN x.envTimer - 1 ELSE 0
    IN  IF ~HearsEnvelope(c, x) THEN x
        ELSE IF t # 0 THEN [x EXCEPT !.envTimer = t]
        ELSE [x EXCEPT !.envTimer = env.pace,
                       !.volume = IF env.up THEN Louder(@) ELSE Quieter(@)]

\* clock_sweep does something.
Sweeps1 == sweeper.on /\ sweep.pace # 0

SweepDue == Sweeps1 /\ sweeper.timer \in {0, 1}

\* The frequency a sweep arrives at.
Swept ==
    LET delta == sweeper.shadow \div sweep.divisor
    IN  IF sweep.down THEN sweeper.shadow - delta ELSE sweeper.shadow + delta

Moves    == SweepDue /\ sweep.divisor # 1
Silences == Moves /\ Swept > MaxFreq

SweepClocked ==
    /\ sweeper' = [sweeper EXCEPT
         !.timer  = IF ~Sweeps1 THEN @ ELSE IF SweepDue THEN sweep.pace ELSE @ - 1,
         !.shadow = IF Moves /\ ~Silences THEN Swept ELSE @]
    /\ freq' = IF Moves /\ ~Silences THEN Swept ELSE freq

\* Mutant of NextStep: the sequencer stops at its last step.
LastStep == IF step < 7 THEN step + 1 ELSE step

NextStep == (step + 1) % 8

\* The channels after one step of the sequencer.
StepChannels ==
    chan' = [c \in Channels |->
      LET x == IF NextStep % 2 = 0 THEN LengthClocked(c, chan[c]) ELSE chan[c]
          y == IF NextStep = 7 THEN EnvelopeClocked(c, x) ELSE x
      IN  [y EXCEPT !.on = @ /\ ~(NextStep \in {2, 6} /\ c = 1 /\ Silences)]]

\* History of the envelopes: the clocks heard, up to AgeBound.
FollowEnvelopes ==
    LET heard == {c \in Enveloped : NextStep = 7 /\ HearsEnvelope(c, chan[c])}
    IN  /\ age' = [c \in Channels |-> IF c \in heard /\ age[c] < AgeBound THEN age[c] + 1 ELSE age[c]]
        /\ steady' = steady \ {c \in heard : age[c] = AgeBound}

Sample ==
    /\ enabled
    /\ IF ticks + 1 < TicksPerStep
       THEN ticks' = ticks + 1 /\ UNCHANGED <<step, chan, freq, sweeper, history>>
       ELSE /\ ticks' = 0 /\ step' = NextStep
            /\ StepChannels
            /\ IF NextStep \in {2, 6} THEN SweepClocked ELSE UNCHANGED <<freq, sweeper>>
            /\ FollowEnvelopes
    /\ UNCHANGED <<enabled, regs, sweep>>

Guest ==
    \/ \E c \in Channels, len \in Lengths :
         \/ \E env \in Envelopes : WriteLength(c, len, env)
         \/ WriteLengthByte(c, len)
    \/ \E c \in Channels, env \in Envelopes : WriteEnvelopeByte(c, env)
    \/ \E c \in Channels, f \in Freqs :
         \/ \E timed, trigger \in BOOLEAN : WriteControl(c, f, timed, trigger)
         \/ WriteControlByte(c, f)
    \/ 1 \in Channels /\ \E s \in Sweeps : WriteSweep(s)
    \/ 3 \in Channels /\ StopWave
    \/ \E on \in BOOLEAN : WriteMaster(on)

PsgNext == Guest \/ Sample \/ PsgReset

\* The step loop goes on producing samples.
PsgSpec == PsgInit /\ [][PsgNext]_psgVars /\ WF_psgVars(Sample)

-----------------------------------------------------------------------------
(***************************************************************************)
(* Properties                                                              *)
(***************************************************************************)

\* A channel that sounds has time left, so that its length counter can silence
\* it: a counter that ran out while the channel was on would never do so.
SoundingHasTime == \A c \in Channels : chan[c].on => chan[c].left > 0

\* What an envelope makes of its starting volume in n clocks.
Shaped(env, n) ==
    IF env.pace = 0 THEN env.start
    ELSE IF env.up
    THEN IF env.start + (n \div env.pace) > MaxVolume THEN MaxVolume
         ELSE env.start + (n \div env.pace)
    ELSE IF env.start < n \div env.pace THEN 0 ELSE env.start - (n \div env.pace)

\* The volume follows the envelope from the trigger on, one step every `pace`
\* clocks, through lengths, sweeps, power cycles and the other channels' writes.
EnvelopeKeepsPace ==
    \A c \in steady : chan[c].volume = Shaped(regs[c].env, age[c])

\* The channel is bound to end: its length is timed, or its pitch rises.
Mortal(c) ==
    \/ regs[c].timed
    \/ /\ c = 1 /\ Sweeps1 /\ ~sweep.down /\ sweep.divisor # 1
       /\ sweeper.shadow >= sweep.divisor

\* Once the guest leaves the registers alone, with the sound on, every such
\* note ends.
NotesEnd ==
    <>[][Sample]_psgVars => \A c \in Channels : <>[](enabled /\ Mortal(c) => ~chan[c].on)
=============================================================================
