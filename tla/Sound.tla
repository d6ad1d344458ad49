------------------------------- MODULE Sound -------------------------------
(***************************************************************************)
(* From the bytes that the guest writes to the samples that the host       *)
(* copies: SoundFifo and AudioOut in the order in which Bus::tick advances *)
(* them, the timers' overflows before the samples.  A pair is known by the *)
(* bytes that play; the tone channels (Psg) and the mixer's arithmetic     *)
(* only add to it.                                                         *)
(***************************************************************************)
EXTENDS SoundFifo

CONSTANTS
    Period,     \* cycles per sample (512)
    Capacity,   \* pairs that the output buffer holds (32768)
    Steps       \* the cycles of a step: an instruction, a transfer, a HALT, the boot

ASSUME SoundAssumption ==
    /\ Period \in Nat \ {0}
    /\ Capacity \in Nat \ {0}
    /\ Steps \subseteq Nat \ {0}

VARIABLES rest, ready, out, owed    \* see AudioOut

soundVars == <<ring, sample, select, rest, ready, out, owed>>

Silent == [f \in Fifos |-> Silence]

Output == INSTANCE AudioOut WITH Pairs <- [Fifos -> Samples]

SoundInit == Init /\ Output!Init

\* Bus::tick: a timer overflows once in it, however long it is.  With the master
\* switch (SOUNDCNT_X bit 7) off, a sample is silent.
Tick(cycles, T) ==
    /\ OnTimerOverflows(T)
    /\ \E pair \in {sample', Silent} : Output!GenerateAudio(cycles, pair)

GuestWrites ==
    /\ \/ \E f \in Fifos, s \in Writes : WriteFifo(f, s)
       \/ \E sel \in [Fifos -> TimerIds], F \in SUBSET Fifos : WriteSoundcntH(sel, F)
    /\ UNCHANGED <<rest, ready, out, owed>>

\* emu_reset, and the start of emu_load_rom.
BusReset == Reset /\ Output!Reset

\* A host calls one function at a time, and copies what it was told of before the next.
MachineRuns ==
    /\ owed = 0
    /\ \/ GuestWrites
       \/ \E cycles \in Steps, T \in SUBSET TimerIds : Tick(cycles, T)
       \/ BusReset

HostReads ==
    /\ Output!HostCopies \/ (owed = 0 /\ Output!EmuAudioSamples)
    /\ UNCHANGED <<ring, sample, select>>

SoundNext == MachineRuns \/ HostReads

SoundSpec == SoundInit /\ [][SoundNext]_soundVars

-----------------------------------------------------------------------------
(***************************************************************************)
(* Properties                                                              *)
(***************************************************************************)
SoundTypeOK == TypeOK /\ Output!TypeOK

Stream == INSTANCE AudioStream WITH
    phase <- rest, pending <- Output!Ready, batch <- Output!Owed, playing <- sample

\* The host hears every sample once, in order, and as it was when its time came:
\* one for each Period cycles however the steps cut them, made of the bytes that
\* played after the overflows of that very step; the buffer it reads is not
\* written again before it has read it; and only what finds the buffer full, or
\* waits in it at a reset, is lost.
HostHearsAll == Stream!Spec
=============================================================================
