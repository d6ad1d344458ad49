------------------------------ MODULE AudioOut ------------------------------
(***************************************************************************)
(* The samples on their way to the host: one pair every Period cycles into *)
(* the output buffer (bus.rs), which the host reads in two calls, one for  *)
(* the place of the samples and one for their number (lib.rs).  What a     *)
(* pair is made of is data of the caller.                                  *)
(***************************************************************************)
EXTENDS Integers, Sequences

CONSTANTS
    Period,     \* cycles per sample (512)
    Capacity,   \* pairs that the buffer holds (32768)
    Pairs,      \* the pairs of samples
    Silent      \* the pair (0, 0)

VARIABLES
    rest,       \* audio_cycles: what the next sample has had of its cycles
    ready,      \* audio_samples_ready
    out,        \* audio_output_buffer
    owed        \* the pairs that the host has been told of and not copied yet

TypeOK ==
    /\ rest \in 0..(Period - 1)
    /\ ready \in 0..Capacity
    /\ out \in [1..Capacity -> Pairs]
    /\ owed \in 0..Capacity

Init ==
    /\ rest = 0 /\ ready = 0 /\ owed = 0
    /\ out = [i \in 1..Capacity |-> Silent]

\* The pairs ready after n of them, the ones that find no place dropped.
Kept(n) == IF n <= Capacity THEN n ELSE Capacity

\* A long step is one that ends many samples.
GenerateAudio(cycles, pair) ==
    /\ rest' = (rest + cycles) % Period
    /\ ready' = Kept(ready + ((rest + cycles) \div Period))
    /\ out' = [i \in 1..Capacity |-> IF i \in (ready + 1)..ready' THEN pair ELSE out[i]]
    /\ UNCHANGED owed

\* Mutant of EmuAudioSamples: the count stays.
TalliedAudioSamples == owed' = ready /\ UNCHANGED <<rest, ready, out>>

\* emu_audio_samples: the pairs stay where they are, to be overwritten by the next.
EmuAudioSamples == owed' = ready /\ ready' = 0 /\ UNCHANGED <<rest, out>>

\* The host copies before it lets the machine run again.
HostCopies == owed > 0 /\ owed' = 0 /\ UNCHANGED <<rest, ready, out>>

\* Bus::reset.
Reset == rest' = 0 /\ ready' = 0 /\ UNCHANGED <<out, owed>>

\* Pairs ready, and pairs the host may copy.
Ready == SubSeq(out, 1, ready)
Owed == SubSeq(out, 1, owed)
=============================================================================
