----------------------------- MODULE SoundFifo -----------------------------
(***************************************************************************)
(* The two sound FIFOs (apu.rs): rings of bytes that the guest fills       *)
(* through FIFO_A and FIFO_B and that the overflows of timer 0 or 1, as    *)
(* SOUNDCNT_H selects, empty one sample at a time.                         *)
(***************************************************************************)
EXTENDS Integers, Sequences

CONSTANTS
    Fifos,      \* the FIFOs ("a" and "b")
    Samples,    \* the bytes guests write
    Silence,    \* the byte 0
    Size        \* slots of a ring (32)

ASSUME FifoAssumption ==
    /\ Silence \in Samples
    /\ Size \in Nat \ {0}

VARIABLES
    ring,       \* fifo_a, fifo_a_read, fifo_a_write, fifo_a_count; the same for b
    sample,     \* fifo_a_sample, fifo_b_sample
    select      \* SOUNDCNT_H bits 10 and 14: the timer a FIFO listens to

vars == <<ring, sample, select>>

Slots == 0..(Size - 1)
TimerIds == {0, 1}

Ring == [buf: [Slots -> Samples], read: Slots, write: Slots, count: 0..Size]

TypeOK ==
    /\ ring \in [Fifos -> Ring]
    /\ sample \in [Fifos -> Samples]
    /\ select \in [Fifos -> TimerIds]

BlankRing == [buf |-> [k \in Slots |-> Silence], read |-> 0, write |-> 0, count |-> 0]

\* A new Apu.
NewRings == [f \in Fifos |-> BlankRing]
NewSamples == [f \in Fifos |-> Silence]
NewSelect == [f \in Fifos |-> 0]

Init == ring = NewRings /\ sample = NewSamples /\ select = NewSelect

-----------------------------------------------------------------------------
(***************************************************************************)
(* Writes to FIFO_A and FIFO_B.                                            *)
(***************************************************************************)
\* A halfword written to the lower or the upper half of the register is taken
\* for a word whose other half is 0: both bytes and two zeros are pushed.
LowHalf  == {<<x, y, Silence, Silence>> : x \in Samples, y \in Samples}
HighHalf == {<<Silence, Silence, x, y>> : x \in Samples, y \in Samples}

\* A byte is written as a halfword, a word as two.
Writes == LowHalf \cup HighHalf \cup {l \o h : l \in LowHalf, h \in HighHalf}

\* Mutant of Room: no check for a full ring.
Unlimited(r, s) == Len(s)

\* How much of s finds room.
Room(r, s) == IF Len(s) <= Size - r.count THEN Len(s) ELSE Size - r.count

\* Mutant of Pushed: a full ring is overwritten and only its count stays put.
OverwritingPushed(r, s) ==
    [r EXCEPT !.buf = [k \in Slots |->
                        LET d == (k + Size - r.write) % Size
                        IN  IF d < Len(s) THEN s[d + 1] ELSE r.buf[k]],
              !.write = (r.write + Len(s)) % Size,
              !.count = r.count + Room(r, s)]

\* Slot k takes the sample that is as far into s as k is past the write index.
Pushed(r, s) ==
    [r EXCEPT !.buf = [k \in Slots |->
                        LET d == (k + Size - r.write) % Size
                        IN  IF d < Room(r, s) THEN s[d + 1] ELSE r.buf[k]],
              !.write = (r.write + Room(r, s)) % Size,
              !.count = r.count + Room(r, s)]

WriteFifo(f, s) ==
    /\ ring' = [ring EXCEPT ![f] = Pushed(ring[f], s)]
    /\ UNCHANGED <<sample, select>>

-----------------------------------------------------------------------------
(***************************************************************************)
(* SOUNDCNT_H and the timers.                                              *)
(***************************************************************************)
\* The bytes stay where they are.
Emptied(r) == [r EXCEPT !.read = 0, !.write = 0, !.count = 0]

\* Bits 11 and 15 reset a FIFO each.  They stay set in the register, so that a
\* byte written to its lower half resets them again: it is such a write too.
WriteSoundcntH(sel, F) ==
    /\ select' = sel
    /\ ring' = [f \in Fifos |-> IF f \in F THEN Emptied(ring[f]) ELSE ring[f]]
    /\ UNCHANGED sample

\* The ring after its oldest sample has been taken.
Popped(r) == IF r.count = 0 THEN r ELSE [r EXCEPT !.read = (@ + 1) % Size, !.count = @ - 1]

\* Apu::on_timer_overflow for each timer that overflowed in a step.  Its request
\* for a refill is dropped by Timers::tick.
OnTimerOverflows(T) ==
    LET listening == {f \in Fifos : select[f] \in T}
    IN  /\ ring' = [f \in Fifos |-> IF f \in listening THEN Popped(ring[f]) ELSE ring[f]]
        /\ sample' = [f \in Fifos |->
             IF f \in listening /\ ring[f].count > 0
             THEN ring[f].buf[ring[f].read] ELSE sample[f]]
        /\ UNCHANGED select

\* Bus::reset makes a new Apu.
Reset == ring' = NewRings /\ sample' = NewSamples /\ select' = NewSelect

Next ==
    \/ \E f \in Fifos, s \in Writes : WriteFifo(f, s)
    \/ \E sel \in [Fifos -> TimerIds], F \in SUBSET Fifos : WriteSoundcntH(sel, F)
    \/ \E T \in SUBSET TimerIds : OnTimerOverflows(T)
    \/ Reset

Spec == Init /\ [][Next]_vars

-----------------------------------------------------------------------------
(***************************************************************************)
(* Properties                                                              *)
(***************************************************************************)

\* The write index is always as far ahead of the read index as the count says,
\* so that none of the three can drift from the others through any sequence of
\* partial writes, underruns and resets.
IndicesAgree ==
    \A f \in Fifos : ring[f].write = (ring[f].read + ring[f].count) % Size

\* The samples waiting in a ring, oldest first.
Waiting(r) == [j \in 1..r.count |-> r.buf[(r.read + j - 1) % Size]]

Abstract == INSTANCE SampleQueue
    WITH queue <- [f \in Fifos |-> Waiting(ring[f])],
         playing <- sample, Capacity <- Size

\* The rings implement the queues of SampleQueue.
PlaysInOrder == Abstract!Spec
=============================================================================
