---------------------------- MODULE AudioStream -----------------------------
(***************************************************************************)
(* What a host expects of the audio output: a sample for every Period      *)
(* cycles, none early or late by a cycle that a step was too long; each as *)
(* it was when it was made; and every call for samples returns those made  *)
(* since the last one, in order and once.  A host that waits too long      *)
(* loses the newest.                                                       *)
(***************************************************************************)
EXTENDS Integers, Sequences

CONSTANTS
    Period,
    Capacity,   \* the pairs that can wait
    Steps,      \* the cycles that may pass at once
    Silent      \* what a sample is while sound is off

VARIABLES
    phase,      \* cycles since the last sample
    pending,    \* the pairs that wait for the host
    batch,      \* the pairs it was given with its last call and still reads
    playing     \* what a sample made now would be

vars == <<phase, pending, batch, playing>>

Init == phase = 0 /\ pending = << >> /\ batch = << >>

Fitting(q) == SubSeq(q, 1, IF Len(q) <= Capacity THEN Len(q) ELSE Capacity)

\* Time passes, and n samples are made: no cycle is lost, and none counts twice.
Pass ==
    \E cycles \in Steps : \E n \in 0..cycles, pair \in {playing', Silent} :
      /\ phase' \in 0..(Period - 1)
      /\ n * Period + phase' = phase + cycles
      /\ pending' = Fitting(pending \o [i \in 1..n |-> pair])
      /\ UNCHANGED batch

\* The host does not let time pass while it reads.
Fetch == pending' = << >> /\ batch' = pending /\ UNCHANGED <<phase, playing>>
Read == batch' = << >> /\ UNCHANGED <<phase, pending, playing>>

Restart == phase' = 0 /\ pending' = << >> /\ UNCHANGED batch

Next == Pass \/ Fetch \/ Read \/ Restart

Spec == Init /\ [][Next]_vars
=============================================================================
