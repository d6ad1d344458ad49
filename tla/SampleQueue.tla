---------------------------- MODULE SampleQueue ----------------------------
(***************************************************************************)
(* What a sound FIFO promises the guest: samples are played in the order   *)
(* they were written, none twice; what does not fit is dropped, newest     *)
(* first; a reset forgets what is waiting; and the sample that plays stays *)
(* until the next one.  Sound FIFOs do not disturb each other.             *)
(***************************************************************************)
EXTENDS Integers, Sequences

CONSTANTS
    Fifos,      \* the FIFOs
    Samples,    \* the values of a sample
    Silence,    \* what plays before the first sample
    Capacity,   \* the samples a FIFO holds
    Writes      \* the sequences of samples one write may carry

VARIABLES
    queue,      \* the samples waiting, oldest first
    playing     \* the sample that plays

vars == <<queue, playing>>

Init ==
    /\ queue = [f \in Fifos |-> << >>]
    /\ playing = [f \in Fifos |-> Silence]

\* The longest prefix of a sequence that fits.
Fitting(q) == SubSeq(q, 1, IF Len(q) <= Capacity THEN Len(q) ELSE Capacity)

Write(f, s) ==
    /\ queue' = [queue EXCEPT ![f] = Fitting(queue[f] \o s)]
    /\ UNCHANGED playing

\* The FIFOs of F that have something to play move on.
Play(F) ==
    LET moving == {f \in F : queue[f] # << >>}
    IN  /\ queue' = [f \in Fifos |-> IF f \in moving THEN Tail(queue[f]) ELSE queue[f]]
        /\ playing' = [f \in Fifos |-> IF f \in moving THEN Head(queue[f]) ELSE playing[f]]

Forget(F) ==
    /\ queue' = [f \in Fifos |-> IF f \in F THEN << >> ELSE queue[f]]
    /\ UNCHANGED playing

\* The device starts again.
Restart == queue' = [f \in Fifos |-> << >>] /\ playing' = [f \in Fifos |-> Silence]

Next ==
    \/ \E f \in Fifos, s \in Writes : Write(f, s)
    \/ \E F \in SUBSET Fifos : Play(F) \/ Forget(F)
    \/ Restart

Spec == Init /\ [][Next]_vars
=============================================================================
