------------------------------- MODULE Timers -------------------------------
(***************************************************************************)
(* The four timers (timer.rs).  A timer counts up to 2^16 either every     *)
(* `prescaler` cycles or, cascaded, at each overflow of the timer before   *)
(* it; at the end it starts over from its reload value and may raise its   *)
(* interrupt.  Bus::tick hands them the cycles of a whole step at once, so *)
(* the loop of Timers::tick is given here in closed form, and CountLoop is *)
(* the loop as the code has it.                                            *)
(***************************************************************************)
EXTENDS Integers

CONSTANTS
    Modulus,        \* the counter wraps here (2^16)
    Prescalers,     \* cycles per count ({1, 64, 256, 1024})
    LastTimer,      \* number of the last timer in use (3)
    Reloads,        \* the values guests write to the reload register
    ControlValues,  \* what guests write to the control register
    StepCycles      \* the cycles a step may take

\* What a control write sets.
Control == [enabled: BOOLEAN, cascade: BOOLEAN, irq: BOOLEAN, prescaler: Prescalers]

ASSUME TimersAssumption ==
    /\ Modulus \in Nat \ {0}
    /\ Prescalers \subseteq Nat \ {0} /\ 1 \in Prescalers
    /\ LastTimer \in 0..3
    /\ Reloads \subseteq 0..(Modulus - 1)
    /\ ControlValues \subseteq Control
    /\ StepCycles \subseteq Nat \ {0}

VARIABLES
    timers,     \* Timers.timers
    irqs,       \* the timers whose bit is set in IF
    age,        \* history: what each timer has been given since it was started
    steady      \* history: the timers that run as they were started

vars == <<timers, irqs, age, steady>>

Ids == 0..LastTimer

Timer == [counter: 0..(Modulus - 1), reload: Reloads \cup {0}, internal: Nat,
          enabled: BOOLEAN, cascade: BOOLEAN, irq: BOOLEAN, prescaler: Prescalers]

TypeOK ==
    /\ timers \in [Ids -> Timer]
    /\ ~timers[0].cascade
    /\ irqs \in SUBSET Ids
    /\ age \in [Ids -> Nat]
    /\ steady \in SUBSET Ids

Init ==
    /\ timers = [i \in Ids |->
         [counter |-> 0, reload |-> 0, internal |-> 0, enabled |-> FALSE,
          cascade |-> FALSE, irq |-> FALSE, prescaler |-> 1]]
    /\ irqs = {}
    /\ age = [i \in Ids |-> 0]
    /\ steady = {}

-----------------------------------------------------------------------------
(***************************************************************************)
(* Register writes.                                                        *)
(***************************************************************************)
\* A running timer picks the new value up at its next overflow.
WriteReload(i, val) ==
    /\ timers' = [timers EXCEPT ![i].reload = val]
    /\ steady' = steady \ {i} /\ age' = [age EXCEPT ![i] = 0]
    /\ UNCHANGED irqs

\* Mutant of Starts: the counter is loaded at any write that enables.
AlwaysStarts(i, c) == c.enabled

\* Only a write that turns the timer on loads the counter.
Starts(i, c) == c.enabled /\ ~timers[i].enabled

\* Mutant of Cascades: timer 0 may cascade too.
AnyCascades(i, c) == c.cascade

\* Timer 0 has no timer before it and never cascades.
Cascades(i, c) == c.cascade /\ i # 0

\* The timers that are steady after the write: history, not code.
SteadyAfter(i, c) ==
    IF c.enabled /\ ~timers[i].enabled THEN steady \cup {i}
    ELSE IF /\ c.enabled
            /\ c.prescaler = timers[i].prescaler
            /\ (c.cascade /\ i # 0) <=> timers[i].cascade
         THEN steady
         ELSE steady \ {i}

\* A running timer keeps its count and the cycles it has collected, even under
\* a new prescaler.
WriteControl(i, c) ==
    /\ LET t == timers[i]
       IN  timers' = [timers EXCEPT ![i] =
             [t EXCEPT !.enabled = c.enabled, !.irq = c.irq, !.prescaler = c.prescaler,
                       !.cascade = Cascades(i, c),
                       !.counter = IF Starts(i, c) THEN t.reload ELSE t.counter,
                       !.internal = IF Starts(i, c) THEN 0 ELSE t.internal]]
    /\ steady' = SteadyAfter(i, c)
    /\ age' = [age EXCEPT ![i] = IF i \in steady \cap SteadyAfter(i, c) THEN @ ELSE 0]
    /\ UNCHANGED irqs

-----------------------------------------------------------------------------
(***************************************************************************)
(* Timers::tick                                                            *)
(***************************************************************************)
FreeRunning(i) == timers[i].enabled /\ ~timers[i].cascade
Cascaded(i)    == timers[i].enabled /\ timers[i].cascade

\* How often a free-running timer counts in n cycles.
Counts(t, n) == (t.internal + n) \div t.prescaler

\* Mutant of Counted: starting over drops the rest.
ShortCounted(t, k) ==
    IF t.counter + k < Modulus THEN t.counter + k ELSE t.reload

\* The counter after k counts, starting over from reload whenever it overflows.
Counted(t, k) ==
    IF t.counter + k < Modulus
    THEN t.counter + k
    ELSE t.reload + ((t.counter + k - Modulus) % (Modulus - t.reload))

\* Mutant of Advanced: the cycles short of a count are dropped.
NoRest(t, n) ==
    [t EXCEPT !.internal = 0, !.counter = Counted(t, Counts(t, n))]

Advanced(t, n) ==
    [t EXCEPT !.internal = (@ + n) % t.prescaler, !.counter = Counted(t, Counts(t, n))]

\* Timer i overflows if some free-running timer does and every timer after it,
\* up to i, is cascaded and at its last count.
Overflows(i, n) ==
    \E j \in 0..i :
      /\ FreeRunning(j) /\ timers[j].counter + Counts(timers[j], n) >= Modulus
      /\ \A m \in (j + 1)..i : Cascaded(m) /\ timers[m].counter = Modulus - 1

\* Mutant of Carried: the chain is one timer long.
ShortCarried(i, n) ==
    /\ Cascaded(i) /\ FreeRunning(i - 1) /\ Overflows(i - 1, n)

\* A cascaded timer counts once if the timer before it overflowed at all.
Carried(i, n) == Cascaded(i) /\ Overflows(i - 1, n)

\* How often the timer before a cascaded one really overflowed.
Wraps(i, n) ==
    LET t == timers[i]
        k == t.counter + Counts(t, n)
    IN  IF FreeRunning(i)
        THEN IF k < Modulus THEN 0 ELSE 1 + ((k - Modulus) \div (Modulus - t.reload))
        ELSE IF Overflows(i, n) THEN 1 ELSE 0

\* The cycles, or the overflows, after which timer i is where it started.
Period(i) ==
    (Modulus - timers[i].reload) * (IF timers[i].cascade THEN 1 ELSE timers[i].prescaler)

\* The timers that are steady after n cycles: history, not code.  A cascaded
\* timer loses count when the one before it overflows twice in a step.
Kept(n) == {i \in steady : Cascaded(i) => Wraps(i - 1, n) <= 1}

Tick(n) ==
    /\ timers' = [i \in Ids |->
         IF FreeRunning(i) THEN Advanced(timers[i], n)
         ELSE IF Carried(i, n) THEN [timers[i] EXCEPT !.counter = Counted(timers[i], 1)]
         ELSE timers[i]]
    /\ irqs' = irqs \cup {i \in Ids : Overflows(i, n) /\ timers[i].irq}
    /\ steady' = Kept(n)
    /\ age' = [i \in Ids |->
         IF i \notin Kept(n) THEN 0
         ELSE IF Cascaded(i) THEN (age[i] + Wraps(i - 1, n)) % Period(i)
         ELSE (age[i] + n) % Period(i)]

\* The guest writes ones to the timers' bits of IF.
Acknowledge == irqs' = {} /\ UNCHANGED <<timers, age, steady>>

Next ==
    \/ \E i \in Ids, val \in Reloads : WriteReload(i, val)
    \/ \E i \in Ids, c \in ControlValues : WriteControl(i, c)
    \/ \E n \in StepCycles : Tick(n)
    \/ Acknowledge

Spec == Init /\ [][Next]_vars

-----------------------------------------------------------------------------
(***************************************************************************)
(* Properties                                                              *)
(***************************************************************************)

\* while internal_counter >= prescaler: one count, one at a time.
CountOnce(s) ==
    LET t == s.timer
        over == t.counter + 1 = Modulus
    IN  IF t.internal < t.prescaler THEN s
        ELSE [timer |-> [t EXCEPT !.internal = @ - t.prescaler,
                                  !.counter = IF over THEN t.reload ELSE @ + 1],
              overflow |-> s.overflow \/ over]

\* A turn takes a cycle or more, so that t.internal of them end the loop.
CountLoop(t) ==
    LET turn[k \in 0..t.internal] ==
          IF k = 0 THEN [timer |-> t, overflow |-> FALSE] ELSE CountOnce(turn[k - 1])
    IN  turn[t.internal]

\* The closed form gives what the loop of the code gives, the stale cycles of an
\* old prescaler included.
ClosedFormIsLoop ==
    \A i \in Ids, n \in StepCycles : FreeRunning(i) =>
      CountLoop([timers[i] EXCEPT !.internal = @ + n])
        = [timer |-> Advanced(timers[i], n), overflow |-> Overflows(i, n)]

\* A free-running timer tells the cycles since it was started exactly, however
\* the step loop slices time, whatever the other timers do, and through writes
\* of its control register that leave it running at the same prescaler.
TimerKeepsTime ==
    \A i \in steady : FreeRunning(i) =>
      LET t == timers[i] IN age[i] = (t.counter - t.reload) * t.prescaler + t.internal

\* It overflows in the very step that completes its period, neither early nor late.
OverflowsOnTime ==
    \A i \in steady : FreeRunning(i) =>
      \A n \in StepCycles : Overflows(i, n) <=> age[i] + n >= Period(i)

\* A cascaded timer has counted every overflow of the timer before it, up a chain
\* of any length, as long as none of them came twice in a step.
CascadeCountsOverflows ==
    \A i \in steady : Cascaded(i) => age[i] = timers[i].counter - timers[i].reload
==============================================================================
