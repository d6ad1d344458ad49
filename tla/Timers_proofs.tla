--------------------------- MODULE Timers_proofs ---------------------------
(***************************************************************************)
(* Proofs about Timers, for every modulus, prescaler, reload value and     *)
(* step length: the type invariant, and that a free-running timer keeps    *)
(* time.                                                                   *)
(***************************************************************************)
EXTENDS Timers, Numbers, TLAPS

-----------------------------------------------------------------------------
(***************************************************************************)
(* The operators.                                                          *)
(***************************************************************************)
\* What the proofs use of the constants.
LEMMA Constants ==
    /\ Modulus \in Nat \ {0}
    /\ \A x \in Reloads \cup {0} : x \in 0..(Modulus - 1)
    /\ \A x \in Prescalers : x \in Nat \ {0}
<1>1. Modulus \in Nat \ {0} /\ Reloads \subseteq 0..(Modulus - 1)
  BY TimersAssumption
<1>2. Prescalers \subseteq Nat \ {0}
  BY TimersAssumption
<1>3. 0 \in 0..(Modulus - 1)
  BY <1>1, SMT
<1> QED
  BY <1>1, <1>2, <1>3

\* A counter stays in range and, once past its reload value, stays there.
LEMMA CountedInRange ==
    ASSUME NEW t, NEW k \in Nat,
           t.counter \in 0..(Modulus - 1), t.reload \in 0..(Modulus - 1)
    PROVE  /\ Counted(t, k) \in 0..(Modulus - 1)
           /\ t.reload <= t.counter => t.reload <= Counted(t, k)
<1>1. Modulus \in Nat \ {0}
  BY TimersAssumption
<1>2. CASE t.counter + k < Modulus
  BY <1>1, <1>2, SMT DEF Counted
<1>3. CASE ~(t.counter + k < Modulus)
  <2> DEFINE a == t.counter + k - Modulus
             L == Modulus - t.reload
  <2>1. a \in Nat /\ L \in Nat \ {0}
    BY <1>1, <1>3, SMT
  <2>2. a % L \in 0..(L - 1)
    BY <2>1, DivMod
  <2>3. Counted(t, k) = t.reload + (a % L)
    BY <1>3 DEF Counted
  <2> QED
    BY <1>1, <2>2, <2>3, SMT
<1> QED
  BY <1>2, <1>3

\* What a free-running timer has been given since it was started.
Given(t) == (t.counter - t.reload) * t.prescaler + t.internal

\* Timers.Tick gives a timer n cycles: they are added to what it has been
\* given, modulo its period, and it overflows just when they complete one.
LEMMA AdvancedKeepsTime ==
    ASSUME NEW t \in Timer, NEW n \in Nat, t.reload <= t.counter, t.internal < t.prescaler
    PROVE  LET P == (Modulus - t.reload) * t.prescaler
           IN  /\ Given(Advanced(t, n)) = (Given(t) + n) % P
               /\ t.counter + Counts(t, n) >= Modulus <=> Given(t) + n >= P
<1> DEFINE M == Modulus
           c == t.counter
           l == t.reload
           p == t.prescaler
           q == (t.internal + n) \div p
           r == (t.internal + n) % p
           P == (M - l) * p
<1>1. /\ M \in Nat \ {0} /\ c \in 0..(M - 1) /\ l \in 0..(M - 1)
      /\ p \in Nat \ {0} /\ t.internal \in Nat /\ l <= c
  <2>1. /\ t.counter \in 0..(Modulus - 1) /\ t.reload \in Reloads \cup {0}
        /\ t.internal \in Nat /\ t.prescaler \in Prescalers
    BY DEF Timer
  <2>2. Modulus \in Nat \ {0} /\ t.reload \in 0..(Modulus - 1) /\ t.prescaler \in Nat \ {0}
    BY <2>1, Constants
  <2> QED
    BY <2>1, <2>2
<1>2. /\ q \in Nat /\ r \in 0..(p - 1) /\ t.internal + n = p * q + r
  <2>1. t.internal + n \in Nat /\ t.prescaler \in Nat \ {0}
    BY <1>1, SMT
  <2> QED
    BY <2>1, DivMod
<1>3. /\ Counts(t, n) = q
      /\ Advanced(t, n).counter = Counted(t, q)
      /\ Advanced(t, n).internal = r
      /\ Advanced(t, n).reload = l
      /\ Advanced(t, n).prescaler = p
  BY DEF Counts, Advanced, Timer
<1> HIDE DEF M, c, l, p, q, r
<1>4. Given(t) + n = (c - l + q) * p + r
  <2>1. Given(t) + n = (c - l) * p + (p * q + r)
    <3>1. Given(t) = (c - l) * p + t.internal
      BY DEF Given, c, l, p
    <3>2. (c - l) * p \in Int
      BY <1>1, SMT
    <3> QED
      BY <1>1, <1>2, <3>1, <3>2, SMT
  <2> QED
    BY <1>1, <1>2, <2>1, SMT
<1>5. Given(Advanced(t, n)) = (Counted(t, q) - l) * p + r
  BY <1>3 DEF Given
<1>6. P \in Nat \ {0}
  BY <1>1, SMT
<1>7. CASE c + q < M
  <2>1. Counted(t, q) = c + q
    BY <1>7 DEF Counted, c, M
  <2>2. Given(t) + n < P /\ Given(t) + n \in Nat
    <3>1. c - l + q \in 0..(M - l - 1)
      BY <1>1, <1>2, <1>7, SMT
    <3>2. (c - l + q) * p >= 0 /\ (c - l + q) * p <= (M - l - 1) * p
      BY <1>1, <1>2, <3>1, SMT
    <3>3. (M - l - 1) * p = P - p
      BY <1>1, SMT
    <3> HIDE DEF P
    <3> QED
      BY <1>1, <1>2, <1>4, <1>6, <3>2, <3>3, SMT
  <2>3. (Given(t) + n) % P = Given(t) + n
    BY <1>6, <2>2, ModSmall
  <2>4. Given(Advanced(t, n)) = Given(t) + n
    BY <1>1, <1>2, <1>4, <1>5, <2>1, SMT
  <2> HIDE DEF P
  <2>5. c + q >= M <=> Given(t) + n >= P
    BY <1>1, <1>2, <1>6, <1>7, <2>2, SMT
  <2> QED
    BY <1>3, <2>3, <2>4, <2>5 DEF P, M, c, l, p
<1>8. CASE ~(c + q < M)
  <2> DEFINE L == M - l
             w == (c + q - M) \div L
             s == (c + q - M) % L
             b == s * p + r
  <2>1. L \in Nat \ {0} /\ c + q - M \in Nat
    BY <1>1, <1>2, <1>8, SMT
  <2>2. w \in Nat /\ s \in 0..(L - 1) /\ c + q - M = L * w + s
    BY <2>1, DivMod
  <2>3. Counted(t, q) = l + s
    BY <1>8 DEF Counted, c, l, M
  <2> HIDE DEF w, s, L
  <2>4. b \in Nat /\ b < P
    <3>1. s * p \in Nat /\ s * p <= (L - 1) * p
      BY <1>1, <2>1, <2>2, SMT
    <3>2. (L - 1) * p = P - p
      BY <1>1, SMT DEF L
    <3>3. r \in Nat /\ r < p
      BY <1>1, <1>2, SMT
    <3> HIDE DEF P
    <3> QED
      BY <1>1, <1>6, <3>1, <3>2, <3>3, SMT
  <2>5. c - l + q = L * (w + 1) + s
    BY <1>1, <1>2, <2>2, SMT DEF L
  <2>6. Given(t) + n = P * (w + 1) + b
    <3>1. (L * (w + 1) + s) * p = (L * p) * (w + 1) + s * p
      BY <1>1, <2>1, <2>2, SMT
    <3>2. Given(t) + n = (L * p) * (w + 1) + s * p + r
      BY <1>4, <2>5, <3>1
    <3>3. L * p = P
      BY DEF L
    <3>4. (L * p) * (w + 1) \in Int /\ s * p \in Int
      BY <1>1, <2>1, <2>2, SMT
    <3> QED
      BY <1>1, <1>2, <3>2, <3>3, <3>4, SMT
  <2>7. w + 1 \in Nat /\ w + 1 >= 1
    BY <2>2, SMT
  <2> HIDE DEF P, b
  <2>8. (Given(t) + n) % P = b
    BY <1>6, <2>4, <2>6, <2>7, ModUnique
  <2>9. Given(t) + n >= P
    <3>1. P * (w + 1) >= P
      BY <1>6, <2>7, SMT
    <3>2. P * (w + 1) \in Int
      BY <1>6, <2>7, SMT
    <3> QED
      BY <1>6, <2>4, <2>6, <3>1, <3>2, SMT
  <2>10. Given(Advanced(t, n)) = b
    <3>1. Counted(t, q) - l = s
      BY <1>1, <2>1, <2>2, <2>3, SMT
    <3> QED
      BY <1>5, <3>1 DEF b
  <2>11. c + q >= M <=> Given(t) + n >= P
    BY <1>1, <1>2, <1>8, <2>9, SMT
  <2> QED
    BY <1>3, <2>8, <2>10, <2>11 DEF P, M, c, l, p
<1> QED
  BY <1>1, <1>2, <1>7, <1>8, SMT

-----------------------------------------------------------------------------
(***************************************************************************)
(* Type correctness.                                                       *)
(***************************************************************************)
\* A step of given length leaves a timer a timer.
LEMMA AdvancedIsTimer ==
    ASSUME NEW t \in Timer, NEW n \in Nat
    PROVE  Advanced(t, n) \in Timer
<1> DEFINE k == Counts(t, n)
           x == (t.internal + n) % t.prescaler
           y == Counted(t, k)
<1>1. /\ t.counter \in 0..(Modulus - 1) /\ t.reload \in 0..(Modulus - 1)
      /\ t.internal + n \in Nat /\ t.prescaler \in Nat \ {0}
  BY Constants DEF Timer
<1>2. k \in Nat /\ x \in Nat
  <2>1. /\ (t.internal + n) \div t.prescaler \in Nat
        /\ (t.internal + n) % t.prescaler \in 0..(t.prescaler - 1)
    BY <1>1, DivMod
  <2> QED
    BY <1>1, <2>1, SMT DEF Counts
<1> HIDE DEF k, x
<1>3. y \in 0..(Modulus - 1)
  BY <1>1, <1>2, CountedInRange
<1>4. Advanced(t, n) = [t EXCEPT !.internal = x, !.counter = y]
  BY DEF Advanced, Timer, x, k
<1> HIDE DEF y
<1> QED
  BY <1>2, <1>3, <1>4 DEF Timer

\* A cascaded timer that counts stays a timer.
LEMMA CountedIsTimer ==
    ASSUME NEW t \in Timer
    PROVE  [t EXCEPT !.counter = Counted(t, 1)] \in Timer
<1> DEFINE y == Counted(t, 1)
<1>1. t.counter \in 0..(Modulus - 1) /\ t.reload \in 0..(Modulus - 1)
  BY Constants DEF Timer
<1>2. y \in 0..(Modulus - 1)
  BY <1>1, CountedInRange
<1>3. \A z \in 0..(Modulus - 1) : [t EXCEPT !.counter = z] \in Timer
  BY DEF Timer
<1> QED
  BY <1>2, <1>3

\* Period is a positive number of cycles, or of overflows.
LEMMA PeriodPositive ==
    ASSUME TypeOK, NEW i \in Ids
    PROVE  Period(i) \in Nat \ {0}
<1>1. timers[i] \in Timer
  BY DEF TypeOK
<1>2. timers[i].reload \in 0..(Modulus - 1) /\ timers[i].prescaler \in Nat \ {0}
  BY <1>1, Constants DEF Timer
<1>3. (Modulus - timers[i].reload) * timers[i].prescaler \in Nat \ {0}
  BY <1>2, Constants, SMT
<1>4. (Modulus - timers[i].reload) * 1 \in Nat \ {0}
  BY <1>2, Constants, SMT
<1> QED
  BY <1>3, <1>4 DEF Period

\* The overflows of a timer in one step are a natural number.
LEMMA WrapsNat ==
    ASSUME TypeOK, NEW i \in Ids, NEW n \in Nat
    PROVE  Wraps(i, n) \in Nat
<1> DEFINE t == timers[i]
           k == t.counter + Counts(t, n)
           L == Modulus - t.reload
<1>1. t \in Timer
  BY DEF TypeOK
<1>2. /\ t.counter \in 0..(Modulus - 1) /\ t.reload \in 0..(Modulus - 1)
      /\ t.internal + n \in Nat /\ t.prescaler \in Nat \ {0}
  BY <1>1, Constants DEF Timer
<1>3. Counts(t, n) \in Nat
  BY <1>2, DivMod DEF Counts
<1>4. k \in Nat /\ L \in Nat \ {0}
  BY <1>2, <1>3, Constants, SMT
<1> HIDE DEF k, L
<1>5. CASE ~(k < Modulus)
  <2>1. k - Modulus \in Nat
    BY <1>4, <1>5, Constants, SMT
  <2>2. (k - Modulus) \div L \in Nat
    BY <1>4, <2>1, DivMod
  <2>3. 1 + ((k - Modulus) \div L) \in Nat
    BY <2>2, SMT
  <2> QED
    BY <1>5, <2>3 DEF Wraps, k, L
<1>6. CASE k < Modulus
  BY <1>6 DEF Wraps, k
<1> QED
  BY <1>5, <1>6

\* The timers' registers and histories stay in range, and timer 0 never
\* cascades (Timers::write_control).
THEOREM TypeCorrect == Spec => []TypeOK
<1>1. Init => TypeOK
  <2> SUFFICES ASSUME Init PROVE TypeOK
    OBVIOUS
  <2> DEFINE t0 == [counter |-> 0, reload |-> 0, internal |-> 0, enabled |-> FALSE,
                    cascade |-> FALSE, irq |-> FALSE, prescaler |-> 1]
  <2>1. 0 \in 0..(Modulus - 1) /\ 1 \in Prescalers
    BY TimersAssumption, Constants
  <2>2. t0 \in Timer
    BY <2>1 DEF Timer
  <2>3. timers = [i \in Ids |-> t0]
    BY DEF Init
  <2>4. 0 \in Ids
    BY TimersAssumption, SMT DEF Ids
  <2>5. ~timers[0].cascade
    BY <2>3, <2>4
  <2> QED
    BY <2>2, <2>3, <2>5 DEF Init, TypeOK
<1>2. TypeOK /\ [Next]_vars => TypeOK'
  <2> SUFFICES ASSUME TypeOK, [Next]_vars PROVE TypeOK'
    OBVIOUS
  <2> USE DEF TypeOK
  <2>1. ASSUME NEW i \in Ids, NEW val \in Reloads, WriteReload(i, val)
        PROVE  TypeOK'
    <3>1. [timers[i] EXCEPT !.reload = val] \in Timer
      BY DEF Timer
    <3>2. timers' = [timers EXCEPT ![i] = [timers[i] EXCEPT !.reload = val]]
      BY <2>1 DEF WriteReload
    <3>3. timers' \in [Ids -> Timer]
      BY <3>1, <3>2
    <3>4. ~timers'[0].cascade
      BY <3>2 DEF Timer
    <3> QED
      BY <2>1, <3>3, <3>4 DEF WriteReload
  <2>2. ASSUME NEW i \in Ids, NEW c \in ControlValues, WriteControl(i, c)
        PROVE  TypeOK'
    <3> DEFINE on == Starts(i, c)
               cas == Cascades(i, c)
               ctr == IF on THEN timers[i].reload ELSE timers[i].counter
               int == IF on THEN 0 ELSE timers[i].internal
               t == [timers[i] EXCEPT !.enabled = c.enabled, !.irq = c.irq,
                                      !.prescaler = c.prescaler, !.cascade = cas,
                                      !.counter = ctr, !.internal = int]
    <3>1. c \in Control
      BY TimersAssumption
    <3>2. /\ c.enabled \in BOOLEAN /\ c.irq \in BOOLEAN /\ c.prescaler \in Prescalers
          /\ cas \in BOOLEAN /\ (i = 0 => ~cas)
      BY <3>1 DEF Control, Cascades
    <3>3. timers[i] \in Timer /\ timers[i].reload \in 0..(Modulus - 1)
      BY Constants DEF Timer
    <3>4. ctr \in 0..(Modulus - 1) /\ int \in Nat
      BY <3>3 DEF Timer
    <3>5. timers' = [timers EXCEPT ![i] = t]
      BY <2>2 DEF WriteControl
    <3> HIDE DEF on, cas, ctr, int
    <3>6. t \in Timer
      BY <3>2, <3>3, <3>4 DEF Timer
    <3>7. t.cascade = cas
      BY <3>3 DEF Timer
    <3> HIDE DEF t
    <3>8. timers' \in [Ids -> Timer]
      BY <3>5, <3>6
    <3>9. ~timers'[0].cascade
      BY <3>2, <3>5, <3>7
    <3>10. irqs' \in SUBSET Ids /\ age' \in [Ids -> Nat]
      BY <2>2 DEF WriteControl
    <3>11. steady' \in SUBSET Ids
      BY <2>2 DEF WriteControl, SteadyAfter
    <3> QED
      BY <3>8, <3>9, <3>10, <3>11
  <2>3. ASSUME NEW n \in StepCycles, Tick(n)
        PROVE  TypeOK'
    <3>1. n \in Nat
      BY TimersAssumption
    <3> DEFINE t(i) == IF FreeRunning(i) THEN Advanced(timers[i], n)
                       ELSE IF Carried(i, n)
                            THEN [timers[i] EXCEPT !.counter = Counted(timers[i], 1)]
                            ELSE timers[i]
               a(i) == IF i \notin Kept(n) THEN 0
                       ELSE IF Cascaded(i) THEN (age[i] + Wraps(i - 1, n)) % Period(i)
                       ELSE (age[i] + n) % Period(i)
    <3>2. ASSUME NEW i \in Ids PROVE t(i) \in Timer /\ (t(i).cascade <=> timers[i].cascade)
      <4>1. timers[i] \in Timer
        OBVIOUS
      <4>2. Advanced(timers[i], n) \in Timer
        BY <3>1, <4>1, AdvancedIsTimer
      <4>3. [timers[i] EXCEPT !.counter = Counted(timers[i], 1)] \in Timer
        BY <4>1, CountedIsTimer
      <4>4. t(i) \in Timer
        BY <4>1, <4>2, <4>3
      <4>5. Advanced(timers[i], n).cascade = timers[i].cascade
        BY <4>1 DEF Advanced, Timer
      <4>6. [timers[i] EXCEPT !.counter = Counted(timers[i], 1)].cascade = timers[i].cascade
        BY <4>1 DEF Timer
      <4> QED
        BY <4>4, <4>5, <4>6
    <3>3. timers' = [i \in Ids |-> t(i)] /\ age' = [i \in Ids |-> a(i)]
      BY <2>3 DEF Tick
    <3>4. ASSUME NEW i \in Ids PROVE a(i) \in Nat
      <4>1. Period(i) \in Nat \ {0} /\ age[i] \in Nat
        BY PeriodPositive
      <4>2. (age[i] + n) % Period(i) \in Nat
        <5>1. age[i] + n \in Nat
          BY <3>1, <4>1, SMT
        <5> QED
          BY <4>1, <5>1, DivMod
      <4>3. ASSUME Cascaded(i) PROVE (age[i] + Wraps(i - 1, n)) % Period(i) \in Nat
        <5>1. i # 0
          BY <4>3 DEF Cascaded
        <5>2. i - 1 \in Ids
          BY <5>1, TimersAssumption, SMT DEF Ids
        <5>3. Wraps(i - 1, n) \in Nat
          BY <3>1, <5>2, WrapsNat
        <5>4. age[i] + Wraps(i - 1, n) \in Nat
          BY <4>1, <5>3, SMT
        <5> QED
          BY <4>1, <5>4, DivMod
      <4> QED
        BY <4>1, <4>2, <4>3
    <3>5. 0 \in Ids
      BY TimersAssumption, SMT DEF Ids
    <3> HIDE DEF t, a
    <3>6. timers' \in [Ids -> Timer] /\ ~timers'[0].cascade
      BY <3>2, <3>3, <3>5
    <3>7. age' \in [Ids -> Nat]
      BY <3>3, <3>4
    <3>8. steady' \in SUBSET Ids
      BY <2>3 DEF Tick, Kept
    <3> QED
      BY <2>3, <3>6, <3>7, <3>8 DEF Tick
  <2>4. CASE Acknowledge
    BY <2>4 DEF Acknowledge
  <2>5. CASE UNCHANGED vars
    BY <2>5 DEF vars
  <2> QED
    BY <2>1, <2>2, <2>3, <2>4, <2>5 DEF Next
<1> QED
  BY <1>1, <1>2, PTL DEF Spec

-----------------------------------------------------------------------------
(***************************************************************************)
(* Time keeping.  TimerKeepsTime is not inductive as it stands: it needs   *)
(* that a steady timer has its reload value behind it and less than one    *)
(* count's worth of cycles in hand.                                        *)
(***************************************************************************)
InStep(t, a) ==
    /\ t.reload <= t.counter
    /\ t.internal < t.prescaler
    /\ a = Given(t)

\* The same for a cascaded timer, which counts overflows.
InCount(t, a) ==
    /\ t.reload <= t.counter
    /\ a = t.counter - t.reload

Steadily ==
    \A i \in steady :
      /\ timers[i].enabled
      /\ ~timers[i].cascade => InStep(timers[i], age[i])
      /\ timers[i].cascade => InCount(timers[i], age[i])

IInv == TypeOK /\ Steadily

\* A free-running timer overflows in a step just if its counts reach the end.
LEMMA FreeOverflow ==
    ASSUME NEW i \in Ids, FreeRunning(i), NEW n \in Nat
    PROVE  Overflows(i, n) <=> timers[i].counter + Counts(timers[i], n) >= Modulus
<1> DEFINE t == timers[i]
<1>1. i \in Nat /\ i \in 0..i
  BY TimersAssumption, SMT DEF Ids
<1>2. ASSUME Overflows(i, n) PROVE t.counter + Counts(t, n) >= Modulus
  <2>1. PICK m \in 0..i : /\ FreeRunning(m)
                          /\ timers[m].counter + Counts(timers[m], n) >= Modulus
                          /\ \A k \in (m + 1)..i : Cascaded(k)
    BY <1>2 DEF Overflows
  <2>2. CASE m = i
    BY <2>1, <2>2
  <2>3. CASE m # i
    <3>1. i \in (m + 1)..i
      BY <1>1, <2>1, <2>3, SMT
    <3> QED
      BY <2>1, <3>1 DEF Cascaded, FreeRunning
  <2> QED
    BY <2>2, <2>3
<1>3. ASSUME t.counter + Counts(t, n) >= Modulus PROVE Overflows(i, n)
  <2>1. (i + 1)..i = {}
    BY <1>1, SMT
  <2> QED
    BY <1>1, <1>3, <2>1 DEF Overflows
<1> QED
  BY <1>2, <1>3

\* A timer with at most one overflow in a step has one just if Overflows says so.
LEMMA WrapsOnce ==
    ASSUME TypeOK, NEW i \in Ids, NEW n \in Nat, Wraps(i, n) <= 1
    PROVE  Wraps(i, n) = IF Overflows(i, n) THEN 1 ELSE 0
<1> DEFINE t == timers[i]
           k == t.counter + Counts(t, n)
           L == Modulus - t.reload
<1>1. CASE ~FreeRunning(i)
  BY <1>1 DEF Wraps
<1>2. CASE FreeRunning(i)
  <2>1. /\ t.counter \in 0..(Modulus - 1) /\ t.reload \in 0..(Modulus - 1)
        /\ t.internal + n \in Nat /\ t.prescaler \in Nat \ {0}
    BY Constants DEF Timer, TypeOK
  <2>2. Counts(t, n) \in Nat
    BY <2>1, DivMod DEF Counts
  <2>3. k \in Nat /\ L \in Nat \ {0}
    BY <2>1, <2>2, Constants, SMT
  <2>4. Overflows(i, n) <=> k >= Modulus
    BY <1>2, FreeOverflow
  <2> HIDE DEF k, L
  <2>5. CASE k < Modulus
    <3>1. ~(k >= Modulus)
      BY <2>3, <2>5, Constants, SMT
    <3> QED
      BY <1>2, <2>4, <2>5, <3>1 DEF Wraps, k
  <2>6. CASE ~(k < Modulus)
    <3>1. k - Modulus \in Nat /\ k >= Modulus
      BY <2>3, <2>6, Constants, SMT
    <3> DEFINE w == (k - Modulus) \div L
    <3>2. w \in Nat
      BY <2>3, <3>1, DivMod
    <3>3. Wraps(i, n) = 1 + w
      BY <1>2, <2>6 DEF Wraps, k, L
    <3> HIDE DEF w
    <3>4. 1 + w = 1
      BY <3>2, <3>3, SMT
    <3> QED
      BY <2>4, <3>1, <3>3, <3>4
  <2> QED
    BY <2>5, <2>6
<1> QED
  BY <1>1, <1>2

\* A cascaded timer that is in count is still so after a step in which the
\* timer before it overflows at most once.
LEMMA StaysInCount ==
    ASSUME IInv, NEW i \in steady, Cascaded(i), NEW n \in Nat, Wraps(i - 1, n) <= 1,
           NEW u,
           u = IF Carried(i, n) THEN [timers[i] EXCEPT !.counter = Counted(timers[i], 1)]
                                ELSE timers[i]
    PROVE  InCount(u, (age[i] + Wraps(i - 1, n)) % Period(i))
<1> DEFINE t == timers[i]
           L == Modulus - t.reload
<1>1. /\ i \in Ids /\ t \in Timer /\ InCount(t, age[i]) /\ t.cascade /\ i # 0
  BY DEF IInv, TypeOK, Steadily, Cascaded
<1>2. i - 1 \in Ids
  BY <1>1, TimersAssumption, SMT DEF Ids
<1>3. /\ t.counter \in 0..(Modulus - 1) /\ t.reload \in 0..(Modulus - 1)
      /\ age[i] = t.counter - t.reload /\ t.reload <= t.counter /\ Modulus \in Nat \ {0}
  BY <1>1, Constants DEF Timer, InCount
<1>4. L \in Nat \ {0} /\ age[i] \in Nat /\ age[i] < L
  BY <1>3, SMT
<1>5. Period(i) = L
  BY <1>1, <1>4, SMT DEF Period
<1>6. Wraps(i - 1, n) = IF Carried(i, n) THEN 1 ELSE 0
  BY <1>2, WrapsOnce DEF Carried, IInv
<1> HIDE DEF L
<1>7. CASE ~Carried(i, n)
  <2>1. (age[i] + 0) % L = age[i]
    BY <1>4, ModSmall, SMT
  <2> QED
    BY <1>1, <1>5, <1>6, <1>7, <2>1
<1>8. CASE Carried(i, n)
  <2>1. /\ u.counter = Counted(t, 1) /\ u.reload = t.reload
    BY <1>1, <1>8 DEF Timer
  <2>2. CASE t.counter + 1 < Modulus
    <3>1. Counted(t, 1) = t.counter + 1
      BY <2>2 DEF Counted
    <3>2. age[i] + 1 \in Nat /\ age[i] + 1 < L
      BY <1>3, <2>2, SMT DEF L
    <3>3. (age[i] + 1) % L = age[i] + 1
      BY <1>4, <3>2, ModSmall
    <3> QED
      BY <1>3, <1>5, <1>6, <1>8, <2>1, <3>1, <3>3, SMT DEF InCount
  <2>3. CASE ~(t.counter + 1 < Modulus)
    <3>1. age[i] + 1 = L * 1 + 0 /\ t.counter + 1 - Modulus = 0
      BY <1>3, <1>4, <2>3, SMT DEF L
    <3>2. (age[i] + 1) % L = 0
      BY <1>4, <3>1, ModUnique, SMT
    <3>3. 0 % L = 0
      BY <1>4, ModSmall, SMT
    <3>4. Counted(t, 1) = t.reload
      BY <1>3, <2>3, <3>1, <3>3, SMT DEF Counted, L
    <3> QED
      BY <1>3, <1>5, <1>6, <1>8, <2>1, <3>2, <3>4, SMT DEF InCount
  <2> QED
    BY <2>2, <2>3
<1> QED
  BY <1>7, <1>8

\* A timer that InStep finds in step is still so after n more cycles.
LEMMA StaysInStep ==
    ASSUME IInv, NEW i \in steady, FreeRunning(i), NEW n \in Nat
    PROVE  InStep(Advanced(timers[i], n), (age[i] + n) % Period(i))
<1> DEFINE t == timers[i]
<1>1. /\ t \in Timer /\ InStep(t, age[i]) /\ ~t.cascade
  BY DEF IInv, TypeOK, Steadily, FreeRunning
<1>2. /\ t.counter \in 0..(Modulus - 1) /\ t.reload \in 0..(Modulus - 1)
      /\ t.internal + n \in Nat /\ t.prescaler \in Nat \ {0}
  BY <1>1, Constants DEF Timer
<1>3. Counts(t, n) \in Nat /\ (t.internal + n) % t.prescaler < t.prescaler
  <2>1. /\ (t.internal + n) \div t.prescaler \in Nat
        /\ (t.internal + n) % t.prescaler \in 0..(t.prescaler - 1)
    BY <1>2, DivMod
  <2> QED
    BY <1>2, <2>1, SMT DEF Counts
<1>4. t.reload <= Counted(t, Counts(t, n))
  BY <1>1, <1>2, <1>3, CountedInRange DEF InStep
<1>5. /\ Advanced(t, n).counter = Counted(t, Counts(t, n))
      /\ Advanced(t, n).internal = (t.internal + n) % t.prescaler
      /\ Advanced(t, n).reload = t.reload
      /\ Advanced(t, n).prescaler = t.prescaler
  BY <1>1 DEF Advanced, Timer
<1>6. Given(Advanced(t, n)) = (Given(t) + n) % ((Modulus - t.reload) * t.prescaler)
  BY <1>1, AdvancedKeepsTime DEF InStep
<1>7. Period(i) = (Modulus - t.reload) * t.prescaler
  BY <1>1 DEF Period
<1> QED
  BY <1>1, <1>3, <1>4, <1>5, <1>6, <1>7 DEF InStep

\* The strengthened invariant holds in every state.
THEOREM StaysSteady == Spec => []IInv
<1>1. Init => Steadily
  BY DEF Init, Steadily
<1>2. TypeOK /\ TypeOK' /\ Steadily /\ [Next]_vars => Steadily'
  <2> SUFFICES ASSUME TypeOK, TypeOK', Steadily, [Next]_vars,
                      NEW j \in steady'
               PROVE  /\ timers'[j].enabled
                      /\ ~timers'[j].cascade => InStep(timers'[j], age'[j])
                      /\ timers'[j].cascade => InCount(timers'[j], age'[j])
    BY DEF Steadily
  <2>0. j \in Ids
    BY DEF TypeOK
  <2>1. ASSUME NEW i \in Ids, NEW val \in Reloads, WriteReload(i, val)
        PROVE  /\ timers'[j].enabled
               /\ ~timers'[j].cascade => InStep(timers'[j], age'[j])
               /\ timers'[j].cascade => InCount(timers'[j], age'[j])
    <3>1. j \in steady /\ j # i
      BY <2>1 DEF WriteReload
    <3>2. timers'[j] = timers[j] /\ age'[j] = age[j]
      BY <2>0, <2>1, <3>1 DEF WriteReload, TypeOK
    <3> QED
      BY <3>1, <3>2 DEF Steadily
  <2>2. ASSUME NEW i \in Ids, NEW c \in ControlValues, WriteControl(i, c)
        PROVE  /\ timers'[j].enabled
               /\ ~timers'[j].cascade => InStep(timers'[j], age'[j])
               /\ timers'[j].cascade => InCount(timers'[j], age'[j])
    <3> DEFINE t == timers[i]
               u == [t EXCEPT !.enabled = c.enabled, !.irq = c.irq,
                              !.prescaler = c.prescaler, !.cascade = Cascades(i, c),
                              !.counter = IF Starts(i, c) THEN t.reload ELSE t.counter,
                              !.internal = IF Starts(i, c) THEN 0 ELSE t.internal]
    <3>1. /\ timers' = [timers EXCEPT ![i] = u]
          /\ steady' = SteadyAfter(i, c)
          /\ age' = [age EXCEPT ![i] = IF i \in steady \cap SteadyAfter(i, c) THEN @ ELSE 0]
      BY <2>2 DEF WriteControl
    <3>2. t \in Timer /\ t.reload \in 0..(Modulus - 1)
      BY Constants DEF TypeOK, Timer
    <3>3. c.prescaler \in Nat \ {0} /\ c.enabled \in BOOLEAN /\ c.cascade \in BOOLEAN
      <4>1. c \in Control
        BY TimersAssumption
      <4> QED
        BY <4>1, Constants DEF Control
    <3>4. CASE j # i
      <4>1. j \in steady
        BY <3>1, <3>4 DEF SteadyAfter
      <4>2. timers'[j] = timers[j] /\ age'[j] = age[j]
        BY <2>0, <3>1, <3>4 DEF TypeOK
      <4> QED
        BY <4>1, <4>2 DEF Steadily
    <3>5. CASE j = i /\ c.enabled /\ ~t.enabled
      <4>1. i \notin steady
        BY <3>5 DEF Steadily
      <4>2. age'[j] = 0
        BY <3>1, <3>5, <4>1 DEF TypeOK
      <4>3. Starts(i, c)
        BY <3>5 DEF Starts
      <4>4. /\ u.enabled /\ u.counter = t.reload /\ u.reload = t.reload
            /\ u.internal = 0 /\ u.prescaler = c.prescaler
        BY <3>2, <3>5, <4>3 DEF Timer
      <4>5. timers'[j] = u
        BY <3>1, <3>5 DEF TypeOK
      <4> HIDE DEF u
      <4>6. Given(u) = 0
        BY <3>2, <3>3, <4>4, SMT DEF Given
      <4>7. InStep(u, 0)
        BY <3>2, <3>3, <4>4, <4>6, SMT DEF InStep
      <4>8. InCount(u, 0)
        BY <3>2, <4>4, SMT DEF InCount
      <4> QED
        BY <4>2, <4>4, <4>5, <4>7, <4>8
    <3>6. CASE j = i /\ ~(c.enabled /\ ~t.enabled)
      <4>1. /\ j \in steady /\ c.enabled /\ t.enabled
            /\ c.prescaler = t.prescaler
            /\ (c.cascade /\ i # 0) <=> t.cascade
            /\ i \in steady \cap SteadyAfter(i, c)
        BY <3>1, <3>6 DEF SteadyAfter
      <4>2. ~Starts(i, c)
        BY <4>1 DEF Starts
      <4>3. age'[j] = age[j] /\ timers'[j] = u
        BY <3>1, <3>6, <4>1 DEF TypeOK
      <4>4. /\ u.enabled /\ u.counter = t.counter /\ u.reload = t.reload
            /\ u.internal = t.internal /\ u.prescaler = t.prescaler
            /\ u.cascade <=> t.cascade
        BY <3>2, <4>1, <4>2 DEF Timer, Cascades
      <4> HIDE DEF u
      <4>5. /\ InStep(t, age[j]) => InStep(u, age[j])
            /\ InCount(t, age[j]) => InCount(u, age[j])
        BY <4>4 DEF InStep, InCount, Given
      <4> QED
        BY <3>6, <4>1, <4>3, <4>4, <4>5 DEF Steadily
    <3> QED
      BY <3>4, <3>5, <3>6
  <2>3. ASSUME NEW n \in StepCycles, Tick(n)
        PROVE  /\ timers'[j].enabled
               /\ ~timers'[j].cascade => InStep(timers'[j], age'[j])
               /\ timers'[j].cascade => InCount(timers'[j], age'[j])
    <3>1. n \in Nat /\ j \in steady /\ j \in Kept(n) /\ timers[j] \in Timer
          /\ timers[j].enabled
      BY <2>0, <2>3, TimersAssumption DEF Tick, TypeOK, Steadily, Kept
    <3>2. CASE FreeRunning(j)
      <4>1. timers'[j] = Advanced(timers[j], n) /\ age'[j] = (age[j] + n) % Period(j)
        BY <2>0, <2>3, <3>1, <3>2 DEF Tick, Cascaded, FreeRunning
      <4>2. Advanced(timers[j], n).enabled /\ ~Advanced(timers[j], n).cascade
        BY <3>1, <3>2 DEF Advanced, Timer, FreeRunning
      <4>3. InStep(Advanced(timers[j], n), (age[j] + n) % Period(j))
        BY <3>1, <3>2, StaysInStep DEF IInv
      <4> QED
        BY <4>1, <4>2, <4>3
    <3>3. CASE ~FreeRunning(j)
      <4> DEFINE u == IF Carried(j, n)
                      THEN [timers[j] EXCEPT !.counter = Counted(timers[j], 1)]
                      ELSE timers[j]
      <4>1. Cascaded(j) /\ Wraps(j - 1, n) <= 1
        BY <3>1, <3>3 DEF FreeRunning, Cascaded, Kept
      <4>2. timers'[j] = u /\ age'[j] = (age[j] + Wraps(j - 1, n)) % Period(j)
        BY <2>0, <2>3, <3>1, <3>3, <4>1 DEF Tick
      <4>3. u.cascade /\ u.enabled
        BY <3>1, <4>1 DEF Timer, Cascaded
      <4>4. InCount(u, (age[j] + Wraps(j - 1, n)) % Period(j))
        BY <3>1, <4>1, StaysInCount DEF IInv
      <4> QED
        BY <4>2, <4>3, <4>4
    <3> QED
      BY <3>2, <3>3
  <2>4. CASE Acknowledge
    BY <2>4 DEF Acknowledge, Steadily
  <2>5. CASE UNCHANGED vars
    BY <2>5 DEF vars, Steadily
  <2> QED
    BY <2>1, <2>2, <2>3, <2>4, <2>5 DEF Next
<1> QED
  BY <1>1, <1>2, TypeCorrect, PTL DEF Spec, IInv

\* Timers::tick neither loses nor invents a cycle of a free-running timer.
THEOREM KeepsTime == Spec => []TimerKeepsTime
<1>1. IInv => TimerKeepsTime
  BY DEF IInv, Steadily, InStep, Given, TimerKeepsTime, FreeRunning
<1> QED
  BY <1>1, StaysSteady, PTL

\* Timers::tick lets a free-running timer overflow, and so raise its interrupt,
\* in the very step that completes its period.
THEOREM OverflowIsOnTime == Spec => []OverflowsOnTime
<1>1. ASSUME IInv, NEW i \in steady, FreeRunning(i), NEW n \in StepCycles
      PROVE  Overflows(i, n) <=> age[i] + n >= Period(i)
  <2> DEFINE t == timers[i]
  <2>1. /\ i \in Ids /\ t \in Timer /\ n \in Nat /\ ~t.cascade
        /\ InStep(t, age[i])
    BY <1>1, TimersAssumption DEF IInv, TypeOK, Steadily, FreeRunning
  <2>2. Period(i) = (Modulus - t.reload) * t.prescaler
    BY <2>1 DEF Period
  <2>3. t.counter + Counts(t, n) >= Modulus <=> age[i] + n >= Period(i)
    BY <2>1, <2>2, AdvancedKeepsTime DEF InStep
  <2> QED
    BY <1>1, <2>1, <2>3, FreeOverflow
<1>2. IInv => OverflowsOnTime
  BY <1>1 DEF OverflowsOnTime
<1> QED
  BY <1>2, StaysSteady, PTL

\* A cascaded timer has counted every overflow of the timer before it, whatever
\* the length of the chain, unless two of them came in one step.
THEOREM CascadeKeepsCount == Spec => []CascadeCountsOverflows
<1>1. IInv => CascadeCountsOverflows
  BY DEF IInv, Steadily, InCount, CascadeCountsOverflows, Cascaded
<1> QED
  BY <1>1, StaysSteady, PTL


-----------------------------------------------------------------------------
(***************************************************************************)
(* The loop.                                                               *)
(***************************************************************************)
\* One more count.
LEMMA CountedNext ==
    ASSUME NEW t, NEW k \in Nat,
           t.counter \in 0..(Modulus - 1), t.reload \in 0..(Modulus - 1)
    PROVE  Counted(t, k + 1) = IF Counted(t, k) + 1 = Modulus THEN t.reload
                               ELSE Counted(t, k) + 1
<1> DEFINE a == t.counter + k - Modulus
           L == Modulus - t.reload
<1>1. Modulus \in Nat \ {0} /\ L \in Nat \ {0}
  BY TimersAssumption, SMT
<1>2. CASE t.counter + k + 1 < Modulus
  BY <1>1, <1>2, SMT DEF Counted
<1>3. CASE t.counter + k + 1 = Modulus
  <2>1. Counted(t, k) = t.counter + k
    BY <1>1, <1>3, SMT DEF Counted
  <2>2. t.counter + (k + 1) - Modulus = 0
    BY <1>1, <1>3, SMT
  <2>3. Counted(t, k + 1) = t.reload + (0 % L)
    BY <1>1, <1>3, <2>2 DEF Counted
  <2>4. 0 % L = 0
    BY <1>1, ModSmall, SMT
  <2> QED
    BY <1>1, <1>3, <2>1, <2>3, <2>4, SMT
<1>4. CASE t.counter + k >= Modulus
  <2>1. a \in Nat /\ t.counter + (k + 1) - Modulus = a + 1
    BY <1>1, <1>4, SMT
  <2>2. Counted(t, k) = t.reload + (a % L)
    BY <1>1, <1>4, SMT DEF Counted
  <2>3. Counted(t, k + 1) = t.reload + ((a + 1) % L)
    <3>1. ~(t.counter + (k + 1) < Modulus)
      BY <1>1, <1>4, SMT
    <3> QED
      BY <2>1, <3>1 DEF Counted
  <2>4. a % L \in 0..(L - 1)
    BY <1>1, <2>1, DivMod
  <2>5. /\ (a % L) + 1 < L => (a + 1) % L = (a % L) + 1
        /\ (a % L) + 1 = L => (a + 1) % L = 0
    BY <1>1, <2>1, DivStep
  <2> DEFINE r == a % L
             s == (a + 1) % L
  <2>6. /\ r \in 0..(L - 1) /\ r + 1 < L => s = r + 1
        /\ r + 1 = L => s = 0
    BY <2>4, <2>5
  <2> HIDE DEF r, s, a
  <2>7. Counted(t, k) = t.reload + r /\ Counted(t, k + 1) = t.reload + s
    BY <2>2, <2>3 DEF r, s
  <2>8. r \in 0..(L - 1)
    BY <2>4 DEF r
  <2> QED
    BY <1>1, <2>4, <2>5, <2>7, <2>8, SMT DEF r, s
<1> QED
  BY <1>1, <1>2, <1>3, <1>4, SMT

\* The timer after k turns of the loop, and whether it has overflowed.
After(u, k) ==
    [timer |-> [u EXCEPT !.internal = @ - u.prescaler * k, !.counter = Counted(u, k)],
     overflow |-> u.counter + k >= Modulus]

LEMMA CountOnceSteps ==
    ASSUME NEW u \in Timer, NEW k \in Nat
    PROVE  /\ u.prescaler * (k + 1) <= u.internal => CountOnce(After(u, k)) = After(u, k + 1)
           /\ u.internal < u.prescaler * (k + 1) => CountOnce(After(u, k)) = After(u, k)
<1> DEFINE c == Counted(u, k)
           d == Counted(u, k + 1)
           i == u.internal - u.prescaler * k
           j == u.internal - u.prescaler * (k + 1)
           t == After(u, k).timer
<1>1. /\ Modulus \in Nat \ {0} /\ u.prescaler \in Nat \ {0} /\ u.internal \in Nat
      /\ u.counter \in 0..(Modulus - 1) /\ u.reload \in 0..(Modulus - 1)
  BY Constants DEF Timer
<1>2. u.prescaler * (k + 1) = u.prescaler * k + u.prescaler /\ u.prescaler * k \in Nat
  BY <1>1, SMT
<1>3. /\ c \in 0..(Modulus - 1)
      /\ d = IF c + 1 = Modulus THEN u.reload ELSE c + 1
  BY <1>1, CountedInRange, CountedNext
<1>4. t = [u EXCEPT !.internal = i, !.counter = c]
  BY DEF After
<1>5. t.internal = i /\ t.counter = c /\ t.reload = u.reload /\ t.prescaler = u.prescaler
  BY <1>4 DEF Timer
<1>6. CountOnce(After(u, k)) =
        IF i < u.prescaler THEN After(u, k)
        ELSE [timer |-> [t EXCEPT !.internal = i - u.prescaler,
                                  !.counter = IF c + 1 = Modulus THEN u.reload ELSE c + 1],
              overflow |-> After(u, k).overflow \/ c + 1 = Modulus]
  BY <1>4, <1>5 DEF CountOnce, Timer
<1>7. ASSUME u.internal < u.prescaler * (k + 1)
      PROVE  CountOnce(After(u, k)) = After(u, k)
  <2>1. i < u.prescaler
    BY <1>1, <1>2, <1>7, SMT
  <2> QED
    BY <1>6, <2>1
<1>8. ASSUME u.prescaler * (k + 1) <= u.internal
      PROVE  CountOnce(After(u, k)) = After(u, k + 1)
  <2>1. ~(i < u.prescaler) /\ i - u.prescaler = j
    BY <1>1, <1>2, <1>8, SMT
  <2>2. [t EXCEPT !.internal = j, !.counter = d] = [u EXCEPT !.internal = j, !.counter = d]
    BY <1>4 DEF Timer
  <2>3. After(u, k + 1).timer = [u EXCEPT !.internal = j, !.counter = d]
    BY DEF After
  <2>4. (After(u, k).overflow \/ c + 1 = Modulus) <=> After(u, k + 1).overflow
    <3>1. After(u, k).overflow <=> u.counter + k >= Modulus
      BY DEF After
    <3>2. After(u, k + 1).overflow <=> u.counter + (k + 1) >= Modulus
      BY DEF After
    <3>3. u.counter + k < Modulus => c = u.counter + k
      BY DEF Counted
    <3> HIDE DEF c
    <3> QED
      BY <1>1, <1>3, <3>1, <3>2, <3>3, SMT
  <2>5. After(u, k + 1) = [timer |-> [u EXCEPT !.internal = j, !.counter = d],
                           overflow |-> After(u, k + 1).overflow]
    BY DEF After
  <2>6. (After(u, k).overflow \/ c + 1 = Modulus) \in BOOLEAN
        /\ After(u, k + 1).overflow \in BOOLEAN
    BY DEF After
  <2> HIDE DEF c, d, i, j, t
  <2>7. CountOnce(After(u, k)) =
          [timer |-> [t EXCEPT !.internal = j, !.counter = d],
           overflow |-> (After(u, k).overflow \/ c + 1 = Modulus)]
    BY <1>3, <1>6, <2>1
  <2>8. (After(u, k).overflow \/ c + 1 = Modulus) = After(u, k + 1).overflow
    BY <2>4, <2>6, Zenon
  <2> QED
    BY <2>2, <2>5, <2>7, <2>8, Zenon
<1> QED
  BY <1>7, <1>8

\* The loop ends after as many turns as there are counts in its cycles.
LEMMA CountLoopIs ==
    ASSUME NEW u \in Timer
    PROVE  CountLoop(u) = After(u, u.internal \div u.prescaler)
<1> DEFINE n == u.internal
           p == u.prescaler
           K == n \div p
           Upto(k) == IF k <= K THEN k ELSE K
           start == [timer |-> u, overflow |-> FALSE]
           Turn(g, k) == IF k = 0 THEN start ELSE CountOnce(g[k - 1])
           turn == CHOOSE g : g = [k \in 0..n |-> Turn(g, k)]
           f == [k \in 0..n |-> After(u, Upto(k))]
           S == [k \in 0..n |-> {f[k]}]
<1>1. n \in Nat /\ p \in Nat \ {0} /\ Modulus \in Nat \ {0}
      /\ u.counter \in 0..(Modulus - 1)
  BY Constants DEF Timer
<1>2. K \in Nat /\ n % p \in 0..(p - 1) /\ n = p * K + (n % p)
  BY <1>1, DivMod
<1>3. K <= n
  <2> HIDE DEF K
  <2>1. p * K >= K
    BY <1>1, <1>2, SMT
  <2> QED
    BY <1>1, <1>2, <2>1, SMT
<1>4. f[0] = start
  <2>1. 0 \in 0..n /\ Upto(0) = 0
    BY <1>1, <1>2
  <2>2. Counted(u, 0) = u.counter /\ n - p * 0 = n /\ ~(u.counter + 0 >= Modulus)
    BY <1>1, SMT DEF Counted
  <2>3. [u EXCEPT !.internal = n, !.counter = u.counter] = u
    BY DEF Timer
  <2>4. After(u, 0).timer = [u EXCEPT !.internal = n, !.counter = u.counter]
    BY <2>2 DEF After
  <2>5. After(u, 0).overflow = FALSE
    <3>1. ~After(u, 0).overflow
      BY <2>2 DEF After
    <3>2. After(u, 0).overflow \in BOOLEAN
      BY DEF After
    <3> QED
      BY <3>1, <3>2
  <2>6. After(u, 0) = [timer |-> After(u, 0).timer, overflow |-> After(u, 0).overflow]
    BY DEF After
  <2> QED
    BY <2>1, <2>3, <2>4, <2>5, <2>6
<1>5. ASSUME NEW k \in 1..n PROVE f[k] = CountOnce(f[k - 1])
  <2>1. k - 1 \in 0..n /\ k \in 0..n /\ k - 1 \in Nat /\ (k - 1) + 1 = k
    BY <1>1, SMT
  <2>2. f[k] = After(u, Upto(k)) /\ f[k - 1] = After(u, Upto(k - 1))
    BY <2>1
  <2>3. CASE k <= K
    <3>1. p * k <= n
      <4> HIDE DEF K, n, p
      <4>1. p * k <= p * K
        BY <1>1, <1>2, <2>1, <2>3, SMT
      <4> QED
        BY <1>1, <1>2, <4>1, <2>1, SMT
    <3>2. Upto(k) = k /\ Upto(k - 1) = k - 1
      BY <1>2, <2>1, <2>3, SMT
    <3>3. CountOnce(After(u, k - 1)) = After(u, k)
      BY <2>1, <3>1, CountOnceSteps
    <3> QED
      BY <2>2, <3>2, <3>3
  <2>4. CASE ~(k <= K)
    <3>1. n < p * (K + 1)
      BY <1>1, <1>2, SMT
    <3>2. Upto(k) = K /\ Upto(k - 1) = K
      BY <1>2, <2>1, <2>4, SMT
    <3>3. CountOnce(After(u, K)) = After(u, K)
      BY <1>2, <3>1, CountOnceSteps
    <3> QED
      BY <2>2, <3>2, <3>3
  <2> QED
    BY <2>3, <2>4
<1>6. f = [k \in 0..n |-> Turn(f, k)]
  <2>1. ASSUME NEW k \in 0..n PROVE f[k] = Turn(f, k)
    <3>1. k = 0 \/ (k \in 1..n /\ k # 0)
      BY <1>1, SMT
    <3> HIDE DEF f, start
    <3> QED
      BY <1>4, <1>5, <3>1
  <2>2. f = [k \in 0..n |-> f[k]]
    OBVIOUS
  <2> HIDE DEF f
  <2> QED
    BY <2>1, <2>2
<1>7. turn = [k \in 0..n |-> Turn(turn, k)]
  <2> HIDE DEF f, start
  <2> QED
    BY <1>6
<1> HIDE DEF turn, f, start, K
<1>8. \A k \in 0..n : turn[k] = Turn(turn, k)
  BY <1>7
<1>9. \A k \in 0..n : turn[k] \in S[k]
  <2>1. turn[0] \in S[0]
    BY <1>1, <1>4, <1>8
  <2>2. ASSUME NEW k \in 1..n, turn[k - 1] \in S[k - 1]
        PROVE  turn[k] \in S[k]
    <3>1. k - 1 \in 0..n /\ k \in 0..n /\ k # 0
      BY <1>1, SMT
    <3>2. turn[k - 1] = f[k - 1]
      BY <2>2, <3>1
    <3>3. turn[k] = CountOnce(turn[k - 1])
      BY <1>8, <3>1
    <3> QED
      BY <1>5, <3>1, <3>2, <3>3
  <2> HIDE DEF S, n
  <2>3. n \in Nat
    BY <1>1
  <2> QED
    BY <2>1, <2>2, <2>3, RecursionStays, Zenon
<1>10. turn[n] = f[n]
  <2>1. n \in 0..n
    BY <1>1, SMT
  <2> HIDE DEF n
  <2> QED
    BY <1>9, <2>1
<1>11. f[n] = After(u, K)
  <2>1. n \in 0..n /\ (n <= K => n = K)
    BY <1>1, <1>2, <1>3, SMT
  <2> QED
    BY <2>1 DEF f
<1>12. CountLoop(u) = turn[n]
  BY DEF CountLoop, turn, start
<1> QED
  BY <1>10, <1>11, <1>12 DEF K

\* The closed form of Timers::tick gives what its loop gives, for every timer,
\* prescaler and number of cycles.
THEOREM LoopIsClosed == Spec => []ClosedFormIsLoop
<1>1. ASSUME TypeOK, NEW i \in Ids, NEW n \in StepCycles, FreeRunning(i)
      PROVE  CountLoop([timers[i] EXCEPT !.internal = @ + n])
               = [timer |-> Advanced(timers[i], n), overflow |-> Overflows(i, n)]
  <2> DEFINE t == timers[i]
             N == t.internal + n
             u == [t EXCEPT !.internal = N]
             p == t.prescaler
             k == Counts(t, n)
  <2>1. t \in Timer /\ n \in Nat
    BY <1>1, TimersAssumption DEF TypeOK
  <2>2. N \in Nat /\ p \in Nat \ {0} /\ p \in Prescalers
    BY <2>1, Constants DEF Timer
  <2>3. u \in Timer /\ u.internal = N /\ u.prescaler = p /\ u.counter = t.counter
        /\ u.reload = t.reload
    BY <2>1, <2>2 DEF Timer
  <2>4. k = N \div p
    BY DEF Counts
  <2>5. CountLoop(u) = After(u, k)
    BY <2>3, <2>4, CountLoopIs
  <2>6. k \in Nat /\ N - p * k = N % p
    <3>1. N \div p \in Nat /\ N % p \in 0..(p - 1) /\ N = p * (N \div p) + (N % p)
      BY <2>2, DivMod
    <3> DEFINE q == N \div p
               r == N % p
               m == p * q
    <3>2. m \in Nat /\ q \in Nat /\ r \in Nat /\ N = m + r
      BY <2>2, <3>1, SMT
    <3> HIDE DEF q, r, m, N
    <3>3. N - m = r
      BY <3>2, SMT
    <3> QED
      BY <2>4, <3>2, <3>3 DEF q, r, m
  <2>7. Counted(u, k) = Counted(t, k)
    BY <2>3 DEF Counted
  <2>8. [u EXCEPT !.internal = N - p * k, !.counter = Counted(u, k)]
          = [t EXCEPT !.internal = N % p, !.counter = Counted(t, k)]
    BY <2>1, <2>6, <2>7 DEF Timer
  <2>9. Advanced(t, n) = [t EXCEPT !.internal = N % p, !.counter = Counted(t, k)]
    BY DEF Advanced
  <2>10. After(u, k).timer = Advanced(t, n)
    BY <2>3, <2>8, <2>9 DEF After
  <2>11. After(u, k).overflow = Overflows(i, n)
    <3>1. Overflows(i, n) <=> t.counter + k >= Modulus
      BY <1>1, <2>1, FreeOverflow
    <3>2. After(u, k).overflow = (t.counter + k >= Modulus)
      BY <2>3 DEF After
    <3>3. Overflows(i, n) \in BOOLEAN
      BY DEF Overflows
    <3> QED
      BY <3>1, <3>2, <3>3
  <2>12. After(u, k) = [timer |-> After(u, k).timer, overflow |-> After(u, k).overflow]
    BY DEF After
  <2> QED
    BY <2>5, <2>10, <2>11, <2>12
<1>2. TypeOK => ClosedFormIsLoop
  BY <1>1 DEF ClosedFormIsLoop
<1> QED
  BY <1>2, TypeCorrect, PTL
=============================================================================
