------------------------------- MODULE Numbers ------------------------------
(***************************************************************************)
(* Division, remainder and induction, for the proofs about timers, ring    *)
(* buffers, envelopes, addresses and recursive functions.                  *)
(***************************************************************************)
EXTENDS Integers, WellFoundedInduction, TLAPS

\* What \div and % promise.
LEMMA DivMod ==
    ASSUME NEW a \in Nat, NEW p \in Nat \ {0}
    PROVE  /\ a \div p \in Nat
           /\ a % p \in 0..(p - 1)
           /\ a = p * (a \div p) + (a % p)
BY SMT

\* A number is its own remainder below the divisor.
LEMMA ModSmall ==
    ASSUME NEW b \in Nat, NEW p \in Nat \ {0}, b < p
    PROVE  b % p = b
BY SMT

\* Quotient and remainder are unique.
LEMMA ModUnique ==
    ASSUME NEW p \in Nat \ {0}, NEW w \in Nat, NEW b \in Nat, b < p
    PROVE  (p * w + b) % p = b /\ (p * w + b) \div p = w
<1> DEFINE a == p * w + b
           q == a \div p
           r == a % p
<1>1. a \in Nat
  BY SMT
<1>2. q \in Nat /\ r \in 0..(p - 1) /\ a = p * q + r
  BY <1>1, DivMod
<1>3. p * (w - q) = r - b
  BY <1>2, SMT
<1>4. -p < p * (w - q) /\ p * (w - q) < p
  BY <1>2, <1>3, SMT
<1>5. w - q = 0
  <2> HIDE DEF q
  <2>1. q \in Nat
    BY <1>2 DEF q
  <2>2. CASE w - q >= 1
    <3>1. p * (w - q) >= p
      BY <2>1, <2>2, SMT
    <3> QED
      BY <3>1, <1>4, <2>1, SMT
  <2>3. CASE w - q <= -1
    <3>1. p * (w - q) <= -p
      BY <2>1, <2>3, SMT
    <3> QED
      BY <3>1, <1>4, <2>1, SMT
  <2> QED
    BY <2>1, <2>2, <2>3, SMT
<1>6. r = b /\ q = w
  <2> HIDE DEF q, r
  <2> QED
    BY <1>2, <1>3, <1>5, SMT
<1> QED
  BY <1>6

\* Remainders may be taken early.
LEMMA ModAdd ==
    ASSUME NEW p \in Nat \ {0}, NEW a \in Nat, NEW b \in Nat
    PROVE  ((a % p) + b) % p = (a + b) % p
<1> DEFINE q == a \div p
           r == a % p
           w == (r + b) \div p
           e == (r + b) % p
<1>1. q \in Nat /\ r \in 0..(p - 1) /\ a = p * q + r
  BY DivMod
<1>2. r + b \in Nat
  BY <1>1, SMT
<1> HIDE DEF q, r
<1>3. w \in Nat /\ e \in 0..(p - 1) /\ r + b = p * w + e
  BY <1>2, DivMod
<1> HIDE DEF w, e
<1>4. a + b = p * (q + w) + e /\ q + w \in Nat /\ e \in Nat /\ e < p
  BY <1>1, <1>3, SMT
<1>5. (a + b) % p = e
  BY <1>4, ModUnique
<1> QED
  BY <1>5 DEF e, r

\* One wrap at most: how a ring index moves.
LEMMA ModOneWrap ==
    ASSUME NEW p \in Nat \ {0}, NEW x \in 0..(2 * p - 1)
    PROVE  x % p = IF x < p THEN x ELSE x - p
<1>1. CASE x < p
  BY <1>1, ModSmall
<1>2. CASE ~(x < p)
  <2>1. x - p \in Nat /\ x - p < p /\ x = p * 1 + (x - p)
    BY <1>2, SMT
  <2>2. (p * 1 + (x - p)) % p = x - p
    BY <2>1, ModUnique
  <2> QED
    BY <1>2, <2>1, <2>2
<1> QED
  BY <1>1, <1>2

\* Counting one further: the quotient moves when the remainder starts over.
LEMMA DivStep ==
    ASSUME NEW p \in Nat \ {0}, NEW n \in Nat
    PROVE  /\ (n % p) + 1 < p => (n + 1) % p = (n % p) + 1 /\ (n + 1) \div p = n \div p
           /\ (n % p) + 1 = p => (n + 1) % p = 0 /\ (n + 1) \div p = (n \div p) + 1
<1> DEFINE q == n \div p
           r == n % p
<1>1. q \in Nat /\ r \in 0..(p - 1) /\ n = p * q + r
  BY DivMod
<1> HIDE DEF q, r
<1>2. ASSUME r + 1 < p
      PROVE  (n + 1) % p = r + 1 /\ (n + 1) \div p = q
  <2>1. n + 1 = p * q + (r + 1) /\ r + 1 \in Nat
    BY <1>1, SMT
  <2>2. (p * q + (r + 1)) % p = r + 1 /\ (p * q + (r + 1)) \div p = q
    BY <1>1, <1>2, <2>1, ModUnique
  <2> QED
    BY <2>1, <2>2
<1>3. ASSUME r + 1 = p
      PROVE  (n + 1) % p = 0 /\ (n + 1) \div p = q + 1
  <2>1. n + 1 = p * (q + 1) + 0 /\ q + 1 \in Nat
    BY <1>1, <1>3, SMT
  <2>2. 0 < p /\ 0 \in Nat
    BY SMT
  <2>3. (p * (q + 1) + 0) % p = 0 /\ (p * (q + 1) + 0) \div p = q + 1
    BY <2>1, <2>2, ModUnique
  <2> QED
    BY <2>1, <2>3
<1> QED
  BY <1>2, <1>3 DEF q, r

-----------------------------------------------------------------------------
(***************************************************************************)
(* Integers, as addresses and offsets have them.                           *)
(***************************************************************************)
\* What \div and % promise below 0, too.
LEMMA IntDivMod ==
    ASSUME NEW a \in Int, NEW p \in Nat \ {0}
    PROVE  /\ a \div p \in Int
           /\ a % p \in 0..(p - 1)
           /\ a = p * (a \div p) + (a % p)
BY SMT

\* Multiples of the divisor do not count.
LEMMA ModShift ==
    ASSUME NEW p \in Nat \ {0}, NEW w \in Int, NEW b \in 0..(p - 1)
    PROVE  (p * w + b) % p = b
<1> DEFINE a == p * w + b
           q == a \div p
           r == a % p
<1>1. a \in Int
  BY SMT
<1>2. q \in Int /\ r \in 0..(p - 1) /\ a = p * q + r
  BY <1>1, IntDivMod
<1> HIDE DEF q, r
<1>3. p * (w - q) = r - b
  BY <1>2, SMT
<1>4. -p < p * (w - q) /\ p * (w - q) < p
  BY <1>2, <1>3, SMT
<1>5. CASE w - q >= 1
  <2>1. p * (w - q) >= p
    BY <1>2, <1>5, SMT
  <2> QED
    BY <2>1, <1>4, <1>2, SMT
<1>6. CASE w - q <= -1
  <2>1. p * (w - q) <= -p
    BY <1>2, <1>6, SMT
  <2> QED
    BY <2>1, <1>4, <1>2, SMT
<1>7. CASE w = q
  BY <1>2, <1>7, SMT DEF r
<1> QED
  BY <1>5, <1>6, <1>7, <1>2, SMT

\* Remainders may be taken early.
LEMMA IntModAdd ==
    ASSUME NEW p \in Nat \ {0}, NEW a \in Int, NEW k \in Int
    PROVE  ((a % p) + k) % p = (a + k) % p
<1> DEFINE q == a \div p
           r == a % p
           s == (r + k) \div p
           t == (r + k) % p
<1>1. q \in Int /\ r \in 0..(p - 1) /\ a = p * q + r
  BY IntDivMod
<1>2. s \in Int /\ t \in 0..(p - 1) /\ r + k = p * s + t
  <2>1. r + k \in Int
    BY <1>1, SMT
  <2> QED
    BY <2>1, IntDivMod
<1> HIDE DEF q, r, s, t
<1>3. a + k = p * (q + s) + t /\ q + s \in Int
  BY <1>1, <1>2, SMT
<1>4. (a + k) % p = t
  BY <1>2, <1>3, ModShift
<1> QED
  BY <1>4 DEF r, t

-----------------------------------------------------------------------------
(***************************************************************************)
(* Induction.  The set of the numbers that have a property takes the place *)
(* of the property.                                                        *)
(***************************************************************************)
LEMMA LessThan == \A x, y : <<x, y>> \in OpToRel(<, Nat) <=> x \in Nat /\ y \in Nat /\ x < y
BY DEF OpToRel

\* A set of natural numbers with 0 and with the successor of each of its members
\* is all of them.
LEMMA SetInduction ==
    ASSUME NEW S, 0 \in S, \A n \in Nat : n \in S => n + 1 \in S
    PROVE  Nat \subseteq S
<1>1. SUFFICES ASSUME Nat \ S # {} PROVE FALSE
  OBVIOUS
<1>2. \E x \in Nat \ S : \A y \in Nat \ S : ~ (<<y, x>> \in OpToRel(<, Nat))
  BY <1>1, NatLessThanWellFounded, WFMin, Zenon
<1>3. PICK x \in Nat \ S : \A y \in Nat \ S : ~ (y < x)
  BY <1>2, LessThan, Zenon
<1>4. CASE x = 0
  BY <1>4
<1>5. CASE x # 0
  <2>1. x - 1 \in Nat /\ x - 1 < x /\ (x - 1) + 1 = x
    BY <1>5, SMT
  <2>2. x - 1 \in S
    BY <2>1, <1>3
  <2> QED
    BY <2>1, <2>2
<1> QED
  BY <1>4, <1>5

-----------------------------------------------------------------------------
(***************************************************************************)
(* Recursion over 0..n.                                                    *)
(***************************************************************************)
\* What holds at 0 and goes on from each index to the next holds everywhere: S[i]
\* is what the value at i is to be in.
LEMMA RecursionStays ==
    ASSUME NEW n \in Nat, NEW f, NEW S, f[0] \in S[0],
           \A i \in 1..n : f[i - 1] \in S[i - 1] => f[i] \in S[i]
    PROVE  \A i \in 0..n : f[i] \in S[i]
<1> DEFINE Good == {k \in Nat : k <= n => f[k] \in S[k]}
<1>1. 0 \in Good
  OBVIOUS
<1>2. ASSUME NEW k \in Nat, k \in Good PROVE k + 1 \in Good
  <2>1. k + 1 \in Nat /\ (k + 1) - 1 = k
    OBVIOUS
  <2>2. CASE k + 1 <= n
    <3>1. k + 1 \in 1..n /\ k <= n
      BY <2>2
    <3>2. f[k] \in S[k]
      BY <1>2, <3>1
    <3>3. f[k + 1] \in S[k + 1]
      BY <2>1, <3>1, <3>2
    <3> QED
      BY <2>1, <3>3
  <2> QED
    BY <2>1, <2>2
<1> HIDE DEF Good
<1>3. Nat \subseteq Good
  BY <1>1, <1>2, SetInduction
<1>4. ASSUME NEW i \in 0..n PROVE f[i] \in S[i]
  <2>1. i \in Good /\ i <= n
    BY <1>3, SMT
  <2> QED
    BY <2>1 DEF Good
<1> QED
  BY <1>4

\* A recursive function is defined if each step of it is.
Recursions(n, S, start, step) ==
    {f \in [0..n -> S] : f[0] = start /\ \A i \in 1..n : f[i] = step[i][f[i - 1]]}

LEMMA RecursionExists ==
    ASSUME NEW n \in Nat, NEW S, NEW start \in S, NEW step \in [1..n -> [S -> S]]
    PROVE  \E f : f \in Recursions(n, S, start, step)
<1> DEFINE Partial == {k \in Nat : k <= n =>
             \E f \in [0..k -> S] : f[0] = start /\ \A i \in 1..k : f[i] = step[i][f[i - 1]]}
<1>1. 0 \in Partial
  <2> DEFINE g == [i \in 0..0 |-> start]
  <2>1. g \in [0..0 -> S] /\ g[0] = start
    OBVIOUS
  <2>2. \A i \in 1..0 : g[i] = step[i][g[i - 1]]
    BY SMT
  <2> HIDE DEF g
  <2> QED
    BY <2>1, <2>2
<1>2. ASSUME NEW k \in Nat, k \in Partial PROVE k + 1 \in Partial
  <2>1. SUFFICES ASSUME k + 1 <= n
                 PROVE  \E g \in [0..(k + 1) -> S] :
                          g[0] = start /\ \A i \in 1..(k + 1) : g[i] = step[i][g[i - 1]]
    OBVIOUS
  <2>2. PICK f \in [0..k -> S] : f[0] = start /\ \A i \in 1..k : f[i] = step[i][f[i - 1]]
    BY <1>2, <2>1
  <2> DEFINE g == [i \in 0..(k + 1) |-> IF i = k + 1 THEN step[k + 1][f[k]] ELSE f[i]]
  <2>3. f[k] \in S /\ step[k + 1] \in [S -> S]
    BY <2>1, <2>2
  <2>4. g \in [0..(k + 1) -> S]
    BY <2>2, <2>3
  <2>5. g[0] = start
    BY <2>2
  <2>6. ASSUME NEW i \in 1..(k + 1) PROVE g[i] = step[i][g[i - 1]]
    <3>1. g[i - 1] = f[i - 1]
      OBVIOUS
    <3>2. CASE i = k + 1
      <4>1. i - 1 = k
        BY <3>2
      <4> QED
        BY <3>1, <3>2, <4>1
    <3>3. CASE i # k + 1
      <4>1. i \in 1..k /\ g[i] = f[i]
        BY <3>3
      <4> QED
        BY <2>2, <3>1, <4>1
    <3> QED
      BY <3>2, <3>3
  <2> HIDE DEF g
  <2> QED
    BY <2>4, <2>5, <2>6
<1> HIDE DEF Partial
<1>3. n \in Partial
  BY <1>1, <1>2, SetInduction
<1> QED
  BY <1>3 DEF Partial, Recursions

=============================================================================
