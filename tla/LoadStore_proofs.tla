-------------------------- MODULE LoadStore_proofs --------------------------
(***************************************************************************)
(* Theorems about LoadStore: the types, that memory is where the map says, *)
(* and that the program's stack is one, for every layout, size of memory   *)
(* and width of a byte.                                                    *)
(***************************************************************************)
EXTENDS LoadStore, Numbers, FiniteSetTheorems, SequenceTheorems

-----------------------------------------------------------------------------
(***************************************************************************)
(* Words and their bytes.                                                  *)
(***************************************************************************)
LEMMA Places ==
    /\ ByteValues \in Nat \ {0, 1} /\ ByteValues % 2 = 0
    /\ \A k \in 0..4 : Place(k) \in Nat \ {0} /\ Place(4 - k) \in Nat \ {0}
    /\ \A k \in 0..4 : Place(k) * Place(4 - k) = WordModulus
    /\ \A k \in 0..4 : Place(k) <= WordModulus
    /\ Place(0) = 1 /\ Place(1) = ByteValues /\ Place(2) = ByteValues * ByteValues
    /\ Place(4) = Place(2) * Place(2)
<1> DEFINE B == ByteValues
           C == B * B
<1>1. B \in Nat \ {0, 1} /\ B % 2 = 0
  BY MemoryAssumption
<1>2. C \in Nat \ {0} /\ B <= C
  BY <1>1, SMT
<1>3. /\ Place(0) = 1 /\ Place(1) = B /\ Place(2) = C /\ Place(3) = B * C /\ Place(4) = C * C
  BY DEF Place
<1>4. B * (B * C) = C * C
  BY <1>1, SMT
<1> HIDE DEF C
<1>5. B * C \in Nat \ {0} /\ C * C \in Nat \ {0} /\ (B * C) * B = C * C
  BY <1>1, <1>2, <1>4, SMT
<1>6. C <= C * C /\ B * C <= C * C
  BY <1>1, <1>2, SMT
<1>7. \A k \in 0..4 : k \in {0, 1, 2, 3, 4}
  OBVIOUS
<1>8. 4 - 0 = 4 /\ 4 - 1 = 3 /\ 4 - 2 = 2 /\ 4 - 3 = 1 /\ 4 - 4 = 0
  OBVIOUS
<1> DEFINE D == C * C
           T == B * C
<1>9. /\ 1 * D = D /\ D * 1 = D /\ B * T = D /\ T * B = D
      /\ 1 <= D /\ B <= D /\ C <= D /\ T <= D /\ D \in Nat \ {0} /\ T \in Nat \ {0}
  BY <1>1, <1>2, <1>4, <1>5, <1>6, SMT
<1>10. Place(3) = T /\ Place(4) = D
  BY <1>3
<1> HIDE DEF D, T
<1>11. WordModulus = D
  BY <1>10 DEF WordModulus
<1>12. ASSUME NEW k \in 0..4
       PROVE  /\ Place(k) \in Nat \ {0} /\ Place(4 - k) \in Nat \ {0}
              /\ Place(k) * Place(4 - k) = WordModulus
              /\ Place(k) <= WordModulus
  <2>1. CASE k = 0
    BY <1>1, <1>2, <1>3, <1>8, <1>9, <1>10, <1>11, <2>1
  <2>2. CASE k = 1
    BY <1>1, <1>2, <1>3, <1>8, <1>9, <1>10, <1>11, <2>2
  <2>3. CASE k = 2
    BY <1>1, <1>2, <1>3, <1>8, <1>9, <1>10, <1>11, <2>3 DEF D
  <2>4. CASE k = 3
    BY <1>1, <1>2, <1>3, <1>8, <1>9, <1>10, <1>11, <2>4
  <2>5. CASE k = 4
    BY <1>1, <1>2, <1>3, <1>8, <1>9, <1>10, <1>11, <2>5
  <2> QED
    BY <1>7, <2>1, <2>2, <2>3, <2>4, <2>5
<1> QED
  BY <1>1, <1>3, <1>10, <1>12 DEF C, D

\* A digit before a number.
LEMMA PlaceValue ==
    ASSUME NEW p \in Nat \ {0}, NEW q \in Nat \ {0}, NEW x \in 0..(p - 1), NEW y \in 0..(q - 1)
    PROVE  x + p * y \in 0..(p * q - 1)
<1>1. p * y \in Nat /\ p * y <= p * (q - 1)
  BY SMT
<1>2. p * (q - 1) = p * q - p /\ p * q \in Nat
  BY SMT
<1> DEFINE u == p * y
           w == p * q
<1>3. u \in Nat /\ w \in Nat /\ u <= w - p
  BY <1>1, <1>2
<1> HIDE DEF u, w
<1>4. x + u \in 0..(w - 1)
  BY <1>3, SMT
<1> QED
  BY <1>4 DEF u, w

LEMMA ByteOfTyped ==
    ASSUME NEW v \in Nat, NEW k \in 0..4
    PROVE  ByteOf(v, k) \in Byte
<1>1. Place(k) \in Nat \ {0} /\ ByteValues \in Nat \ {0}
  BY Places
<1>2. v \div Place(k) \in Nat
  BY <1>1, DivMod
<1> QED
  BY <1>1, <1>2, DivMod DEF ByteOf, Byte

LEMMA Widths == \A n \in {1, 2, 4} : n \in 0..4 /\ n \in Nat \ {0}
OBVIOUS

LEMMA JoinedTyped ==
    ASSUME NEW n \in {1, 2, 4}, NEW i \in Nat, NEW f, \A k \in 0..(n - 1) : f[i + k] \in Byte
    PROVE  Joined(f, i, n) \in 0..(Place(n) - 1)
<1> DEFINE B == ByteValues
<1>1. B \in Nat \ {0} /\ Byte = 0..(B - 1) /\ Place(1) = B /\ Place(2) = B * B
      /\ B * B \in Nat \ {0}
  BY Places DEF Byte
<1>2. 0 \in 0..(n - 1) /\ i + 0 = i
  OBVIOUS
<1>3. f[i] \in 0..(B - 1)
  BY <1>1, <1>2
<1>4. CASE n = 1
  BY <1>1, <1>3, <1>4 DEF Joined
<1>5. CASE n = 2
  <2>1. 1 \in 0..(n - 1)
    BY <1>5
  <2>2. f[i + 1] \in 0..(B - 1)
    BY <1>1, <2>1
  <2>3. f[i] + B * f[i + 1] \in 0..(B * B - 1)
    BY <1>1, <1>3, <2>2, PlaceValue
  <2>4. Joined(f, i, n) = f[i] + B * f[i + 1]
    BY <1>5 DEF Joined
  <2> QED
    BY <1>1, <1>5, <2>3, <2>4
<1>6. CASE n = 4
  <2>1. 1 \in 0..(n - 1) /\ 2 \in 0..(n - 1) /\ 3 \in 0..(n - 1)
    BY <1>6
  <2>2. f[i + 1] \in 0..(B - 1) /\ f[i + 2] \in 0..(B - 1) /\ f[i + 3] \in 0..(B - 1)
    BY <1>1, <2>1
  <2> DEFINE x == f[i + 2] + B * f[i + 3]
             y == f[i + 1] + B * x
  <2>3. x \in 0..(B * B - 1)
    BY <1>1, <2>2, PlaceValue
  <2> HIDE DEF x
  <2>4. y \in 0..(B * (B * B) - 1) /\ B * (B * B) \in Nat \ {0}
    <3>1. B * (B * B) \in Nat \ {0}
      BY <1>1, SMT
    <3> QED
      BY <1>1, <2>2, <2>3, <3>1, PlaceValue
  <2> HIDE DEF y
  <2>5. f[i] + B * y \in 0..(B * (B * (B * B)) - 1)
    BY <1>1, <1>3, <2>4, PlaceValue
  <2>6. B * (B * (B * B)) = (B * B) * (B * B)
    BY <1>1, SMT
  <2>7. Place(4) = (B * B) * (B * B)
    BY DEF Place
  <2>8. Joined(f, i, n) = f[i] + B * y
    BY <1>6 DEF Joined, x, y
  <2> QED
    BY <1>6, <2>5, <2>6, <2>7, <2>8
<1> QED
  BY <1>4, <1>5, <1>6

LEMMA RotatedTyped ==
    ASSUME NEW v \in Word, NEW k \in 0..3
    PROVE  Rotated(v, k) \in Word
<1> DEFINE p == Place(k)
           q == Place(4 - k)
           x == v \div p
           y == v % p
<1>1. p \in Nat \ {0} /\ q \in Nat \ {0} /\ p * q = WordModulus /\ k \in 0..4
  BY Places
<1>2. v \in Nat /\ v < WordModulus /\ WordModulus \in Nat
  BY Places DEF Word, WordModulus
<1> HIDE DEF p, q
<1>3. x \in Nat /\ y \in 0..(p - 1) /\ v = p * x + y
  BY <1>1, <1>2, DivMod
<1> HIDE DEF x, y
<1>4. x < q
  <2>1. CASE x >= q
    <3>1. p * x >= p * q
      BY <1>1, <1>3, <2>1, SMT
    <3>2. p * x \in Nat
      BY <1>1, <1>3
    <3> DEFINE u == p * x
    <3>3. u >= WordModulus /\ v = u + y /\ u \in Nat
      BY <1>1, <1>3, <3>1, <3>2
    <3> HIDE DEF u
    <3> QED
      BY <1>1, <1>2, <1>3, <3>3, SMT
  <2> QED
    BY <1>1, <1>3, <2>1, SMT
<1>5. x \in 0..(q - 1)
  BY <1>1, <1>3, <1>4, SMT
<1>6. x + q * y \in 0..(q * p - 1)
  BY <1>1, <1>3, <1>5, PlaceValue
<1>7. q * p = WordModulus
  BY <1>1, SMT
<1> QED
  BY <1>6, <1>7 DEF Rotated, Word, p, q, x, y

LEMMA SignExtendedTyped ==
    ASSUME NEW n \in {1, 2}, NEW v \in 0..(Place(n) - 1)
    PROVE  SignExtended(v, n) \in Word
<1>1. Place(n) \in Nat \ {0} /\ Place(n) <= WordModulus /\ WordModulus \in Nat
  BY Places DEF WordModulus
<1> QED
  BY <1>1, SMT DEF SignExtended, Word

-----------------------------------------------------------------------------
(***************************************************************************)
(* Addresses: blocks of n bytes, aligned, lie in one region, and in one    *)
(* piece.                                                                  *)
(***************************************************************************)
LEMMA Spaces ==
    /\ WordModulus \in Nat \ {0} /\ WordModulus % 4 = 0 /\ Word = 0..(WordModulus - 1)
    /\ Span \in Nat \ {0} /\ Span % 4 = 0
    /\ \A r \in Ram : Size[r] \in Nat \ {0} /\ Size[r] % 4 = 0
<1>1. WordModulus \in Nat \ {0}
  BY Places DEF WordModulus
<1>2. WordModulus % 4 = 0
  <2> DEFINE B == ByteValues
             h == B \div 2
  <2>1. B \in Nat \ {0} /\ h \in Nat /\ B = 2 * h + 0
    <3>1. B \in Nat \ {0} /\ B % 2 = 0
      BY Places
    <3> QED
      BY <3>1, DivMod
  <2> HIDE DEF h
  <2>2. B * B = 4 * (h * h) + 0
    BY <2>1, SMT
  <2>3. (B * B) * (B * B) = 4 * ((h * h) * (B * B)) + 0 /\ (h * h) * (B * B) \in Nat
    BY <2>1, <2>2, SMT
  <2>4. WordModulus = 4 * ((h * h) * (B * B)) + 0
    BY <2>3, Places DEF WordModulus
  <2> DEFINE g == (h * h) * (B * B)
  <2>5. g \in Nat /\ WordModulus = 4 * g + 0
    BY <2>3, <2>4
  <2> HIDE DEF g
  <2> QED
    BY <2>5, SMT
<1> QED
  BY <1>1, <1>2, MemoryAssumption DEF Word

\* Counting in blocks of s, themselves whole blocks of n.
Runs(n, s, a, k) ==
    /\ (a + k) % s = (a % s) + k
    /\ (a + k) \div s = a \div s
    /\ (a % s) + k \in 0..(s - 1)
    /\ (a % s) % n = 0 /\ a % s \in Nat

LEMMA RunInBlock ==
    ASSUME NEW n \in {1, 2, 4}, NEW s \in Nat \ {0}, s % 4 = 0,
           NEW a \in Nat, a % n = 0, NEW k \in 0..(n - 1)
    PROVE  Runs(n, s, a, k)
<1> DEFINE q == a \div s
           r == a % s
           t == s \div n
           b == a \div n
           d == b - t * q
<1>1. q \in Nat /\ r \in 0..(s - 1) /\ a = s * q + r
  BY DivMod
<1>2. n \in Nat \ {0} /\ s % n = 0
  BY SMT
<1>3. t \in Nat /\ s = n * t + 0
  BY <1>2, DivMod
<1>4. b \in Nat /\ a = n * b + 0
  BY <1>2, DivMod
<1> HIDE DEF q, r, t, b
<1>5. r = n * d /\ d \in Int
  <2>1. s * q = n * (t * q) /\ t * q \in Nat
    BY <1>1, <1>2, <1>3, SMT
  <2> DEFINE m == t * q
  <2>2. r = n * b - n * m /\ m \in Nat
    BY <1>1, <1>2, <1>3, <1>4, <2>1
  <2> HIDE DEF m
  <2>3. n * b - n * m = n * (b - m)
    BY <1>2, <1>4, <2>2, SMT
  <2> QED
    BY <1>4, <2>2, <2>3 DEF m
<1> HIDE DEF d
<1>6. d >= 0 /\ d <= t - 1
  <2>1. n * d >= 0 /\ n * d < n * t
    BY <1>1, <1>2, <1>3, <1>5, SMT
  <2>2. CASE n = 1
    BY <1>3, <1>5, <2>1, <2>2, SMT
  <2>3. CASE n = 2
    BY <1>3, <1>5, <2>1, <2>3, SMT
  <2>4. CASE n = 4
    BY <1>3, <1>5, <2>1, <2>4, SMT
  <2> QED
    BY <2>2, <2>3, <2>4
<1>7. r + k \in 0..(s - 1) /\ r \in Nat /\ r % n = 0 /\ r + k \in Nat /\ r + k < s
  <2>1. CASE n = 1
    BY <1>1, <1>3, <1>5, <1>6, <2>1, SMT
  <2>2. CASE n = 2
    BY <1>1, <1>3, <1>5, <1>6, <2>2, SMT
  <2>3. CASE n = 4
    BY <1>1, <1>3, <1>5, <1>6, <2>3, SMT
  <2> QED
    BY <2>1, <2>2, <2>3
<1>8. a + k = s * q + (r + k)
  <2> DEFINE m == s * q
  <2>1. m \in Nat /\ a = m + r
    BY <1>1
  <2> HIDE DEF m
  <2>2. a + k = m + (r + k)
    BY <1>1, <2>1, SMT
  <2> QED
    BY <2>2 DEF m
<1>9. (s * q + (r + k)) % s = r + k /\ (s * q + (r + k)) \div s = q
  BY <1>1, <1>7, ModUnique
<1> QED
  BY <1>7, <1>8, <1>9 DEF q, r, Runs

LEMMA AlignedTyped ==
    ASSUME NEW n \in {1, 2, 4}, NEW a \in Word
    PROVE  /\ Aligned(a, n) \in Word /\ Aligned(a, n) % n = 0
           /\ \A k \in 0..(n - 1) : Aligned(a, n) + k \in Word
           /\ \E k \in 0..(n - 1) : a = Aligned(a, n) + k
<1> DEFINE c == Aligned(a, n)
           M == WordModulus
<1>1. M \in Nat \ {0} /\ M % 4 = 0 /\ a \in 0..(M - 1)
  BY Spaces
<1>2. c = a - (a % n)
  BY DEF Aligned
<1> HIDE DEF M, c
<1>3. c \in Nat /\ c % n = 0 /\ c <= a /\ a - c \in 0..(n - 1)
  <2>1. CASE n = 1
    BY <1>1, <1>2, <2>1, SMT
  <2>2. CASE n = 2
    BY <1>1, <1>2, <2>2, SMT
  <2>3. CASE n = 4
    BY <1>1, <1>2, <2>3, SMT
  <2> QED
    BY <2>1, <2>2, <2>3
<1>4. c + (n - 1) <= M - 1
  <2>1. CASE n = 1
    BY <1>1, <1>3, <2>1, SMT
  <2>2. CASE n = 2
    BY <1>1, <1>3, <2>2, SMT
  <2>3. CASE n = 4
    BY <1>1, <1>3, <2>3, SMT
  <2> QED
    BY <2>1, <2>2, <2>3
<1>5. Word = 0..(M - 1)
  BY Spaces DEF M
<1>6. c \in Word /\ \A k \in 0..(n - 1) : c + k \in Word
  BY <1>1, <1>3, <1>4, <1>5, SMT
<1>7. a - c \in 0..(n - 1) /\ a = c + (a - c)
  BY <1>1, <1>3, SMT
<1> QED
  BY <1>3, <1>6, <1>7 DEF c

LEMMA AlignedAlready ==
    ASSUME NEW n \in {1, 2, 4}, NEW a \in Nat, a % n = 0
    PROVE  Aligned(a, n) = a
BY DEF Aligned

LEMMA RegionTyped == \A a \in Word : Region[a] \in Regions /\ Region[a] = Layout[a \div Span]
<1>1. SUFFICES ASSUME NEW a \in Word
               PROVE  Layout[a \div Span] \in Regions
  BY DEF Region
<1> DEFINE M == WordModulus
           t == M \div Span
           q == a \div Span
<1>2. M \in Nat \ {0} /\ a \in Nat /\ a < M /\ Span \in Nat \ {0} /\ M % Span = 0
  BY Spaces, MemoryAssumption
<1>3. t \in Nat /\ M = Span * t + 0
  BY <1>2, DivMod
<1>4. q \in Nat /\ a % Span \in 0..(Span - 1) /\ a = Span * q + (a % Span)
  BY <1>2, DivMod
<1>5. Layout \in [0..(t - 1) -> Regions]
  BY MemoryAssumption
<1> HIDE DEF M, t, q
<1>6. q < t
  <2> SUFFICES ASSUME q >= t PROVE FALSE
    BY <1>3, <1>4, SMT
  <2>1. Span * q >= Span * t /\ Span * q \in Nat
    BY <1>2, <1>3, <1>4, SMT
  <2> DEFINE u == Span * q
             r == a % Span
  <2>2. u \in Nat /\ r \in Nat /\ u >= M /\ a = u + r
    BY <1>2, <1>3, <1>4, <2>1
  <2> HIDE DEF u, r
  <2> QED
    BY <1>2, <2>2, SMT
<1>7. q \in 0..(t - 1)
  BY <1>3, <1>4, <1>6, SMT
<1> QED
  BY <1>5, <1>7 DEF q

LEMMA VramSizes ==
    /\ VramWindow \in Nat \ {0} /\ VramWindow % 4 = 0
    /\ \E q \in Nat \ {0} : Size["vram"] = 3 * q /\ VramWindow = 4 * q
                          /\ VramWindow \div 4 = q /\ VramWindow - Size["vram"] = q
<1> DEFINE s == Size["vram"]
           w == VramWindow
<1>1. s \in Nat \ {0} /\ s % 4 = 0 /\ w \in Nat /\ 3 * w = 4 * s
  BY MemoryAssumption DEF Ram
<1> HIDE DEF s, w
<1>2. w - s \in Nat \ {0} /\ s = 3 * (w - s) /\ w = 4 * (w - s)
  BY <1>1, SMT
<1>3. w \div 4 = w - s /\ w % 4 = 0 /\ w \in Nat \ {0}
  BY <1>1, <1>2, SMT
<1>4. \E q \in Nat \ {0} : s = 3 * q /\ w = 4 * q /\ w \div 4 = q /\ w - s = q
  BY <1>2, <1>3
<1> QED
  BY <1>3, <1>4 DEF s, w

\* Byte k of a block of n bytes lies next to the others.
Beside(n, a, k) ==
    /\ Region[a + k] = Region[a]
    /\ Region[a] \in Ram => /\ Index[a + k] = Index[a] + k
                            /\ Index[a] + k \in 0..(Size[Region[a]] - 1)
                            /\ Index[a] \in Nat /\ Index[a] % n = 0

LEMMA IndexRuns ==
    ASSUME NEW n \in {1, 2, 4}, NEW a \in Word, a % n = 0, NEW k \in 0..(n - 1), a + k \in Word
    PROVE  Beside(n, a, k)
<1> DEFINE r == Region[a]
<1>1. a \in Nat
  BY Spaces
<1>2. r = Region[a + k]
  <2>1. (a + k) \div Span = a \div Span
    <3>1. Span \in Nat \ {0} /\ Span % 4 = 0 /\ a % n = 0
      BY Spaces
    <3>2. Runs(n, Span, a, k)
      BY <1>1, <3>1, RunInBlock, Zenon
    <3> QED
      BY <3>2 DEF Runs
  <2> QED
    BY <2>1, RegionTyped
<1>3. CASE r \in Ram \ {"vram"}
  <2>1. Index[a] = a % Size[r] /\ Index[a + k] = (a + k) % Size[r]
    BY <1>2, <1>3 DEF Index
  <2>2. Size[r] \in Nat \ {0} /\ Size[r] % 4 = 0
    BY <1>3, Spaces
  <2> DEFINE s == Size[r]
  <2> HIDE DEF s
  <2>3. /\ (a + k) % s = (a % s) + k
        /\ (a % s) + k \in 0..(s - 1)
        /\ (a % s) % n = 0 /\ a % s \in Nat
    <3>1. s \in Nat \ {0} /\ s % 4 = 0 /\ a % n = 0
      BY <2>2 DEF s
    <3>2. Runs(n, s, a, k)
      BY <1>1, <3>1, RunInBlock, Zenon
    <3> QED
      BY <3>2 DEF Runs
  <2> QED
    BY <1>2, <2>1, <2>3 DEF s, Beside
<1>4. CASE r = "vram"
  <2> DEFINE s == Size["vram"]
             w == VramWindow
             x == a % w
  <2>1. PICK q \in Nat \ {0} : s = 3 * q /\ w = 4 * q /\ w - s = q
    BY VramSizes
  <2>2. w \in Nat \ {0} /\ w % 4 = 0 /\ s % 4 = 0
    BY VramSizes, Spaces DEF Ram
  <2> HIDE DEF w
  <2>3. (a + k) % w = x + k /\ x + k \in 0..(w - 1) /\ x % n = 0 /\ x \in Nat
    <3>1. Runs(n, w, a, k)
      BY <1>1, <2>2, RunInBlock, Zenon
    <3> QED
      BY <3>1 DEF Runs
  <2>4. Index[a] = (IF x >= s THEN x - q ELSE x)
        /\ Index[a + k] = (IF x + k >= s THEN x + k - q ELSE x + k)
    <3>1. Index[a] = VramMirror(a) /\ Index[a + k] = VramMirror(a + k)
      BY <1>2, <1>4 DEF Index
    <3>2. VramMirror(a) = (IF x >= s THEN x - (w - s) ELSE x)
      BY DEF VramMirror, w
    <3>3. VramMirror(a + k) = (IF x + k >= s THEN x + k - (w - s) ELSE x + k)
      <4> DEFINE y == (a + k) % w
      <4>1. VramMirror(a + k) = (IF y >= s THEN y - (w - s) ELSE y)
        BY DEF VramMirror, w
      <4>2. y = x + k /\ y \in Nat /\ x \in Nat /\ k \in Nat /\ w \in Nat /\ s \in Nat
        BY <2>1, <2>2, <2>3
      <4> HIDE DEF x, y, s
      <4> QED
        BY <4>1, <4>2
    <3> QED
      BY <2>1, <3>1, <3>2, <3>3
  <2> DEFINE i == Index[a]
             j == Index[a + k]
  <2> HIDE DEF x, s, i, j
  <2>5. j = i + k /\ i + k \in 0..(s - 1) /\ i \in Nat /\ i % n = 0
    <3>1. i = (IF x >= s THEN x - q ELSE x) /\ j = (IF x + k >= s THEN x + k - q ELSE x + k)
      BY <2>4 DEF i, j
    <3>2. x \in Nat /\ x % n = 0 /\ x + k < w
      BY <2>2, <2>3, SMT
    <3>3. CASE n = 1
      BY <2>1, <2>2, <3>1, <3>2, <3>3, SMT
    <3>4. CASE n = 2
      BY <2>1, <2>2, <3>1, <3>2, <3>4, SMT
    <3>5. CASE n = 4
      BY <2>1, <2>2, <3>1, <3>2, <3>5, SMT
    <3> QED
      BY <3>3, <3>4, <3>5
  <2> QED
    BY <1>2, <1>4, <2>5 DEF i, j, s, Beside
<1>5. CASE r \notin Ram
  BY <1>2, <1>5 DEF Beside
<1> QED
  BY <1>3, <1>4, <1>5 DEF Beside

\* The same for one byte.
LEMMA IndexTyped ==
    ASSUME NEW a \in Word, Region[a] \in Ram
    PROVE  Index[a] \in 0..(Size[Region[a]] - 1)
<1>1. a % 1 = 0 /\ 0 \in 0..(1 - 1) /\ a + 0 = a
  BY Spaces, SMT
<1>2. Index[a] \in Nat /\ Index[a] + 0 \in 0..(Size[Region[a]] - 1)
  BY <1>1, IndexRuns DEF Beside
<1> QED
  BY <1>2

-----------------------------------------------------------------------------
(***************************************************************************)
(* What is read and written.                                               *)
(***************************************************************************)
LEMMA ZeroIsByte == 0 \in Byte
BY Places, SMT DEF Byte

LEMMA RomReadTyped ==
    ASSUME NEW offset \in Nat, NEW n \in {1, 2, 4}
    PROVE  RomRead(offset, n) \in 0..(Place(n) - 1)
<1>1. Place(n) \in Nat \ {0}
  BY Places
<1>2. CASE offset + n <= Len(Rom)
  <2>1. Rom \in Seq(Byte)
    BY MemoryAssumption
  <2>2. \A k \in 0..(n - 1) : offset + 1 + k \in 1..Len(Rom)
    <3>1. Len(Rom) \in Nat
      BY <2>1, LenProperties
    <3> QED
      BY <1>2, <3>1
  <2>3. \A k \in 0..(n - 1) : Rom[offset + 1 + k] \in Byte
    BY <2>1, <2>2, ElementOfSeq
  <2>4. Joined(Rom, offset + 1, n) \in 0..(Place(n) - 1)
    BY <2>3, JoinedTyped
  <2> QED
    BY <1>2, <2>4 DEF RomRead
<1>3. CASE ~(offset + n <= Len(Rom))
  BY <1>1, <1>3 DEF RomRead
<1> QED
  BY <1>2, <1>3

LEMMA ReadTyped ==
    ASSUME NEW m, IsMemory(m), NEW a \in Word, NEW n \in {1, 2, 4}
    PROVE  Read(m, a, n) \in 0..(Place(n) - 1)
<1> DEFINE c == Aligned(a, n)
           r == Region[c]
<1>1. /\ c \in Word /\ c % n = 0 /\ r \in Regions
      /\ \A k \in 0..(n - 1) : c + k \in Word
  BY AlignedTyped, RegionTyped
<1>2. Place(n) \in Nat \ {0}
  BY Places
<1> HIDE DEF c
<1>3. Read(m, a, n) =
        CASE r = "open" -> 0
          [] r = "rom" -> RomRead(c % (2 * Span), n)
          [] r = "sram" -> Replicated(m.sram[Index[c]], n)
          [] OTHER -> Joined(m[r], Index[c], n)
  BY DEF Read, c
<1>4. CASE r = "open"
  BY <1>2, <1>3, <1>4
<1>5. CASE r = "rom"
  <2>1. c \in Nat /\ 2 * Span \in Nat \ {0}
    BY <1>1, Spaces
  <2>2. c % (2 * Span) \in Nat
    BY <2>1, DivMod
  <2>3. RomRead(c % (2 * Span), n) \in 0..(Place(n) - 1)
    BY <2>2, RomReadTyped
  <2> QED
    BY <1>3, <1>5, <2>3
<1>6. CASE r = "sram"
  <2> DEFINE b == m.sram[Index[c]]
  <2>1. r \in Ram /\ m["sram"] \in [0..(Size["sram"] - 1) -> Byte]
    BY <1>6 DEF Ram, IsMemory
  <2>2. Index[c] \in 0..(Size["sram"] - 1)
    BY <1>1, <1>6, <2>1, IndexTyped
  <2>3. b \in Byte
    BY <2>1, <2>2
  <2> HIDE DEF b
  <2> DEFINE f == [k \in 0..3 |-> b]
  <2>4. \A k \in 0..(n - 1) : f[0 + k] \in Byte
    BY <2>3
  <2>5. Joined(f, 0, n) \in 0..(Place(n) - 1)
    <3> HIDE DEF f
    <3> QED
      BY <2>4, JoinedTyped, 0 \in Nat
  <2> QED
    BY <1>3, <1>6, <2>5 DEF Replicated, b
<1>7. CASE r \notin {"open", "rom", "sram"}
  <2>1. r \in Ram /\ m[r] \in [0..(Size[r] - 1) -> Byte]
    BY <1>1, <1>7 DEF Regions, Ram, IsMemory
  <2>2. \A k \in 0..(n - 1) : Index[c] + k \in 0..(Size[r] - 1)
    <3>1. ASSUME NEW k \in 0..(n - 1) PROVE Index[c] + k \in 0..(Size[r] - 1)
      BY <1>1, <2>1, IndexRuns DEF Beside
    <3> QED
      BY <3>1
  <2>3. Index[c] \in Nat
    <3>1. 0 \in 0..(n - 1) /\ c + 0 \in Word
      BY <1>1, SMT
    <3> QED
      BY <1>1, <2>1, <3>1, IndexRuns DEF Beside
  <2> HIDE DEF r
  <2>4. \A k \in 0..(n - 1) : m[r][Index[c] + k] \in Byte
    BY <2>1, <2>2
  <2>5. Joined(m[r], Index[c], n) \in 0..(Place(n) - 1)
    BY <2>3, <2>4, JoinedTyped
  <2> QED
    BY <1>3, <1>7, <2>5
<1> QED
  BY <1>4, <1>5, <1>6, <1>7

LEMMA ReadIsWord ==
    ASSUME NEW m, IsMemory(m), NEW a \in Word, NEW n \in {1, 2, 4}
    PROVE  Read(m, a, n) \in Word
<1>1. Read(m, a, n) \in 0..(Place(n) - 1)
  BY ReadTyped
<1>2. Place(n) \in Nat \ {0} /\ Place(n) <= WordModulus
  <2>1. n \in 0..4
    OBVIOUS
  <2> QED
    BY <2>1, Places, Zenon
<1>3. WordModulus \in Nat
  BY Spaces
<1> QED
  BY <1>1, <1>2, <1>3, SMT DEF Word

LEMMA LoadedTyped ==
    ASSUME NEW m, IsMemory(m), NEW a \in Word, NEW what \in Kinds
    PROVE  Loaded(m, what, a) \in Word
<1>1. CASE what = "word"
  <2>1. a % 4 \in 0..3
    BY Spaces, SMT
  <2>2. Read(m, a, 4) \in Word
    BY ReadIsWord
  <2> QED
    BY <1>1, <2>1, <2>2, RotatedTyped DEF Loaded
<1>2. CASE what = "byte"
  BY <1>2, ReadIsWord DEF Loaded
<1>3. CASE what = "half"
  BY <1>3, ReadIsWord DEF Loaded
<1>4. CASE what = "signed byte" \/ (what = "signed half" /\ a % 2 = 1)
  BY <1>4, ReadTyped, SignExtendedTyped DEF Loaded
<1>5. CASE what = "signed half" /\ a % 2 = 0
  BY <1>5, ReadTyped, SignExtendedTyped DEF Loaded
<1>6. a % 2 = 0 \/ a % 2 = 1
  BY Spaces, SMT
<1> QED
  BY <1>1, <1>2, <1>3, <1>4, <1>5, <1>6 DEF Kinds

LEMMA PlacedTyped ==
    ASSUME NEW s \in Nat, NEW f \in [0..(s - 1) -> Byte], NEW first \in Nat,
           NEW n \in {1, 2, 4}, NEW v \in Nat
    PROVE  Placed(f, first, n, v) \in [0..(s - 1) -> Byte]
<1>1. ASSUME NEW i \in 0..(s - 1), i - first \in 0..(n - 1)
      PROVE  ByteOf(v, i - first) \in Byte
  <2>1. i - first \in 0..4
    BY <1>1
  <2> QED
    BY <2>1, ByteOfTyped
<1> QED
  BY <1>1 DEF Placed

\* Which memory a store reaches, where, and with how many bytes of what.
Reached(a, n) == Region[Aligned(a, n)]
Lost(a, n) == Reached(a, n) \notin Ram \/ (Reached(a, n) = "oam" /\ n = 1)
Doubled(a, n) == Reached(a, n) \in {"palette", "vram"} /\ n = 1
Start(a, n) == IF Doubled(a, n) THEN Aligned(Index[Aligned(a, n)], 2) ELSE Index[Aligned(a, n)]
Cells(a, n) == IF Reached(a, n) = "sram" THEN 1 ELSE IF Doubled(a, n) THEN 2 ELSE n
Data(a, n, v) == IF Doubled(a, n) THEN (v % ByteValues) * (ByteValues + 1)
                 ELSE IF n = 1 THEN v % ByteValues ELSE v

Written(m, a, n, v) ==
    LET r == Reached(a, n)
    IN  [m EXCEPT ![r] = Placed(m[r], Start(a, n), Cells(a, n), Data(a, n, v))]

LEMMA WriteIs ==
    ASSUME NEW m, NEW a \in Word, NEW n \in {1, 2, 4}, NEW v \in Nat
    PROVE  Write(m, a, n, v) = IF Lost(a, n) THEN m ELSE Written(m, a, n, v)
<1> DEFINE c == Aligned(a, n)
           r == Reached(a, n)
<1>1. c \in Word /\ r \in Regions /\ r = Region[c]
  BY AlignedTyped, RegionTyped DEF Reached
<1>2. CASE n = 1
  <2>1. c = a
    <3>1. a \in Nat
      BY Spaces
    <3> QED
      BY <1>2, <3>1, SMT DEF Aligned
  <2> DEFINE w == v % ByteValues
  <2>2. Write(m, a, n, v) = Write8(m, c, w)
    BY <1>2, <2>1 DEF Write
  <2>3. Write8(m, c, w) =
          CASE r \in {"iwram", "ewram", "sram"} -> [m EXCEPT ![r] = Placed(m[r], Index[c], 1, w)]
            [] r \in {"palette", "vram"} ->
                 [m EXCEPT ![r] = Placed(m[r], Aligned(Index[c], 2), 2, w * (ByteValues + 1))]
            [] OTHER -> m
    BY <1>1 DEF Write8
  <2>4. CASE r \in {"iwram", "ewram", "sram"}
    <3>1. ~Lost(a, n) /\ ~Doubled(a, n) /\ Start(a, n) = Index[c] /\ Cells(a, n) = 1
          /\ Data(a, n, v) = w
      BY <1>2, <2>4 DEF Lost, Doubled, Start, Cells, Data, Ram
    <3> HIDE DEF c, w, r
    <3> QED
      BY <2>2, <2>3, <2>4, <3>1 DEF r, Written
  <2>5. CASE r \in {"palette", "vram"}
    <3>1. ~Lost(a, n) /\ Doubled(a, n) /\ Start(a, n) = Aligned(Index[c], 2)
          /\ Cells(a, n) = 2 /\ Data(a, n, v) = w * (ByteValues + 1)
      BY <1>2, <2>5 DEF Lost, Doubled, Start, Cells, Data, Ram
    <3> HIDE DEF c, w, r
    <3> QED
      BY <2>2, <2>3, <2>5, <3>1 DEF r, Written
  <2>6. CASE r \notin {"iwram", "ewram", "sram", "palette", "vram"}
    <3>1. Lost(a, n)
      BY <1>1, <1>2, <2>6 DEF Lost, Ram, Regions
    <3> HIDE DEF c, w, r
    <3> QED
      BY <2>2, <2>3, <2>6, <3>1
  <2> QED
    BY <2>4, <2>5, <2>6
<1>3. CASE n # 1
  <2>1. Write(m, a, n, v) =
          CASE r = "sram" -> [m EXCEPT !["sram"] = Placed(m["sram"], Index[c], 1, v)]
            [] r \in Ram \ {"sram"} -> [m EXCEPT ![r] = Placed(m[r], Index[c], n, v)]
            [] OTHER -> m
    BY <1>1, <1>3 DEF Write, WriteWide
  <2>2. ~Doubled(a, n) /\ Start(a, n) = Index[c] /\ Data(a, n, v) = v
        /\ Cells(a, n) = IF r = "sram" THEN 1 ELSE n
    BY <1>3 DEF Doubled, Start, Cells, Data
  <2>3. Lost(a, n) <=> r \notin Ram
    BY <1>3 DEF Lost
  <2> HIDE DEF c, r
  <2>4. CASE r = "sram"
    BY <2>1, <2>2, <2>3, <2>4 DEF Ram, r, Written
  <2>5. CASE r \in Ram \ {"sram"}
    BY <2>1, <2>2, <2>3, <2>5 DEF r, Written
  <2>6. CASE r \notin Ram
    <3>1. r # "sram"
      BY <2>6 DEF Ram
    <3> QED
      BY <2>1, <2>3, <2>6, <3>1
  <2> QED
    BY <2>4, <2>5, <2>6
<1> QED
  BY <1>2, <1>3

-----------------------------------------------------------------------------
(***************************************************************************)
(* The cells that a store writes, and the addresses that it covers.        *)
(***************************************************************************)
Base(a, n) == IF Doubled(a, n) THEN Aligned(a, 2) ELSE Aligned(a, n)

LEMMA ReachedFacts ==
    ASSUME NEW a \in Word, NEW n \in {1, 2, 4}
    PROVE  Reached(a, n) = Region[a] /\ Region[a] \in Regions /\ (n = 1 => Aligned(a, n) = a)
<1>1. /\ Aligned(a, n) \in Word /\ Aligned(a, n) % n = 0
      /\ \A k \in 0..(n - 1) : Aligned(a, n) + k \in Word
  BY AlignedTyped
<1>2. PICK k \in 0..(n - 1) : a = Aligned(a, n) + k
  BY AlignedTyped
<1>3. Aligned(a, n) + k \in Word
  BY <1>1
<1>4. Region[Aligned(a, n) + k] = Region[Aligned(a, n)]
  <2> DEFINE c == Aligned(a, n)
  <2>1. c \in Word /\ c % n = 0 /\ c + k \in Word
    BY <1>1, <1>3
  <2> HIDE DEF c
  <2>2. Beside(n, c, k)
    BY <2>1, IndexRuns, Zenon
  <2> QED
    BY <2>2 DEF Beside, c
<1>5. n = 1 => Aligned(a, n) = a
  BY Spaces, SMT DEF Aligned
<1> QED
  BY <1>2, <1>4, <1>5, RegionTyped DEF Reached

LEMMA CellsTyped ==
    ASSUME NEW a \in Word, NEW n \in {1, 2, 4}
    PROVE  Cells(a, n) \in {1, 2, 4} /\ (~Doubled(a, n) => Cells(a, n) <= n)
           /\ (Doubled(a, n) => Cells(a, n) = 2)
BY DEF Cells, Doubled

LEMMA CoveredIs ==
    ASSUME NEW a \in Word, NEW n \in {1, 2, 4}
    PROVE  /\ Lost(a, n) => DOMAIN Covered(a, n) = {}
           /\ ~Lost(a, n) =>
                Covered(a, n) = [b \in Base(a, n)..(Base(a, n) + Cells(a, n) - 1) |->
                                   IF Doubled(a, n) THEN 0 ELSE b - Base(a, n)]
<1> DEFINE r == Region[a]
           c == Aligned(a, n)
           d == Aligned(a, 2)
<1>1. Reached(a, n) = r
  BY ReachedFacts
<1>2. Covered(a, n) =
        CASE r \notin Ram \/ (r = "oam" /\ n = 1) -> [b \in {} |-> 0]
          [] r \in {"palette", "vram"} /\ n = 1 -> [b \in d..(d + 1) |-> 0]
          [] r = "sram" -> [b \in {c} |-> 0]
          [] OTHER -> [b \in c..(c + n - 1) |-> b - c]
  BY DEF Covered
<1>3. c \in Int /\ d \in Int
  <2>1. c \in Word /\ d \in Word
    BY AlignedTyped
  <2> QED
    BY <2>1, Spaces, SMT
<1> HIDE DEF r, c, d
<1>4. CASE r \notin Ram \/ (r = "oam" /\ n = 1)
  <2>1. Lost(a, n)
    BY <1>1, <1>4 DEF Lost
  <2>2. Covered(a, n) = [b \in {} |-> 0]
    <3>1. ~(r \in {"palette", "vram"} /\ n = 1) /\ r # "sram"
      BY <1>4 DEF Ram
    <3> QED
      BY <1>2, <1>4, <3>1
  <2> QED
    BY <2>1, <2>2
<1>5. CASE r \in {"palette", "vram"} /\ n = 1
  <2>1. ~Lost(a, n) /\ Doubled(a, n) /\ Cells(a, n) = 2 /\ Base(a, n) = d
    BY <1>1, <1>5 DEF Lost, Doubled, Cells, Base, Ram, d
  <2>2. Covered(a, n) = [b \in d..(d + 1) |-> 0]
    BY <1>2, <1>5 DEF Ram
  <2>3. d + 2 - 1 = d + 1
    BY <1>3
  <2> QED
    BY <2>1, <2>2, <2>3
<1>6. CASE r = "sram"
  <2>1. ~Lost(a, n) /\ ~Doubled(a, n) /\ Cells(a, n) = 1 /\ Base(a, n) = c
    BY <1>1, <1>6 DEF Lost, Doubled, Cells, Base, Ram, c
  <2>2. Covered(a, n) = [b \in {c} |-> 0]
    BY <1>2, <1>6 DEF Ram
  <2>3. c..(c + 1 - 1) = {c} /\ \A b \in {c} : b - c = 0
    BY <1>3
  <2>4. [b \in {c} |-> 0] = [b \in c..(c + 1 - 1) |-> b - c]
    BY <2>3
  <2> QED
    BY <2>1, <2>2, <2>4
<1>7. CASE r \in Ram /\ ~(r = "oam" /\ n = 1) /\ ~(r \in {"palette", "vram"} /\ n = 1)
           /\ r # "sram"
  <2>1. ~Lost(a, n) /\ ~Doubled(a, n) /\ Cells(a, n) = n /\ Base(a, n) = c
    BY <1>1, <1>7 DEF Lost, Doubled, Cells, Base, c
  <2>2. Covered(a, n) = [b \in c..(c + n - 1) |-> b - c]
    BY <1>2, <1>7
  <2> QED
    BY <2>1, <2>2
<1> QED
  BY <1>4, <1>5, <1>6, <1>7

LEMMA CellsRun ==
    ASSUME NEW a \in Word, NEW n \in {1, 2, 4}, ~Lost(a, n)
    PROVE  /\ Start(a, n) \in Nat /\ Reached(a, n) \in Ram
           /\ \A k \in 0..(Cells(a, n) - 1) :
                /\ Base(a, n) + k \in Word
                /\ Region[Base(a, n) + k] = Reached(a, n)
                /\ Index[Base(a, n) + k] = Start(a, n) + k
                /\ Start(a, n) + k \in 0..(Size[Reached(a, n)] - 1)
<1> DEFINE r == Reached(a, n)
<1>1. r = Region[a] /\ r \in Ram
  BY ReachedFacts DEF Lost
<1>2. CASE ~Doubled(a, n)
  <2> DEFINE c == Aligned(a, n)
  <2>1. c \in Word /\ c % n = 0 /\ \A k \in 0..(n - 1) : c + k \in Word
    BY AlignedTyped
  <2>2. Base(a, n) = c /\ Start(a, n) = Index[c] /\ Region[c] = r
    BY <1>2 DEF Base, Start, Reached
  <2> HIDE DEF c
  <2>3. ASSUME NEW k \in 0..(n - 1)
        PROVE  /\ c + k \in Word /\ Region[c + k] = r /\ Index[c + k] = Index[c] + k
               /\ Index[c] + k \in 0..(Size[r] - 1) /\ Index[c] \in Nat
    <3>1. c + k \in Word
      BY <2>1
    <3>2. Beside(n, c, k)
      BY <2>1, <3>1, IndexRuns, Zenon
    <3> QED
      BY <1>1, <2>2, <3>1, <3>2 DEF Beside
  <2>4. Cells(a, n) \in {1, 2, 4} /\ Cells(a, n) <= n
    BY <1>2, CellsTyped
  <2>5. 0 \in 0..(n - 1) /\ \A k \in 0..(Cells(a, n) - 1) : k \in 0..(n - 1)
    BY <2>4, SMT
  <2>6. Index[c] \in Nat
    BY <2>3, <2>5
  <2> QED
    BY <1>1, <2>2, <2>3, <2>5, <2>6
<1>3. CASE Doubled(a, n)
  <2> DEFINE d == Aligned(a, 2)
  <2>1. d \in Word /\ d % 2 = 0 /\ \A k \in 0..(2 - 1) : d + k \in Word
    BY AlignedTyped
  <2>2. PICK j \in 0..(2 - 1) : a = d + j
    BY AlignedTyped
  <2>3. n = 1 /\ Aligned(a, n) = a
    BY <1>3, ReachedFacts DEF Doubled
  <2> HIDE DEF d
  <2>4. d + j \in Word
    BY <2>1
  <2>5. Region[d] = r
    BY <1>1, <2>1, <2>2, <2>4, IndexRuns, 2 \in {1, 2, 4} DEF Beside
  <2>6. ASSUME NEW k \in 0..(2 - 1)
        PROVE  /\ d + k \in Word /\ Region[d + k] = r /\ Index[d + k] = Index[d] + k
               /\ Index[d] + k \in 0..(Size[r] - 1) /\ Index[d] \in Nat /\ Index[d] % 2 = 0
    <3>1. d + k \in Word
      BY <2>1
    <3> QED
      BY <1>1, <2>1, <2>5, <3>1, IndexRuns, 2 \in {1, 2, 4} DEF Beside
  <2>7. Index[a] = Index[d] + j /\ Index[d] \in Nat /\ Index[d] % 2 = 0
    BY <2>2, <2>6
  <2> DEFINE i == Index[d]
             h == Index[a]
  <2>8. Aligned(h, 2) = i
    <3>1. h = i + j /\ i \in Nat /\ i % 2 = 0
      BY <2>7
    <3> HIDE DEF h, i
    <3> QED
      BY <3>1, SMT DEF Aligned
  <2>9. Base(a, n) = d /\ Start(a, n) = Index[d] /\ Cells(a, n) = 2
    BY <1>3, <2>3, <2>8, CellsTyped DEF Base, Start, d
  <2> QED
    BY <1>1, <2>6, <2>7, <2>9
<1> QED
  BY <1>2, <1>3

\* The bytes that go there.
LEMMA DataBytes ==
    ASSUME NEW a \in Word, NEW n \in {1, 2, 4}, ~Lost(a, n), NEW v \in Nat,
           NEW k \in 0..(Cells(a, n) - 1)
    PROVE  /\ ByteOf(Data(a, n, v), k) = ByteOf(v, IF Doubled(a, n) THEN 0 ELSE k)
           /\ ByteOf(v, IF Doubled(a, n) THEN 0 ELSE k) \in Byte
<1> DEFINE B == ByteValues
           w == v % B
<1>1. B \in Nat \ {0, 1} /\ w \in 0..(B - 1) /\ Place(0) = 1 /\ Place(1) = B
  <2>1. B \in Nat \ {0, 1} /\ Place(0) = 1 /\ Place(1) = B
    BY Places
  <2> QED
    BY <2>1, DivMod
<1>2. ByteOf(v, 0) = w
  <2>1. v \div 1 = v
    BY SMT
  <2> QED
    BY <1>1, <2>1 DEF ByteOf
<1>3. w % B = w
  BY <1>1, ModSmall, SMT
<1>4. k \in 0..4
  BY CellsTyped
<1>5. CASE Doubled(a, n)
  <2>1. Data(a, n, v) = w * (B + 1) /\ k \in {0, 1}
    <3>1. Cells(a, n) = 2
      BY <1>5, CellsTyped
    <3> QED
      BY <1>5, <3>1 DEF Data
  <2> HIDE DEF w, B
  <2>2. w * (B + 1) = B * w + w /\ w \in Nat /\ w < B /\ B \in Nat \ {0}
    BY <1>1, SMT
  <2>3. (B * w + w) % B = w /\ (B * w + w) \div B = w
    BY <2>2, ModUnique
  <2>4. CASE k = 0
    <3>1. ByteOf(Data(a, n, v), k) = ((B * w + w) \div 1) % B
      BY <1>1, <2>1, <2>2, <2>4 DEF ByteOf, B
    <3>2. (B * w + w) \div 1 = B * w + w
      <4>1. B * w + w \in Nat
        BY <2>2
      <4> DEFINE u == B * w + w
      <4> HIDE DEF u
      <4>2. u \div 1 = u
        BY <4>1, SMT DEF u
      <4> QED
        BY <4>2 DEF u
    <3> QED
      BY <1>2, <1>4, <1>5, <2>3, <2>4, <3>1, <3>2, ByteOfTyped, 0 \in 0..4
  <2>5. CASE k = 1
    <3>1. ByteOf(Data(a, n, v), k) = ((B * w + w) \div B) % B
      BY <1>1, <2>1, <2>2, <2>5 DEF ByteOf, B
    <3> QED
      BY <1>2, <1>3, <1>5, <2>3, <3>1, ByteOfTyped, 0 \in 0..4
  <2> QED
    BY <2>1, <2>4, <2>5
<1>6. CASE ~Doubled(a, n) /\ n = 1
  <2>1. Data(a, n, v) = w /\ k = 0
    <3>1. Cells(a, n) \in {1, 2, 4} /\ Cells(a, n) <= 1
      BY <1>6, CellsTyped
    <3> QED
      BY <1>6, <3>1 DEF Data
  <2>2. ByteOf(w, 0) = w
    <3>1. w \div 1 = w
      BY <1>1, SMT
    <3> QED
      BY <1>1, <1>3, <3>1 DEF ByteOf
  <2> QED
    BY <1>2, <1>6, <2>1, <2>2, ByteOfTyped, 0 \in 0..4
<1>7. CASE ~Doubled(a, n) /\ n # 1
  <2>1. Data(a, n, v) = v
    BY <1>7 DEF Data
  <2> QED
    BY <1>4, <1>7, <2>1, ByteOfTyped
<1> QED
  BY <1>5, <1>6, <1>7

LEMMA DataTyped ==
    ASSUME NEW a \in Word, NEW n \in {1, 2, 4}, NEW v \in Nat
    PROVE  Data(a, n, v) \in Nat
<1> DEFINE w == v % ByteValues
<1>1. ByteValues \in Nat \ {0}
  BY Places
<1>2. w \in Nat
  BY <1>1, DivMod
<1> HIDE DEF w
<1>3. w * (ByteValues + 1) \in Nat
  BY <1>1, <1>2, SMT
<1> QED
  BY <1>2, <1>3 DEF Data, w

\* Whether a store writes byte i of memory r.
Hits(a, n, r, i) == ~Lost(a, n) /\ r = Reached(a, n) /\ i - Start(a, n) \in 0..(Cells(a, n) - 1)

\* The byte of v that it writes there.
Given(a, n, v, i) == ByteOf(v, IF Doubled(a, n) THEN 0 ELSE i - Start(a, n))

LEMMA WriteTyped ==
    ASSUME NEW m, IsMemory(m), NEW a \in Word, NEW n \in {1, 2, 4}, NEW v \in Nat
    PROVE  IsMemory(Write(m, a, n, v))
<1>1. CASE Lost(a, n)
  BY <1>1, WriteIs
<1>2. CASE ~Lost(a, n)
  <2> DEFINE r == Reached(a, n)
             P == Placed(m[r], Start(a, n), Cells(a, n), Data(a, n, v))
  <2>1. r \in Ram /\ Start(a, n) \in Nat
    BY <1>2, CellsRun
  <2>2. Size[r] \in Nat /\ m[r] \in [0..(Size[r] - 1) -> Byte]
    BY <2>1, Spaces DEF IsMemory
  <2>3. Cells(a, n) \in {1, 2, 4} /\ Data(a, n, v) \in Nat
    BY CellsTyped, DataTyped
  <2>4. P \in [0..(Size[r] - 1) -> Byte]
    BY <2>1, <2>2, <2>3, PlacedTyped
  <2>5. Write(m, a, n, v) = [m EXCEPT ![r] = P]
    <3>1. Write(m, a, n, v) = Written(m, a, n, v)
      BY <1>2, WriteIs
    <3> QED
      BY <3>1, Zenon DEF Written
  <2> HIDE DEF r, P
  <2>6. DOMAIN m = Ram /\ m = [q \in Ram |-> m[q]]
    <3>1. m = [q \in Ram |-> m[q]]
      BY DEF IsMemory
    <3> QED
      BY <3>1
  <2>7. [m EXCEPT ![r] = P] = [q \in Ram |-> IF q = r THEN P ELSE m[q]]
    BY <2>1, <2>6
  <2> QED
    BY <2>1, <2>4, <2>5, <2>7 DEF IsMemory
<1> QED
  BY <1>1, <1>2

\* Each byte of memory after a store.
LEMMA WriteByte ==
    ASSUME NEW m, IsMemory(m), NEW a \in Word, NEW n \in {1, 2, 4}, NEW v \in Nat,
           NEW r \in Ram, NEW i \in 0..(Size[r] - 1)
    PROVE  Write(m, a, n, v)[r][i] = IF Hits(a, n, r, i) THEN Given(a, n, v, i) ELSE m[r][i]
<1>1. CASE Lost(a, n)
  BY <1>1, WriteIs DEF Hits
<1>2. CASE ~Lost(a, n)
  <2> DEFINE q == Reached(a, n)
             s == Start(a, n)
             c == Cells(a, n)
             P == Placed(m[q], s, c, Data(a, n, v))
  <2>1. q \in Ram
    BY <1>2, CellsRun
  <2>2. Write(m, a, n, v) = [m EXCEPT ![q] = P]
    <3>1. Write(m, a, n, v) = Written(m, a, n, v)
      BY <1>2, WriteIs
    <3> QED
      BY <3>1, Zenon DEF Written
  <2>3. DOMAIN m = Ram /\ DOMAIN m[r] = 0..(Size[r] - 1)
    <3>1. m = [k \in Ram |-> m[k]] /\ m[r] \in [0..(Size[r] - 1) -> Byte]
      BY DEF IsMemory
    <3> QED
      BY <3>1
  <2>4. CASE r # q
    <3>1. Write(m, a, n, v)[r] = m[r]
      BY <2>2, <2>3, <2>4
    <3>2. ~Hits(a, n, r, i)
      BY <2>4 DEF Hits
    <3> QED
      BY <3>1, <3>2
  <2>5. CASE r = q
    <3>1. Write(m, a, n, v)[r] = P
      BY <2>1, <2>2, <2>3, <2>5
    <3>2. P[i] = IF i - s \in 0..(c - 1) THEN ByteOf(Data(a, n, v), i - s) ELSE m[r][i]
      BY <2>3, <2>5 DEF Placed
    <3>3. Hits(a, n, r, i) <=> i - s \in 0..(c - 1)
      BY <1>2, <2>5 DEF Hits
    <3>4. CASE i - s \in 0..(c - 1)
      <4>1. ByteOf(Data(a, n, v), i - s) = ByteOf(v, IF Doubled(a, n) THEN 0 ELSE i - s)
        BY <1>2, <3>4, DataBytes
      <4> QED
        BY <3>1, <3>2, <3>3, <3>4, <4>1 DEF Given
    <3>5. CASE ~(i - s \in 0..(c - 1))
      BY <3>1, <3>2, <3>3, <3>5
    <3> QED
      BY <3>4, <3>5
  <2> QED
    BY <2>4, <2>5
<1> QED
  BY <1>1, <1>2

\* A load of a byte finds one byte.
LEMMA ReadByte ==
    ASSUME NEW m, NEW b \in Word
    PROVE  Read(m, b, 1) = IF Region[b] \in Ram THEN m[Region[b]][Index[b]]
                           ELSE IF Region[b] = "rom" THEN RomRead(b % (2 * Span), 1) ELSE 0
<1>1. Aligned(b, 1) = b /\ Region[b] \in Regions
  BY ReachedFacts
<1>2. Read(m, b, 1) =
        CASE Region[b] = "open" -> 0
          [] Region[b] = "rom" -> RomRead(b % (2 * Span), 1)
          [] Region[b] = "sram" -> Replicated(m.sram[Index[b]], 1)
          [] OTHER -> Joined(m[Region[b]], Index[b], 1)
  BY <1>1 DEF Read
<1>3. \A x : Replicated(x, 1) = x
  BY DEF Replicated, Joined
<1>4. \A f, i : Joined(f, i, 1) = f[i]
  BY DEF Joined
<1> QED
  BY <1>1, <1>2, <1>3, <1>4 DEF Regions, Ram

-----------------------------------------------------------------------------
(***************************************************************************)
(* What the history expects, and that memory holds it.                     *)
(***************************************************************************)
LEMMA SameRemainder ==
    ASSUME NEW p \in Nat \ {0}, NEW x \in Nat, NEW y \in Nat
    PROVE  (x - y) % p = 0 <=> x % p = y % p
<1> DEFINE c == x \div p
           d == y \div p
           r == x % p
           s == y % p
           z == x - y
           q == z \div p
<1>1. /\ c \in Nat /\ r \in 0..(p - 1) /\ x = p * c + r
      /\ d \in Nat /\ s \in 0..(p - 1) /\ y = p * d + s
  BY DivMod
<1>2. z \in Int /\ q \in Int /\ z = p * q + (z % p)
  <2>1. z \in Int
    OBVIOUS
  <2> HIDE DEF z
  <2> QED
    BY <2>1, IntDivMod
<1> HIDE DEF c, d, q
<1>3. ASSUME r = s PROVE z % p = 0
  <2> HIDE DEF r, s
  <2>1. z = p * (c - d) + 0 /\ c - d \in Int /\ 0 \in 0..(p - 1)
    BY <1>1, <1>3, SMT DEF z
  <2> HIDE DEF z
  <2>2. (p * (c - d) + 0) % p = 0
    BY <2>1, ModShift
  <2> QED
    BY <2>1, <2>2
<1>4. ASSUME z % p = 0 PROVE r = s
  <2>1. z = p * q
    <3> HIDE DEF z
    <3> DEFINE u == p * q
    <3>1. u \in Int
      BY <1>2
    <3> HIDE DEF u
    <3>2. z = u
      BY <1>2, <1>4, <3>1 DEF u
    <3> QED
      BY <3>2 DEF u
  <2>2. x = p * (q + d) + s /\ q + d \in Int
    <3>1. x = z + y
      BY DEF z
    <3> HIDE DEF r, s, z
    <3>2. p * (q + d) = p * q + p * d
      BY <1>1, <1>2, SMT
    <3> DEFINE u == p * q
               w == p * d
    <3>3. u \in Int /\ w \in Int /\ x = u + (w + s) /\ p * (q + d) = u + w
      BY <1>1, <1>2, <2>1, <3>1, <3>2
    <3> HIDE DEF u, w
    <3>4. x = p * (q + d) + s
      <4> DEFINE g == p * (q + d)
      <4>1. g = u + w
        BY <3>3
      <4> HIDE DEF g
      <4>2. x = g + s
        BY <1>1, <3>3, <4>1, SMT
      <4> QED
        BY <4>2 DEF g
    <3> QED
      BY <1>1, <1>2, <3>4
  <2>3. (p * (q + d) + s) % p = s
    <3> HIDE DEF s
    <3> QED
      BY <1>1, <2>2, ModShift
  <2> QED
    BY <2>2, <2>3
<1> QED
  BY <1>3, <1>4 DEF r, s

\* Two addresses are aliases exactly if they name the same byte of the same memory.
LEMMA AliasIsCell ==
    ASSUME NEW a \in Word, NEW b \in Word
    PROVE  Alias(a, b) <=> Region[a] = Region[b] /\ Region[a] \in Ram /\ Index[a] = Index[b]
<1> DEFINE r == Region[a]
<1>1. a \in Nat /\ b \in Nat
  BY Spaces
<1>2. CASE r = Region[b] /\ r \in Ram \ {"vram"}
  <2>1. Index[a] = a % Size[r] /\ Index[b] = b % Size[r] /\ Size[r] \in Nat \ {0}
    BY <1>2, Spaces DEF Index
  <2>2. Alias(a, b) <=> (a - b) % Size[r] = 0
    BY <1>2 DEF Alias
  <2>3. (a - b) % Size[r] = 0 <=> a % Size[r] = b % Size[r]
    BY <1>1, <2>1, SameRemainder, Zenon
  <2> QED
    BY <1>2, <2>1, <2>2, <2>3
<1>3. CASE r = Region[b] /\ r = "vram"
  <2> DEFINE s == Size["vram"]
             w == VramWindow
             x == a % w
             y == b % w
  <2>1. PICK q \in Nat \ {0} : s = 3 * q /\ w = 4 * q /\ w \div 4 = q /\ w - s = q
    BY VramSizes
  <2>2. w \in Nat \ {0}
    BY VramSizes
  <2>3. x \in 0..(w - 1) /\ y \in 0..(w - 1)
    BY <1>1, <2>2, DivMod
  <2>4. Index[a] = (IF x >= s THEN x - q ELSE x) /\ Index[b] = (IF y >= s THEN y - q ELSE y)
    <3>1. Index[a] = VramMirror(a) /\ Index[b] = VramMirror(b)
      BY <1>3 DEF Index
    <3>2. VramMirror(a) = (IF x >= s THEN x - (w - s) ELSE x)
      BY DEF VramMirror
    <3>3. VramMirror(b) = (IF y >= s THEN y - (w - s) ELSE y)
      BY DEF VramMirror
    <3> QED
      BY <2>1, <3>1, <3>2, <3>3
  <2>5. Alias(a, b) <=> x = y \/ (x = y + q /\ x >= 3 * q) \/ (y = x + q /\ y >= 3 * q)
    BY <1>3, <2>1 DEF Alias, Ram
  <2> HIDE DEF x, y, s, w
  <2>6. (IF x >= s THEN x - q ELSE x) = (IF y >= s THEN y - q ELSE y)
          <=> x = y \/ (x = y + q /\ x >= 3 * q) \/ (y = x + q /\ y >= 3 * q)
    BY <2>1, <2>3, SMT
  <2> QED
    BY <1>3, <2>4, <2>5, <2>6 DEF Ram
<1>4. CASE r # Region[b] \/ r \notin Ram
  BY <1>4 DEF Alias
<1> QED
  BY <1>2, <1>3, <1>4

\* A store is expected at the addresses of the bytes it writes, and nowhere else.
LEMMA CoveredAliases ==
    ASSUME NEW a \in Word, NEW n \in {1, 2, 4}, NEW b \in Followed, ~Lost(a, n),
           NEW c \in DOMAIN Covered(a, n)
    PROVE  b \in Aliases[c] <=> /\ Region[b] = Reached(a, n)
                                /\ Index[b] - Start(a, n) = c - Base(a, n)
<1> DEFINE B == Base(a, n)
           N == Cells(a, n)
           k == c - B
<1>1. c \in B..(B + N - 1)
  BY CoveredIs
<1>2. B \in Int /\ N \in {1, 2, 4}
  <2>1. B \in Word
    BY AlignedTyped DEF Base
  <2> QED
    BY <2>1, Spaces, CellsTyped
<1>3. k \in 0..(N - 1) /\ c = B + k
  <2> HIDE DEF B, N
  <2> QED
    BY <1>1, <1>2
<1> HIDE DEF k
<1>4. /\ c \in Word /\ Region[c] = Reached(a, n) /\ Index[c] = Start(a, n) + k
      /\ Start(a, n) \in Nat /\ Reached(a, n) \in Ram
  BY <1>3, CellsRun
<1>5. b \in Word
  BY LoadStoreAssumption
<1>6. b \in Aliases[c] <=> Region[c] = Region[b] /\ Region[c] \in Ram /\ Index[c] = Index[b]
  BY <1>4, <1>5, AliasIsCell DEF Aliases
<1>7. ASSUME Region[b] = Reached(a, n)
      PROVE  Index[c] = Index[b] <=> Index[b] - Start(a, n) = k
  <2>1. Index[b] \in 0..(Size[Region[b]] - 1) /\ Size[Region[b]] \in Nat
    BY <1>4, <1>5, <1>7, IndexTyped, Spaces
  <2> DEFINE i == Index[b]
             s == Start(a, n)
  <2>2. i \in Int /\ s \in Int /\ k \in Int /\ Index[c] = s + k
    BY <1>2, <1>3, <1>4, <2>1
  <2> HIDE DEF i, s
  <2>3. s + k = i <=> i - s = k
    BY <2>2
  <2> QED
    BY <2>2, <2>3 DEF i, s
<1> QED
  BY <1>4, <1>6, <1>7 DEF k

\* Each byte that is expected after a store.
LEMMA ToldIs ==
    ASSUME NEW t, NEW a \in Word, NEW n \in {1, 2, 4}, NEW v, NEW b \in Followed
    PROVE  Told(t, a, n, v)[b]
             = IF Hits(a, n, Region[b], Index[b]) THEN Given(a, n, v, Index[b]) ELSE t[b]
<1> DEFINE covered == Covered(a, n)
           chosen == CHOOSE c \in DOMAIN covered : b \in Aliases[c]
           s == Start(a, n)
           B == Base(a, n)
           N == Cells(a, n)
           i == Index[b]
<1>1. Told(t, a, n, v)[b] = IF \E c \in DOMAIN covered : b \in Aliases[c]
                            THEN ByteOf(v, covered[chosen]) ELSE t[b]
  BY DEF Told
<1>2. CASE Lost(a, n)
  <2>1. DOMAIN covered = {}
    BY <1>2, CoveredIs
  <2> HIDE DEF covered
  <2> QED
    BY <1>1, <1>2, <2>1 DEF Hits
<1>3. CASE ~Lost(a, n)
  <2>1. \A c \in DOMAIN covered : b \in Aliases[c] <=> Region[b] = Reached(a, n) /\ i - s = c - B
    BY <1>3, CoveredAliases
  <2>2. covered = [c \in B..(B + N - 1) |-> IF Doubled(a, n) THEN 0 ELSE c - B]
    BY <1>3, CoveredIs
  <2>3. B \in Int /\ N \in {1, 2, 4}
    <3>1. B \in Word
      BY AlignedTyped DEF Base
    <3> QED
      BY <3>1, Spaces, CellsTyped
  <2> HIDE DEF covered, B, N
  <2>4. CASE Hits(a, n, Region[b], i)
    <3>1. Region[b] = Reached(a, n) /\ i - s \in 0..(N - 1)
      BY <2>4 DEF Hits, N
    <3> DEFINE k == i - s
    <3>2. k \in 0..(N - 1) /\ Region[b] = Reached(a, n)
      BY <3>1
    <3>3. B + k \in DOMAIN covered /\ k = (B + k) - B
      <4> HIDE DEF k
      <4> QED
        BY <2>2, <2>3, <3>2
    <3>4. b \in Aliases[B + k]
      BY <2>1, <3>1, <3>3
    <3>5. chosen \in DOMAIN covered /\ b \in Aliases[chosen]
      BY <3>3, <3>4
    <3> HIDE DEF chosen
    <3>6. k = chosen - B
      BY <2>1, <3>5
    <3>7. covered[chosen] = IF Doubled(a, n) THEN 0 ELSE k
      BY <2>2, <3>5, <3>6
    <3> QED
      BY <1>1, <2>4, <3>5, <3>7 DEF Given
  <2>5. CASE ~Hits(a, n, Region[b], i)
    <3>1. ~(Region[b] = Reached(a, n) /\ i - s \in 0..(N - 1))
      BY <1>3, <2>5 DEF Hits, N
    <3>2. ASSUME NEW c \in DOMAIN covered PROVE c - B \in 0..(N - 1)
      BY <2>2, <2>3
    <3>3. ~ \E c \in DOMAIN covered : b \in Aliases[c]
      BY <2>1, <3>1, <3>2
    <3> QED
      BY <1>1, <2>5, <3>3
  <2> QED
    BY <2>4, <2>5
<1> QED
  BY <1>2, <1>3

LEMMA ToldTyped ==
    ASSUME NEW t \in [Followed -> Byte], NEW a \in Word, NEW n \in {1, 2, 4}, NEW v \in Nat
    PROVE  Told(t, a, n, v) \in [Followed -> Byte]
<1> DEFINE u == Told(t, a, n, v)
<1>1. u = [b \in Followed |-> u[b]]
  BY DEF Told
<1>2. ASSUME NEW b \in Followed PROVE u[b] \in Byte
  <2>1. CASE Hits(a, n, Region[b], Index[b])
    <3>1. Index[b] - Start(a, n) \in 0..4
      <4>1. Cells(a, n) \in {1, 2, 4} /\ Index[b] - Start(a, n) \in 0..(Cells(a, n) - 1)
        BY <2>1, CellsTyped DEF Hits
      <4> QED
        BY <4>1
    <3>2. Given(a, n, v, Index[b]) \in Byte
      BY <3>1, ByteOfTyped, 0 \in 0..4 DEF Given
    <3> QED
      BY <2>1, <3>2, ToldIs
  <2>2. CASE ~Hits(a, n, Region[b], Index[b])
    BY <2>2, ToldIs
  <2> QED
    BY <2>1, <2>2
<1> HIDE DEF u
<1> QED
  BY <1>1, <1>2 DEF u

\* Memory holds what is expected.
Agree(m, t) == \A b \in Followed : Read(m, b, 1) = t[b]

\* A store keeps it so.
LEMMA WriteAgrees ==
    ASSUME NEW m, IsMemory(m), NEW t, Agree(m, t),
           NEW a \in Word, NEW n \in {1, 2, 4}, NEW v \in Nat
    PROVE  Agree(Write(m, a, n, v), Told(t, a, n, v))
<1> SUFFICES ASSUME NEW b \in Followed
             PROVE  Read(Write(m, a, n, v), b, 1) = Told(t, a, n, v)[b]
  BY DEF Agree
<1>0. Told(t, a, n, v)[b]
        = IF Hits(a, n, Region[b], Index[b]) THEN Given(a, n, v, Index[b]) ELSE t[b]
  BY ONLY ToldIs, SMT
<1> DEFINE w == Write(m, a, n, v)
           r == Region[b]
           i == Index[b]
<1>1. b \in Word /\ Read(m, b, 1) = t[b]
  BY LoadStoreAssumption DEF Agree
<1>2. Told(t, a, n, v)[b] = IF Hits(a, n, r, i) THEN Given(a, n, v, i) ELSE t[b]
  BY <1>0
<1>3. CASE r \in Ram
  <2>1. i \in 0..(Size[r] - 1)
    BY <1>1, <1>3, IndexTyped
  <2>2. w[r][i] = IF Hits(a, n, r, i) THEN Given(a, n, v, i) ELSE m[r][i]
    BY <1>3, <2>1, WriteByte
  <2>3. Read(m, b, 1) = m[r][i] /\ Read(w, b, 1) = w[r][i]
    BY <1>1, <1>3, ReadByte
  <2> QED
    BY <1>1, <1>2, <2>2, <2>3
<1>4. CASE r \notin Ram
  <2>1. Read(w, b, 1) = Read(m, b, 1)
    BY <1>1, <1>4, ReadByte
  <2>2. ~Hits(a, n, r, i)
    BY <1>4 DEF Hits, Lost
  <2> QED
    BY <1>1, <1>2, <2>1, <2>2
<1> QED
  BY <1>3, <1>4

LEMMA PlusTyped == \A a \in Word : \A n \in Int : Plus(a, n) \in Word
<1>1. SUFFICES ASSUME NEW a \in Word, NEW n \in Int
               PROVE  (a + n) % WordModulus \in Word
  BY DEF Plus
<1>2. a + n \in Int /\ WordModulus \in Nat \ {0} /\ Word = 0..(WordModulus - 1)
  BY Spaces
<1> DEFINE x == a + n
<1> HIDE DEF x
<1>3. x % WordModulus \in 0..(WordModulus - 1)
  BY <1>2, IntDivMod DEF x
<1> QED
  BY <1>2, <1>3 DEF x

\* What every store and every turn of a block transfer keeps.
Held ==
    /\ IsMemory(mem)
    /\ told \in [Followed -> Byte]
    /\ Agree(mem, told)

LEMMA StoreHolds ==
    ASSUME Held, NEW a \in Word, NEW n \in {1, 2, 4}, NEW v \in Word, Store(a, n, v)
    PROVE  Held'
<1>1. v \in Nat
  BY Spaces
<1>2. mem' = Write(mem, a, n, v) /\ told' = Told(told, a, n, v)
  BY DEF Store
<1>3. IsMemory(mem) /\ told \in [Followed -> Byte] /\ Agree(mem, told)
  BY DEF Held
<1>4. IsMemory(Write(mem, a, n, v))
  BY <1>1, <1>3, WriteTyped
<1>5. Told(told, a, n, v) \in [Followed -> Byte]
  BY <1>1, <1>3, ToldTyped
<1>6. Agree(Write(mem, a, n, v), Told(told, a, n, v))
  BY <1>1, <1>3, WriteAgrees
<1> QED
  BY <1>2, <1>4, <1>5, <1>6 DEF Held, IsMemory, Agree

LEMMA NoStoreHolds ==
    ASSUME Held, NoStore
    PROVE  Held'
BY DEF Held, NoStore, IsMemory, Agree

-----------------------------------------------------------------------------
(***************************************************************************)
(* The loop of a block transfer, by recursion.                             *)
(***************************************************************************)
Contents == {m \in [Ram -> UNION {[0..(Size[r] - 1) -> Byte] : r \in Ram}] : IsMemory(m)}

LEMMA ContentsAre == \A m : IsMemory(m) <=> m \in Contents
<1>1. ASSUME NEW m, IsMemory(m) PROVE m \in Contents
  <2>1. m = [r \in Ram |-> m[r]] /\ \A r \in Ram : m[r] \in [0..(Size[r] - 1) -> Byte]
    BY <1>1 DEF IsMemory
  <2>2. \A r \in Ram : m[r] \in UNION {[0..(Size[q] - 1) -> Byte] : q \in Ram}
    BY <2>1
  <2>3. m \in [Ram -> UNION {[0..(Size[q] - 1) -> Byte] : q \in Ram}]
    BY <2>1, <2>2
  <2> QED
    BY <1>1, <2>3 DEF Contents
<1> QED
  BY <1>1 DEF Contents

\* What the loop holds after each of its turns.
Moment ==
    {s \in [mem : Contents, told : [Followed -> Byte], at : Word] : Agree(s.mem, s.told)}

LEMMA StoreNextTyped ==
    ASSUME NEW s \in Moment, NEW r, NEW words, \A q \in DOMAIN words : words[q] \in Word
    PROVE  StoreNext(s, r, words) \in Moment
<1>1. /\ s.mem \in Contents /\ s.told \in [Followed -> Byte] /\ s.at \in Word
      /\ Agree(s.mem, s.told)
  BY DEF Moment
<1>2. CASE r \in DOMAIN words
  <2> DEFINE v == words[r]
             m == Write(s.mem, s.at, 4, v)
             t == Told(s.told, s.at, 4, v)
             a == Plus(s.at, 4)
  <2>1. v \in Nat /\ IsMemory(s.mem)
    BY <1>1, <1>2, Spaces, ContentsAre
  <2>2. m \in Contents
    BY <1>1, <2>1, WriteTyped, ContentsAre
  <2>3. t \in [Followed -> Byte]
    BY <1>1, <2>1, ToldTyped
  <2>4. Agree(m, t)
    BY <1>1, <2>1, WriteAgrees
  <2>5. a \in Word
    BY <1>1, PlusTyped
  <2>6. StoreNext(s, r, words) = [mem |-> m, told |-> t, at |-> a]
    BY <1>2 DEF StoreNext
  <2> HIDE DEF m, t, a
  <2> QED
    BY <2>2, <2>3, <2>4, <2>5, <2>6 DEF Moment
<1>3. CASE r \notin DOMAIN words
  BY <1>3 DEF StoreNext
<1> QED
  BY <1>2, <1>3

\* A block transfer of words, turn by turn.
Turns(start, words, f) ==
    /\ f \in [0..16 -> Moment]
    /\ f[0] = [mem |-> mem, told |-> told, at |-> start]
    /\ \A i \in 1..16 : f[i] = StoreNext(f[i - 1], i - 1, words)

LEMMA StoreBlockTurns ==
    ASSUME Held, NEW start \in Word, NEW words, \A q \in DOMAIN words : words[q] \in Word,
           StoreBlock(start, words)
    PROVE  \E f : Turns(start, words, f) /\ mem' = f[16].mem /\ told' = f[16].told
<1> DEFINE first == [mem |-> mem, told |-> told, at |-> start]
           Turn(g, i) == IF i = 0 THEN first ELSE StoreNext(g[i - 1], i - 1, words)
           after == CHOOSE g : g = [i \in 0..16 |-> Turn(g, i)]
           step == [i \in 1..16 |-> [s \in Moment |-> StoreNext(s, i - 1, words)]]
<1>1. first \in Moment
  <2>1. mem \in Contents /\ told \in [Followed -> Byte] /\ Agree(mem, told)
    BY ContentsAre DEF Held
  <2> QED
    BY <2>1 DEF Moment
<1>2. mem' = after[16].mem /\ told' = after[16].told
  BY DEF StoreBlock
<1>3. \A i : \A s \in Moment : StoreNext(s, i - 1, words) \in Moment
  BY StoreNextTyped
<1>4. 16 \in Nat
  OBVIOUS
<1> HIDE DEF first
<1>5. PICK f : /\ f \in [0..16 -> Moment] /\ f[0] = first
               /\ \A i \in 1..16 : f[i] = step[i][f[i - 1]]
  <2>1. step \in [1..16 -> [Moment -> Moment]]
    BY <1>3
  <2> HIDE DEF step
  <2>2. PICK f : f \in Recursions(16, Moment, first, step)
    BY <1>1, <1>4, <2>1, RecursionExists, Zenon
  <2> QED
    BY <2>2 DEF Recursions
<1>6. \A i \in 0..16 : f[i] = Turn(f, i)
  <2>1. ASSUME NEW i \in 1..16 PROVE f[i] = StoreNext(f[i - 1], i - 1, words) /\ i # 0
    <3>1. f[i - 1] \in Moment /\ i # 0
      BY <1>5
    <3>2. step[i] = [s \in Moment |-> StoreNext(s, i - 1, words)]
      OBVIOUS
    <3>3. f[i] = step[i][f[i - 1]]
      BY <1>5
    <3> QED
      BY <3>1, <3>2, <3>3, Zenon
  <2>2. \A i \in 0..16 : i = 0 \/ i \in 1..16
    BY SMT
  <2> QED
    BY <1>5, <2>1, <2>2
<1>7. f = [i \in 0..16 |-> Turn(f, i)]
  BY <1>5, <1>6, SMTT(40)
<1>8. after = [i \in 0..16 |-> Turn(after, i)]
  BY <1>7, SMTT(40)
<1>9. \A i \in 0..16 : after[i] = Turn(after, i)
  BY <1>8
<1>10. DOMAIN after = 0..16 /\ after = [i \in 0..16 |-> after[i]]
  BY <1>8
<1> HIDE DEF after
<1> DEFINE S == [i \in 0..16 |-> Moment]
<1>11. after[0] \in S[0]
  BY <1>1, <1>9
<1>12. ASSUME NEW i \in 1..16 PROVE after[i] = StoreNext(after[i - 1], i - 1, words)
  <2>1. i \in 0..16 /\ i # 0
    BY SMT
  <2> QED
    BY <1>9, <2>1
<1>13. ASSUME NEW i \in 1..16, after[i - 1] \in S[i - 1]
       PROVE  after[i] \in S[i]
  <2>1. i \in 0..16 /\ i - 1 \in 0..16
    BY SMT
  <2> QED
    BY <1>3, <1>12, <1>13, <2>1
<1>14. \A i \in 0..16 : after[i] \in Moment
  <2> HIDE DEF S
  <2>1. \A i \in 1..16 : after[i - 1] \in S[i - 1] => after[i] \in S[i]
    BY <1>13
  <2>2. \A i \in 0..16 : after[i] \in S[i]
    BY <1>4, <1>11, <2>1, RecursionStays, Zenon
  <2> QED
    BY <2>2 DEF S
<1>15. after \in [0..16 -> Moment]
  BY <1>10, <1>14
<1>16. after[0] = first
  BY <1>9
<1>17. Turns(start, words, after)
  BY <1>12, <1>15, <1>16 DEF Turns, first
<1> QED
  BY <1>2, <1>17

LEMMA StoreBlockHolds ==
    ASSUME Held, NEW start \in Word, NEW words, \A q \in DOMAIN words : words[q] \in Word,
           StoreBlock(start, words)
    PROVE  Held'
<1>1. PICK f : Turns(start, words, f) /\ mem' = f[16].mem /\ told' = f[16].told
  BY StoreBlockTurns
<1>2. f[16] \in Moment
  BY <1>1 DEF Turns
<1>3. IsMemory(f[16].mem) /\ f[16].told \in [Followed -> Byte] /\ Agree(f[16].mem, f[16].told)
  BY <1>2, ContentsAre DEF Moment
<1> QED
  BY <1>1, <1>3 DEF Held, IsMemory, Agree

-----------------------------------------------------------------------------
(***************************************************************************)
(* The registers.                                                          *)
(***************************************************************************)
LEMMA RegistersAre ==
    /\ Sp \in Registers /\ Lr \in Registers /\ Low \subseteq Registers
    /\ Elsewhere \subseteq Registers
    /\ \A list \in SUBSET Registers : Cardinality(list) \in Nat
    /\ \A list \in SUBSET Registers : \A r : Above(list, r) \in Nat
<1>1. Registers \subseteq 0..14 /\ Sp \in Registers /\ Lr \in Registers
  BY LoadStoreAssumption DEF Registers, Sp, Lr
<1>2. IsFiniteSet(0..14)
  BY FS_Interval, 0 \in Int, 14 \in Int
<1>3. \A list : list \subseteq 0..14 => Cardinality(list) \in Nat
  <2>1. ASSUME NEW list, list \subseteq 0..14 PROVE Cardinality(list) \in Nat
    <3>1. IsFiniteSet(list)
      BY <1>2, <2>1, FS_Subset
    <3> QED
      BY <3>1, FS_CardinalityType
  <2> QED
    BY <2>1
<1>4. ASSUME NEW list \in SUBSET Registers, NEW r PROVE Above(list, r) \in Nat
  <2>1. {s \in list : s < r} \subseteq 0..14
    BY <1>1
  <2> QED
    BY <1>3, <2>1 DEF Above
<1> QED
  BY <1>1, <1>3, <1>4 DEF Elsewhere, Registers

Registry == [Registers -> Word]

LEMMA MovedTyped ==
    ASSUME NEW base \in Word, NEW up \in BOOLEAN, NEW n \in Int
    PROVE  Moved(up, base, n) \in Word
<1>1. -n \in Int
  OBVIOUS
<1> QED
  BY <1>1, PlusTyped DEF Moved

LEMMA WithBaseTyped ==
    ASSUME regs \in Registry, NEW rs \in Registry, NEW pre, NEW up \in BOOLEAN, NEW wb,
           NEW load, NEW rn \in Registers, NEW rd, NEW offset \in Int
    PROVE  WithBase(rs, pre, up, wb, load, rn, rd, offset) \in Registry
<1>1. Moved(up, regs[rn], offset) \in Word
  BY MovedTyped DEF Registry
<1> QED
  BY <1>1 DEF WithBase, Registry

\* What every operation keeps; none changes the kind of stack.
Keeps == Held' /\ regs' \in Registry /\ kind' = kind

LEMMA BytesTyped == \A what \in {"word", "half", "byte"} : Bytes(what) \in {1, 2, 4}
BY DEF Bytes

LEMMA ArmTransferKeeps ==
    ASSUME Held, regs \in Registry, NEW load \in BOOLEAN, NEW what \in Kinds,
           ~load => what \in {"word", "half", "byte"},
           NEW pre, NEW up \in BOOLEAN, NEW wb, NEW rn \in Registers, NEW rd \in Registers,
           NEW offset \in Int, ArmTransfer(what, pre, up, wb, load, rn, rd, offset)
    PROVE  Keeps
<1> DEFINE a == Address(pre, up, regs[rn], offset)
           rs == IF load THEN [regs EXCEPT ![rd] = Loaded(mem, what, a)] ELSE regs
<1>1. a \in Word
  <2>1. regs[rn] \in Word /\ Moved(up, regs[rn], offset) \in Word
    BY MovedTyped DEF Registry
  <2> QED
    BY <2>1 DEF Address
<1>2. IsMemory(mem)
  BY DEF Held
<1>3. /\ IF load THEN NoStore ELSE Store(a, Bytes(what), regs[rd])
      /\ regs' = WithBase(rs, pre, up, wb, load, rn, rd, offset)
      /\ UNCHANGED kind
  BY DEF ArmTransfer
<1> HIDE DEF a
<1>4. rs \in Registry
  BY <1>1, <1>2, LoadedTyped DEF Registry
<1> HIDE DEF rs
<1>5. regs' \in Registry
  BY <1>3, <1>4, WithBaseTyped
<1>6. Held'
  <2>1. CASE load
    BY <1>3, <2>1, NoStoreHolds
  <2>2. CASE ~load
    <3>1. regs[rd] \in Word /\ Bytes(what) \in {1, 2, 4}
      BY <2>2, BytesTyped DEF Registry
    <3> QED
      BY <1>1, <1>3, <2>2, <3>1, StoreHolds
  <2> QED
    BY <2>1, <2>2
<1> QED
  BY <1>3, <1>5, <1>6 DEF Keeps

LEMMA ArmSwpKeeps ==
    ASSUME Held, regs \in Registry, NEW what, NEW rn \in Registers, NEW rd \in Registers,
           NEW rm \in Registers, ArmSwp(what, rn, rd, rm)
    PROVE  Keeps
<1>1. what \in {"word", "byte"} /\ regs[rn] \in Word /\ regs[rm] \in Word
  BY DEF ArmSwp, Registry
<1>2. /\ Store(regs[rn], Bytes(what), regs[rm])
      /\ regs' = [regs EXCEPT ![rd] = Loaded(mem, what, regs[rn])]
      /\ UNCHANGED kind
  BY DEF ArmSwp
<1>3. Held'
  BY <1>1, <1>2, BytesTyped, StoreHolds
<1>4. Loaded(mem, what, regs[rn]) \in Word
  BY <1>1, LoadedTyped DEF Held, Kinds
<1> QED
  BY <1>2, <1>3, <1>4 DEF Keeps, Registry

LEMMA ThumbTransferKeeps ==
    ASSUME Held, regs \in Registry, NEW load \in BOOLEAN, NEW what \in Kinds,
           ~load => what \in {"word", "half", "byte"},
           NEW rd \in Registers, NEW a \in Word, ThumbTransfer(what, load, rd, a)
    PROVE  Keeps
<1>1. /\ IF load THEN NoStore ELSE Store(a, Bytes(what), regs[rd])
      /\ regs' = IF load THEN [regs EXCEPT ![rd] = Loaded(mem, what, a)] ELSE regs
      /\ UNCHANGED kind
  BY DEF ThumbTransfer
<1>2. Loaded(mem, what, a) \in Word
  BY LoadedTyped DEF Held
<1>3. regs' \in Registry
  BY <1>1, <1>2 DEF Registry
<1>4. CASE load
  BY <1>1, <1>3, <1>4, NoStoreHolds DEF Keeps
<1>5. CASE ~load
  <2>1. regs[rd] \in Word /\ Bytes(what) \in {1, 2, 4}
    BY <1>5, BytesTyped DEF Registry
  <2> QED
    BY <1>1, <1>3, <1>5, <2>1, StoreHolds DEF Keeps
<1> QED
  BY <1>4, <1>5

LEMMA SpRelKeeps ==
    ASSUME Held, regs \in Registry, NEW load, NEW rd \in Registers, NEW offset \in Int,
           ThumbSpRelLoadStore(load, rd, offset)
    PROVE  Keeps
<1> DEFINE a == Plus(regs[Sp], offset)
<1>1. a \in Word /\ IsMemory(mem)
  BY PlusTyped, RegistersAre DEF Held, Registry
<1>2. /\ IF load THEN NoStore ELSE Store(a, 4, regs[rd])
      /\ regs' = IF load THEN [regs EXCEPT ![rd] = Read(mem, a, 4)] ELSE regs
      /\ UNCHANGED kind
  BY DEF ThumbSpRelLoadStore
<1> HIDE DEF a
<1>3. Read(mem, a, 4) \in Word
  BY <1>1, ReadIsWord
<1>4. Held'
  <2>1. regs[rd] \in Word
    BY DEF Registry
  <2> QED
    BY <1>1, <1>2, <2>1, NoStoreHolds, StoreHolds
<1> QED
  BY <1>2, <1>3, <1>4 DEF Keeps, Registry

LEMMA LoadedBlockTyped ==
    ASSUME Held, regs \in Registry, NEW list \in SUBSET Registers, NEW start \in Word
    PROVE  LoadedBlock(list, start) \in Registry
<1>1. ASSUME NEW r \in Registers PROVE Read(mem, Plus(start, 4 * Above(list, r)), 4) \in Word
  <2>1. 4 * Above(list, r) \in Int
    BY RegistersAre
  <2>2. Plus(start, 4 * Above(list, r)) \in Word
    BY <2>1, PlusTyped
  <2> QED
    BY <2>2, ReadIsWord DEF Held
<1> QED
  BY <1>1 DEF LoadedBlock, Registry

LEMMA BlockStartTyped ==
    ASSUME NEW pre \in BOOLEAN, NEW up \in BOOLEAN, NEW base \in Word, NEW n \in Nat
    PROVE  BlockStart(pre, up, base, n) \in Word
<1>1. 4 \in Int /\ 4 - 4 * n \in Int /\ -4 * n \in Int
  OBVIOUS
<1>2. Plus(base, 4) \in Word /\ Plus(base, 4 - 4 * n) \in Word /\ Plus(base, -4 * n) \in Word
  BY <1>1, PlusTyped
<1> QED
  BY <1>2 DEF BlockStart

LEMMA ArmBlockKeeps ==
    ASSUME Held, regs \in Registry, NEW pre \in BOOLEAN, NEW up \in BOOLEAN, NEW wb, NEW load,
           NEW rn \in Registers, NEW list \in SUBSET Registers,
           ArmBlockTransfer(pre, up, wb, load, rn, list)
    PROVE  Keeps
<1> DEFINE n == Cardinality(list)
           start == BlockStart(pre, up, regs[rn], n)
           moved == Moved(up, regs[rn], 4 * n)
           words == [r \in list |-> IF r = rn /\ wb /\ r # First(list) THEN moved ELSE regs[r]]
           loaded == IF load THEN LoadedBlock(list, start) ELSE regs
<1>1. n \in Nat /\ 4 * n \in Int /\ regs[rn] \in Word
  BY RegistersAre DEF Registry
<1>2. start \in Word /\ moved \in Word
  BY <1>1, BlockStartTyped, MovedTyped
<1>3. /\ IF load THEN NoStore ELSE StoreBlock(start, words)
      /\ regs' = IF wb THEN [loaded EXCEPT ![rn] = moved] ELSE loaded
      /\ UNCHANGED kind
  BY DEF ArmBlockTransfer
<1> HIDE DEF start, moved
<1>4. loaded \in Registry
  BY <1>2, LoadedBlockTyped
<1>5. DOMAIN words = list /\ \A r \in list : words[r] \in Word
  BY <1>2 DEF Registry
<1> HIDE DEF words, loaded
<1>6. Held'
  BY <1>2, <1>3, <1>5, NoStoreHolds, StoreBlockHolds
<1> QED
  BY <1>2, <1>3, <1>4, <1>6 DEF Keeps, Registry

LEMMA ThumbBlockKeeps ==
    ASSUME Held, regs \in Registry, NEW load, NEW rb \in Registers,
           NEW list \in SUBSET Registers, ThumbMultipleLoadStore(load, rb, list)
    PROVE  Keeps
<1> DEFINE moved == Plus(regs[rb], 4 * Cardinality(list))
           words == [r \in list |-> IF r = rb /\ r # First(list) THEN moved ELSE regs[r]]
           loaded == IF load THEN LoadedBlock(list, regs[rb]) ELSE regs
<1>1. 4 * Cardinality(list) \in Int /\ regs[rb] \in Word
  BY RegistersAre DEF Registry
<1>2. moved \in Word
  BY <1>1, PlusTyped
<1>3. /\ IF load THEN NoStore ELSE StoreBlock(regs[rb], words)
      /\ regs' = IF load /\ rb \in list THEN loaded ELSE [loaded EXCEPT ![rb] = moved]
      /\ UNCHANGED kind
  BY DEF ThumbMultipleLoadStore
<1> HIDE DEF moved
<1>4. loaded \in Registry
  BY <1>1, LoadedBlockTyped
<1>5. DOMAIN words = list /\ \A r \in list : words[r] \in Word
  BY <1>2 DEF Registry
<1> HIDE DEF words, loaded
<1>6. Held'
  BY <1>1, <1>3, <1>5, NoStoreHolds, StoreBlockHolds
<1> QED
  BY <1>2, <1>3, <1>4, <1>6 DEF Keeps, Registry

LEMMA PopKeeps ==
    ASSUME Held, regs \in Registry, NEW list \in SUBSET Registers, NEW pc, ThumbPop(list, pc)
    PROVE  Keeps
<1> DEFINE n == Cardinality(list) + (IF pc THEN 1 ELSE 0)
<1>1. 4 * n \in Int
  <2>1. Cardinality(list) \in Nat
    BY RegistersAre
  <2> QED
    BY <2>1
<1>2. /\ regs' = [LoadedBlock(list, regs[Sp]) EXCEPT ![Sp] = Plus(regs[Sp], 4 * n)]
      /\ NoStore /\ UNCHANGED kind
  BY DEF ThumbPop
<1> HIDE DEF n
<1>3. regs[Sp] \in Word
  BY RegistersAre DEF Registry
<1>4. Plus(regs[Sp], 4 * n) \in Word /\ LoadedBlock(list, regs[Sp]) \in Registry
  BY <1>1, <1>3, PlusTyped, LoadedBlockTyped
<1> QED
  BY <1>2, <1>4, NoStoreHolds DEF Keeps, Registry

LEMMA PushKeeps ==
    ASSUME Held, regs \in Registry, NEW list \in SUBSET Registers, NEW lr, ThumbPush(list, lr)
    PROVE  Keeps
<1> DEFINE pushed == list \cup (IF lr THEN {Lr} ELSE {})
           start == Plus(regs[Sp], -4 * Cardinality(pushed))
           words == [r \in pushed |-> regs[r]]
<1>1. pushed \in SUBSET Registers
  BY RegistersAre
<1>2. StoreBlock(start, words) /\ regs' = [regs EXCEPT ![Sp] = start] /\ UNCHANGED kind
  BY DEF ThumbPush
<1> HIDE DEF pushed
<1>3. Cardinality(pushed) \in Nat
  BY <1>1, RegistersAre
<1>4. start \in Word
  <2>1. -4 * Cardinality(pushed) \in Int /\ regs[Sp] \in Word
    BY <1>3, RegistersAre DEF Registry
  <2> QED
    BY <2>1, PlusTyped
<1>5. DOMAIN words = pushed /\ \A r \in pushed : words[r] \in Word
  BY <1>1 DEF Registry
<1> HIDE DEF start, words
<1>6. Held'
  BY <1>2, <1>4, <1>5, StoreBlockHolds
<1> QED
  BY <1>2, <1>4, <1>6 DEF Keeps, Registry

\* The operations that only change a register.
LEMMA SetKeeps ==
    ASSUME Held, regs \in Registry, NEW r \in Registers, NEW v \in Word,
           regs' = [regs EXCEPT ![r] = v], NoStore, UNCHANGED kind
    PROVE  Keeps
BY NoStoreHolds DEF Keeps, Registry

-----------------------------------------------------------------------------
(***************************************************************************)
(* The program.                                                            *)
(***************************************************************************)
\* The inductive invariant: the types, and that memory holds what is expected.
IInv == TypeOK /\ Agree(mem, told)

LEMMA InitHolds == Init => IInv
<1>1. SUFFICES ASSUME Init PROVE IInv
  OBVIOUS
<1>2. IsMemory(Blank)
  <2>1. \A r \in Ram : [i \in 0..(Size[r] - 1) |-> 0] \in [0..(Size[r] - 1) -> Byte]
    BY ZeroIsByte
  <2>2. \A r \in Ram : Blank[r] = [i \in 0..(Size[r] - 1) |-> 0]
    BY DEF Blank
  <2>3. Blank = [r \in Ram |-> Blank[r]]
    BY DEF Blank
  <2> QED
    BY <2>1, <2>2, <2>3 DEF IsMemory
<1>3. \A b \in Followed : Read(Blank, b, 1) = told[b]
  <2>1. ASSUME NEW b \in Followed PROVE Read(Blank, b, 1) = told[b]
    <3>1. b \in Word
      BY LoadStoreAssumption
    <3>2. told[b] = IF Region[b] = "rom" THEN RomRead(b % (2 * Span), 1) ELSE 0
      BY <1>1 DEF Init
    <3>3. Region[b] \in Ram => Blank[Region[b]][Index[b]] = 0 /\ Region[b] # "rom"
      <4>1. SUFFICES ASSUME Region[b] \in Ram PROVE Blank[Region[b]][Index[b]] = 0 /\ Region[b] # "rom"
        OBVIOUS
      <4>2. Index[b] \in 0..(Size[Region[b]] - 1)
        BY <3>1, <4>1, IndexTyped
      <4>3. "rom" \notin Ram
        BY DEF Ram
      <4> QED
        BY <4>1, <4>2, <4>3 DEF Blank
    <3> QED
      BY <3>1, <3>2, <3>3, ReadByte
  <2> QED
    BY <2>1
<1>4. told \in [Followed -> Byte]
  <2>1. ASSUME NEW b \in Followed PROVE (IF Region[b] = "rom" THEN RomRead(b % (2 * Span), 1) ELSE 0) \in Byte
    <3>1. b \in Nat /\ 2 * Span \in Nat \ {0}
      BY Spaces, LoadStoreAssumption
    <3>2. b % (2 * Span) \in Nat
      <4> DEFINE p == 2 * Span
      <4>1. p \in Nat \ {0}
        BY <3>1
      <4> HIDE DEF p
      <4>2. b % p \in Nat
        BY <3>1, <4>1, DivMod
      <4> QED
        BY <4>2 DEF p
    <3>3. RomRead(b % (2 * Span), 1) \in 0..(Place(1) - 1)
      BY <3>2, RomReadTyped
    <3>4. Place(1) = ByteValues
      BY Places
    <3> QED
      BY <3>3, <3>4, ZeroIsByte DEF Byte
  <2> QED
    BY <1>1, <2>1 DEF Init
<1>5. regs \in [Registers -> Word] /\ kind \in [up : BOOLEAN, full : BOOLEAN]
  <2>1. Values \cup {Bottom} \subseteq Word
    BY LoadStoreAssumption
  <2> QED
    BY <1>1, <2>1 DEF Init
<1>6. mem = Blank
  BY <1>1 DEF Init
<1> QED
  BY <1>2, <1>3, <1>4, <1>5, <1>6 DEF IInv, TypeOK, Agree

LEMMA DepthTyped ==
    ASSUME regs \in Registry
    PROVE  Depth \in Int
<1>1. regs[Sp] \in Int /\ Bottom \in Int
  BY RegistersAre, Spaces, LoadStoreAssumption DEF Registry
<1> DEFINE x == IF kind.up THEN regs[Sp] - Bottom ELSE Bottom - regs[Sp]
<1>2. x \in Int
  BY <1>1
<1> HIDE DEF x
<1>3. x \div 4 \in Int
  BY <1>2, SMT
<1> QED
  BY <1>3 DEF Depth, x

LEMMA NextKeeps ==
    ASSUME Held, regs \in Registry, kind \in [up : BOOLEAN, full : BOOLEAN], Next
    PROVE  Keeps
<1> DEFINE U == kind.up
           F == kind.full
<1>1. U \in BOOLEAN /\ F \in BOOLEAN
  OBVIOUS
<1>2. /\ Low \subseteq Registers /\ Elsewhere \subseteq Registers /\ Sp \in Registers
      /\ Values \subseteq Word /\ Offsets \subseteq Int /\ 4 \in Int
  BY RegistersAre, LoadStoreAssumption
<1>3. "word" \in Kinds /\ "byte" \in Kinds /\ "half" \in Kinds
  BY DEF Kinds
<1>4. CASE SetRegister
  BY <1>2, <1>4, SetKeeps DEF SetRegister
<1>5. CASE ArmPushPop
  <2>1. PICK load \in BOOLEAN, rd \in Elsewhere :
          ArmSingleTransfer("word", F # load, U # load, F # load, load, Sp, rd, 4)
    BY <1>5 DEF ArmPushPop
  <2>2. ArmTransfer("word", F # load, U # load, F # load, load, Sp, rd, 4)
    BY <2>1 DEF ArmSingleTransfer
  <2>3. (U # load) \in BOOLEAN /\ rd \in Registers
    BY <1>2
  <2> HIDE DEF U, F
  <2> QED
    BY <1>2, <1>3, <2>2, <2>3, ArmTransferKeeps
<1>6. CASE ArmSingle
  <2>1. PICK pre \in BOOLEAN, up \in BOOLEAN, load \in BOOLEAN, rn \in Low, rd \in Low,
             offset \in Offsets :
          \E what \in IF load THEN Kinds ELSE {"word", "byte", "half"},
             wb \in IF pre THEN BOOLEAN ELSE {TRUE} :
            /\ ~load => Harmless(Address(pre, up, regs[rn], offset), Bytes(what))
            /\ \/ ArmSingleTransfer(what, pre, up, wb, load, rn, rd, offset)
               \/ ArmHalfwordTransfer(what, pre, up, wb, load, rn, rd, offset)
    BY <1>6, Zenon DEF ArmSingle
  <2>2. PICK what \in IF load THEN Kinds ELSE {"word", "byte", "half"},
             wb \in IF pre THEN BOOLEAN ELSE {TRUE} :
          ArmTransfer(what, pre, up, wb, load, rn, rd, offset)
    BY <2>1, Zenon DEF ArmSingleTransfer, ArmHalfwordTransfer
  <2>3. what \in Kinds /\ (~load => what \in {"word", "half", "byte"})
    BY <1>3, <2>2
  <2>4. rn \in Registers /\ rd \in Registers /\ offset \in Int
    BY <1>2
  <2> QED
    BY <2>2, <2>3, <2>4, ArmTransferKeeps
<1>7. CASE ArmSwap
  <2>1. PICK what \in {"word", "byte"}, rn \in Low, rd \in Low, rm \in Low :
          ArmSwp(what, rn, rd, rm)
    BY <1>7 DEF ArmSwap
  <2> QED
    BY <1>2, <2>1, ArmSwpKeeps
<1>8. CASE ThumbSingle
  <2>1. PICK load \in BOOLEAN, rb \in Low, rd \in Low :
          \E what \in IF load THEN Kinds ELSE {"word", "byte", "half"} :
            \/ \E ro \in Low :
                 /\ ~load => Harmless(Plus(regs[rb], regs[ro]), Bytes(what))
                 /\ \/ ThumbLoadStoreReg(what, load, rb, ro, rd)
                    \/ ThumbLoadStoreSign(what, load, rb, ro, rd)
            \/ \E offset \in Offsets :
                 /\ ~load => Harmless(Plus(regs[rb], offset), Bytes(what))
                 /\ \/ ThumbLoadStoreImm(what, load, rb, rd, offset)
                    \/ what = "half" /\ ThumbLoadStoreHalf(load, rb, rd, offset)
    BY <1>8, Zenon DEF ThumbSingle
  <2>2. PICK what \in IF load THEN Kinds ELSE {"word", "byte", "half"} :
          \/ \E ro \in Low : ThumbTransfer(what, load, rd, Plus(regs[rb], regs[ro]))
          \/ \E offset \in Offsets : ThumbTransfer(what, load, rd, Plus(regs[rb], offset))
    BY <2>1, Zenon DEF ThumbLoadStoreReg, ThumbLoadStoreSign, ThumbLoadStoreImm, ThumbLoadStoreHalf
  <2>3. what \in Kinds /\ (~load => what \in {"word", "half", "byte"})
    BY <1>3, <2>2
  <2>4. \A r \in Low : regs[r] \in Word /\ regs[r] \in Int
    BY <1>2, Spaces DEF Registry
  <2>5. PICK n \in Int : ThumbTransfer(what, load, rd, Plus(regs[rb], n))
    BY <1>2, <2>2, <2>4
  <2>6. Plus(regs[rb], n) \in Word
    BY <2>4, PlusTyped
  <2>7. rd \in Registers
    BY <1>2
  <2> QED
    BY <2>3, <2>5, <2>6, <2>7, ThumbTransferKeeps
<1>9. CASE ThumbPcRel
  <2>1. PICK rd \in Low, a \in Values : ThumbPcRelLoad(rd, a)
    BY <1>9 DEF ThumbPcRel
  <2>2. Read(mem, a, 4) \in Word /\ rd \in Registers
    BY <1>2, ReadIsWord DEF Held
  <2> QED
    BY <2>1, <2>2, SetKeeps DEF ThumbPcRelLoad
<1>10. CASE ThumbFrame
  <2>1. CASE \E load \in BOOLEAN, rd \in Low, i \in 1..Depth :
               ThumbSpRelLoadStore(load, rd, 4 * (i - 1))
    <3>1. PICK load \in BOOLEAN, rd \in Low, i \in 1..Depth :
            ThumbSpRelLoadStore(load, rd, 4 * (i - 1))
      BY <2>1
    <3>2. 4 * (i - 1) \in Int /\ rd \in Registers
      BY <1>2, DepthTyped
    <3> QED
      BY <3>1, <3>2, SpRelKeeps
  <2>2. CASE \E n \in 1..Depth : ThumbAdjustSp(4 * n)
    <3>1. PICK n \in 1..Depth : ThumbAdjustSp(4 * n)
      BY <2>2
    <3>2. 4 * n \in Int /\ regs[Sp] \in Word
      BY <1>2, DepthTyped DEF Registry
    <3>3. Plus(regs[Sp], 4 * n) \in Word
      BY <3>2, PlusTyped
    <3> QED
      BY <1>2, <3>1, <3>3, SetKeeps DEF ThumbAdjustSp
  <2>3. CASE \E list \in SUBSET Low, lr \in BOOLEAN : ThumbPush(list, lr)
    BY <1>2, <2>3, PushKeeps
  <2>4. CASE \E list \in SUBSET Low, lr \in BOOLEAN : ThumbPop(list, lr)
    BY <1>2, <2>4, PopKeeps
  <2> QED
    BY <1>10, <2>1, <2>2, <2>3, <2>4 DEF ThumbFrame
<1>11. CASE ArmBlockPushPop
  <2>1. PICK load \in BOOLEAN, list \in SUBSET Registers :
          ArmBlockTransfer(F # load, U # load, TRUE, load, Sp, list)
    BY <1>11 DEF ArmBlockPushPop
  <2>2. (F # load) \in BOOLEAN /\ (U # load) \in BOOLEAN
    OBVIOUS
  <2> HIDE DEF U, F
  <2> QED
    BY <1>2, <2>1, <2>2, ArmBlockKeeps
<1>12. CASE ArmBlock
  <2>1. PICK pre \in BOOLEAN, up \in BOOLEAN, wb \in BOOLEAN, load \in BOOLEAN, rn \in Low,
             list \in SUBSET Low : ArmBlockTransfer(pre, up, wb, load, rn, list)
    BY <1>12 DEF ArmBlock
  <2> QED
    BY <1>2, <2>1, ArmBlockKeeps
<1>13. CASE ThumbBlock
  <2>1. PICK load \in BOOLEAN, rb \in Low, list \in SUBSET Low :
          ThumbMultipleLoadStore(load, rb, list)
    BY <1>13 DEF ThumbBlock
  <2> QED
    BY <1>2, <2>1, ThumbBlockKeeps
<1> QED
  BY <1>4, <1>5, <1>6, <1>7, <1>8, <1>9, <1>10, <1>11, <1>12, <1>13 DEF Next

LEMMA IInvStays == IInv /\ [Next]_vars => IInv'
<1>1. SUFFICES ASSUME IInv, [Next]_vars PROVE IInv'
  OBVIOUS
<1>2. Held /\ regs \in Registry /\ kind \in [up : BOOLEAN, full : BOOLEAN]
  BY <1>1 DEF IInv, TypeOK, Held, Registry
<1>3. CASE Next
  <2>1. Held' /\ regs' \in Registry /\ kind' = kind
    BY <1>2, <1>3, NextKeeps DEF Keeps
  <2>2. IsMemory(mem)' /\ (told \in [Followed -> Byte])' /\ Agree(mem, told)'
    BY <2>1 DEF Held
  <2>3. (regs \in [Registers -> Word])' /\ (kind \in [up : BOOLEAN, full : BOOLEAN])'
    BY <1>2, <2>1 DEF Registry
  <2> QED
    BY <2>2, <2>3 DEF IInv, TypeOK
<1>4. CASE UNCHANGED vars
  BY <1>1, <1>4 DEF IInv, TypeOK, Agree, IsMemory, vars
<1> QED
  BY <1>1, <1>3, <1>4

LEMMA IInvHolds == Spec => []IInv
<1>1. Init => IInv
  BY InitHolds
<1>2. IInv /\ [Next]_vars => IInv'
  BY IInvStays
<1> QED
  BY <1>1, <1>2, PTL DEF Spec

\* Memories hold bytes, registers words, and the program's stack is of one kind,
\* through all the loads, stores and block transfers of both instruction sets.
THEOREM TypeCorrect == Spec => []TypeOK
<1>1. IInv => TypeOK
  BY DEF IInv
<1> QED
  BY <1>1, IInvHolds, PTL

-----------------------------------------------------------------------------
(***************************************************************************)
(* Loads of halfwords and words.                                           *)
(***************************************************************************)
SameBytes(n, f, i, g, j) ==
    /\ n \in {1, 2, 4} /\ i \in Nat /\ j \in Nat
    /\ \A k \in 0..(n - 1) : f[i + k] = g[j + k]

LEMMA JoinedSame ==
    ASSUME NEW n, NEW f, NEW g, NEW i, NEW j, SameBytes(n, f, i, g, j)
    PROVE  Joined(f, i, n) = Joined(g, j, n)
<1>1. 0 \in 0..(n - 1) /\ i + 0 = i /\ j + 0 = j
  BY DEF SameBytes
<1>2. f[i] = g[j]
  BY <1>1 DEF SameBytes
<1>3. CASE n = 1
  BY <1>2, <1>3 DEF Joined
<1>4. CASE n = 2
  <2>1. f[i + 1] = g[j + 1]
    BY <1>4 DEF SameBytes
  <2> QED
    BY <1>2, <1>4, <2>1 DEF Joined
<1>5. CASE n = 4
  <2>1. f[i + 1] = g[j + 1] /\ f[i + 2] = g[j + 2] /\ f[i + 3] = g[j + 3]
    BY <1>5 DEF SameBytes
  <2> QED
    BY <1>2, <1>5, <2>1 DEF Joined
<1> QED
  BY <1>3, <1>4, <1>5 DEF SameBytes

\* Blocks whose first byte is followed are followed whole.
LEMMA BlockFollowed ==
    ASSUME NEW a \in Followed, NEW n \in {2, 4}, NEW k \in 0..(n - 1)
    PROVE  Aligned(a, n) + k \in Followed
<1>1. a \in Nat
  BY Spaces, LoadStoreAssumption
<1>2. Aligned(a, n) + k \in Aligned(a, 4)..(Aligned(a, 4) + 3)
  <2>1. CASE n = 2
    BY <1>1, <2>1, SMT DEF Aligned
  <2>2. CASE n = 4
    BY <1>1, <2>2, SMT DEF Aligned
  <2> QED
    BY <2>1, <2>2
<1> QED
  BY <1>2, LoadStoreAssumption

Wide(n) == n \in {2, 4}

\* A load of n bytes finds what is expected at each.
LEMMA WideIsJoined ==
    ASSUME NEW m, NEW t, Agree(m, t), NEW a \in Followed, NEW n, Wide(n),
           Region[a] # "sram",
           Region[a] = "rom" => (Aligned(a, n) % (2 * Span)) + n <= Len(Rom)
    PROVE  Read(m, a, n) = Joined(t, Aligned(a, n), n)
<1> DEFINE c == Aligned(a, n)
           r == Region[a]
<1>1. a \in Word /\ n \in {1, 2, 4}
  BY LoadStoreAssumption DEF Wide
<1>2. /\ c \in Word /\ c % n = 0 /\ Region[c] = r /\ r \in Regions
      /\ \A k \in 0..(n - 1) : c + k \in Word
  BY <1>1, AlignedTyped, ReachedFacts DEF Reached
<1>3. c \in Nat
  BY <1>2, Spaces
<1>4. ASSUME NEW k \in 0..(n - 1)
      PROVE  t[c + k] = Read(m, c + k, 1) /\ Beside(n, c, k)
  <2>1. c + k \in Followed
    BY BlockFollowed DEF Wide
  <2>2. c + k \in Word
    BY <1>2
  <2> HIDE DEF c
  <2>3. Beside(n, c, k)
    BY <1>1, <1>2, <2>2, IndexRuns, Zenon
  <2> QED
    BY <2>1, <2>3 DEF Agree
<1>5. Read(m, a, n) =
        CASE r = "open" -> 0
          [] r = "rom" -> RomRead(c % (2 * Span), n)
          [] r = "sram" -> Replicated(m.sram[Index[c]], n)
          [] OTHER -> Joined(m[r], Index[c], n)
  BY <1>2 DEF Read
<1> HIDE DEF c
<1>6. CASE r = "open"
  <2>1. \A k \in 0..(n - 1) : t[c + k] = 0
    <3>1. ASSUME NEW k \in 0..(n - 1) PROVE t[c + k] = 0
      <4>1. Region[c + k] = "open" /\ c + k \in Word
        BY <1>2, <1>4, <1>6 DEF Beside
      <4>2. "open" \notin Ram
        BY DEF Ram
      <4> QED
        BY <1>4, <4>1, <4>2, ReadByte
    <3> QED
      BY <3>1
  <2> DEFINE zeros == [i \in Nat |-> 0]
  <2>2. \A k \in 0..(n - 1) : t[c + k] = zeros[0 + k]
    BY <2>1
  <2>3. Joined(t, c, n) = Joined(zeros, 0, n)
    <3>1. SameBytes(n, t, c, zeros, 0)
      BY <1>1, <1>3, <2>2 DEF SameBytes
    <3> HIDE DEF zeros
    <3> QED
      BY <3>1, JoinedSame, Zenon
  <2>4. Joined(zeros, 0, n) = 0
    <3>1. ByteValues \in Nat /\ ByteValues * 0 = 0
      BY Places
    <3>2. CASE n = 2
      <4>1. Joined(zeros, 0, n) = zeros[0] + ByteValues * zeros[0 + 1]
        BY <3>2 DEF Joined
      <4> QED
        BY <3>1, <4>1
    <3>3. CASE n = 4
      <4>1. Joined(zeros, 0, n) = zeros[0] + ByteValues * (zeros[0 + 1]
                + ByteValues * (zeros[0 + 2] + ByteValues * zeros[0 + 3]))
        BY <3>3 DEF Joined
      <4> QED
        BY <3>1, <4>1
    <3> QED
      BY <3>2, <3>3 DEF Wide
  <2> QED
    BY <1>5, <1>6, <2>3, <2>4 DEF c
<1>7. CASE r = "rom"
  <2> DEFINE S == 2 * Span
             o == c % S
  <2>1. S \in Nat \ {0} /\ S % 4 = 0
    BY Spaces, SMT
  <2> HIDE DEF S
  <2>2. o \in Nat /\ o + n <= Len(Rom)
    <3>1. o \in Nat
      BY <1>3, <2>1, DivMod
    <3> QED
      BY <1>7, <3>1 DEF c, S
  <2>3. RomRead(o, n) = Joined(Rom, o + 1, n)
    BY <2>2 DEF RomRead
  <2>4. ASSUME NEW k \in 0..(n - 1) PROVE t[c + k] = Rom[(o + 1) + k]
    <3>1. Region[c + k] = "rom" /\ c + k \in Word /\ "rom" \notin Ram
      BY <1>2, <1>4, <1>7 DEF Beside, Ram
    <3>2. t[c + k] = RomRead((c + k) % S, 1)
      BY <1>4, <3>1, ReadByte DEF S
    <3>3. Runs(n, S, c, k)
      BY <1>1, <1>2, <1>3, <2>1, RunInBlock, Zenon
    <3>4. (c + k) % S = o + k
      BY <3>3 DEF Runs
    <3> HIDE DEF o
    <3>5. (o + k) + 1 <= Len(Rom) /\ (o + k) + 1 = (o + 1) + k
      <4>1. Len(Rom) \in Nat
        BY MemoryAssumption, LenProperties
      <4> QED
          BY <1>1, <2>2, <4>1
    <3> QED
      BY <3>2, <3>4, <3>5 DEF RomRead, Joined
  <2>5. Joined(t, c, n) = Joined(Rom, o + 1, n)
    <3>1. o + 1 \in Nat /\ \A k \in 0..(n - 1) : t[c + k] = Rom[(o + 1) + k]
      BY <2>2, <2>4
    <3>2. SameBytes(n, t, c, Rom, o + 1)
      BY <1>1, <1>3, <3>1 DEF SameBytes
    <3> HIDE DEF o
    <3> QED
      BY <3>2, JoinedSame, Zenon
  <2> QED
    BY <1>5, <1>7, <2>3, <2>5 DEF c, S
<1>8. CASE r \in Ram
  <2>1. ASSUME NEW k \in 0..(n - 1) PROVE t[c + k] = m[r][Index[c] + k] /\ Index[c] \in Nat
    <3>1. Region[c + k] = r /\ c + k \in Word /\ Index[c + k] = Index[c] + k /\ Index[c] \in Nat
      BY <1>2, <1>4, <1>8 DEF Beside
    <3>2. t[c + k] = m[r][Index[c + k]]
      BY <1>4, <1>8, <3>1, ReadByte
    <3> QED
      BY <3>1, <3>2
  <2>2. Index[c] \in Nat
    <3>1. 0 \in 0..(n - 1)
      BY DEF Wide
    <3> QED
      BY <2>1, <3>1
  <2>3. Joined(t, c, n) = Joined(m[r], Index[c], n)
    <3>1. SameBytes(n, t, c, m[r], Index[c])
      BY <1>1, <1>3, <2>1, <2>2 DEF SameBytes
    <3> HIDE DEF r
    <3> QED
      BY <3>1, JoinedSame, ZenonT(60)
  <2>4. r # "sram" /\ r # "rom" /\ r # "open"
    BY <1>8 DEF Ram
  <2> QED
    BY <1>5, <2>3, <2>4 DEF c
<1> QED
  BY <1>2, <1>6, <1>7, <1>8 DEF Regions

\* Through every mirror, and with accesses of every width, a program finds the
\* bytes that it stored last where the memory map says they are.
THEOREM StoresCorrect == Spec => []StoresAreFound
<1>1. ASSUME IInv PROVE StoresAreFound
  <2>1. Agree(mem, told)
    BY <1>1 DEF IInv
  <2>2. \A a \in Followed : Loaded(mem, "byte", a) = told[a]
    BY <2>1 DEF Agree, Loaded
  <2>3. ASSUME NEW a \in Followed, Region[a] # "sram", NEW n \in {2, 4},
               Region[a] = "rom" => (Aligned(a, n) % (2 * Span)) + n <= Len(Rom)
        PROVE  Read(mem, a, n) = Joined(told, Aligned(a, n), n)
    BY <2>1, <2>3, WideIsJoined DEF Wide
  <2>4. \A a : /\ Loaded(mem, "half", a) = Read(mem, a, 2)
               /\ Loaded(mem, "word", a) = Rotated(Read(mem, a, 4), a % 4)
    BY DEF Loaded
  <2> QED
    BY <2>2, <2>3, <2>4 DEF StoresAreFound
<1> QED
  BY <1>1, IInvHolds, PTL

-----------------------------------------------------------------------------
(***************************************************************************)
(* Words in memory.                                                        *)
(***************************************************************************)
\* Dividing twice.
LEMMA DivDiv ==
    ASSUME NEW x \in Nat, NEW p \in Nat \ {0}, NEW q \in Nat \ {0}
    PROVE  (x \div p) \div q = x \div (p * q)
<1> DEFINE y == x \div p
           r == x % p
           g == y \div q
           e == y % q
           b == p * e + r
           t == p * q
<1>1. y \in Nat /\ r \in 0..(p - 1) /\ x = p * y + r
  BY DivMod
<1> HIDE DEF y, r
<1>2. g \in Nat /\ e \in 0..(q - 1) /\ y = q * g + e
  BY <1>1, DivMod
<1> HIDE DEF g, e
<1>3. t \in Nat \ {0}
  BY SMT
<1>4. b \in Nat /\ b < t
  <2>1. p * e >= 0 /\ p * e <= p * (q - 1) /\ p * (q - 1) = p * q - p
    BY <1>2, SMT
  <2> DEFINE u == p * e
             v == p * (q - 1)
  <2>2. u \in Int /\ v \in Int /\ u >= 0 /\ u <= v /\ v = t - p /\ b = u + r
    BY <1>2, <2>1
  <2> HIDE DEF u, v, b, t
  <2> QED
    BY <1>1, <1>3, <2>2
<1>5. x = t * g + b
  <2>1. p * y = (p * q) * g + p * e
    BY <1>1, <1>2, SMT
  <2> DEFINE u == p * y
             v == t * g
             w == p * e
  <2>2. u \in Int /\ v \in Int /\ w \in Int /\ u = v + w /\ x = u + r /\ b = w + r
    BY <1>1, <1>2, <1>3, <2>1
  <2> HIDE DEF u, v, w, b, t
  <2>3. x = v + b
    BY <1>1, <2>2
  <2> QED
    BY <2>3 DEF v
<1> HIDE DEF b, t
<1>6. (t * g + b) \div t = g
  BY <1>2, <1>3, <1>4, ModUnique
<1> QED
  BY <1>5, <1>6 DEF t, g, y

\* The bytes of a word make it up.
LEMMA WordOfBytes ==
    ASSUME NEW v \in Word
    PROVE  ByteOf(v, 0) + ByteValues * (ByteOf(v, 1)
             + ByteValues * (ByteOf(v, 2) + ByteValues * ByteOf(v, 3))) = v
<1> DEFINE B == ByteValues
           q1 == v \div B
           q2 == q1 \div B
           q3 == q2 \div B
<1>1. /\ B \in Nat \ {0} /\ v \in Nat /\ B * B \in Nat \ {0} /\ B * (B * B) \in Nat \ {0}
      /\ WordModulus = (B * B) * (B * B)
  BY Places, Spaces DEF WordModulus
<1>2. Place(0) = 1 /\ Place(1) = B /\ Place(2) = B * B /\ Place(3) = B * (B * B)
  BY Places DEF Place
<1>3. v \div Place(0) = v /\ v \div Place(1) = q1
  BY <1>1, <1>2
<1>4. v \div Place(2) = q2
  BY <1>1, <1>2, DivDiv
<1>5. v \div Place(3) = q3
  <2>1. q1 \div (B * B) = q3
    <3>1. q1 \in Nat
      BY <1>1, DivMod
    <3> HIDE DEF q1, B
    <3> QED
      BY <1>1, <3>1, DivDiv
  <2> DEFINE C == B * B
  <2>2. C \in Nat \ {0} /\ Place(3) = B * C
    BY <1>1, <1>2
  <2>3. q1 \div C = v \div (B * C)
    <3> HIDE DEF C
    <3> QED
      BY <1>1, <2>2, DivDiv
  <2> QED
    BY <2>1, <2>2, <2>3
<1>6. q3 < B
  <2> DEFINE C == B * (B * B)
             r == v % C
  <2>1. C \in Nat \ {0} /\ q3 = v \div C /\ WordModulus = B * C
    <3>1. WordModulus = B * (B * (B * B))
      BY <1>1, SMT
    <3> QED
      BY <1>1, <1>2, <1>5, <3>1
  <2> HIDE DEF C
  <2>2. q3 \in Nat /\ r \in 0..(C - 1) /\ v = C * q3 + r /\ v < B * C
    <3>1. v < WordModulus
      BY Spaces
    <3> HIDE DEF q3
    <3> QED
      BY <1>1, <2>1, <3>1, DivMod
  <2> HIDE DEF q3, r, B
  <2>3. ASSUME q3 >= B PROVE FALSE
    <3>1. C * q3 >= C * B /\ C * B = B * C
      BY <1>1, <2>1, <2>2, <2>3, SMT
    <3> DEFINE u == C * q3
               w == B * C
    <3>2. u \in Int /\ w \in Int /\ u >= w /\ v = u + r /\ v < w
      BY <1>1, <2>1, <2>2, <3>1
    <3> HIDE DEF u, w
    <3> QED
      BY <2>2, <3>2
  <2> QED
    BY <1>1, <2>2, <2>3
<1>7. v = B * q1 + (v % B) /\ q1 \in Nat /\ v % B \in Nat
  <2> HIDE DEF B
  <2>1. v = B * (v \div B) + (v % B) /\ v \div B \in Nat /\ v % B \in 0..(B - 1)
    BY <1>1, DivMod
  <2> QED
    BY <1>1, <2>1
<1>8. q1 = B * q2 + (q1 % B) /\ q2 \in Nat /\ q1 % B \in Nat
  <2> HIDE DEF q1, B
  <2>1. q1 = B * (q1 \div B) + (q1 % B) /\ q1 \div B \in Nat /\ q1 % B \in 0..(B - 1)
    BY <1>1, <1>7, DivMod
  <2> QED
    BY <1>1, <2>1
<1>9. q2 = B * q3 + (q2 % B) /\ q3 \in Nat /\ q2 % B \in Nat
  <2> HIDE DEF q2, B
  <2>1. q2 = B * (q2 \div B) + (q2 % B) /\ q2 \div B \in Nat /\ q2 % B \in 0..(B - 1)
    BY <1>1, <1>8, DivMod
  <2> QED
    BY <1>1, <2>1
<1>10. q3 % B = q3
  <2> HIDE DEF q3
  <2> QED
    BY <1>1, <1>6, <1>9, ModSmall
<1>11. /\ ByteOf(v, 0) = v % B /\ ByteOf(v, 1) = q1 % B
       /\ ByteOf(v, 2) = q2 % B /\ ByteOf(v, 3) = q3
  BY <1>3, <1>4, <1>5, <1>10 DEF ByteOf
<1> DEFINE e0 == v % B
           e1 == q1 % B
           e2 == q2 % B
<1>12. e2 + B * q3 = q2
  <2> DEFINE u == B * q3
  <2>1. u \in Int /\ q2 = u + e2 /\ e2 \in Nat
    BY <1>1, <1>9
  <2> HIDE DEF u, q2, e2
  <2>2. e2 + u = q2
    BY <2>1
  <2> QED
    BY <2>2 DEF u
<1>13. e1 + B * q2 = q1
  <2> DEFINE u == B * q2
  <2>1. u \in Int /\ q1 = u + e1 /\ e1 \in Nat
    BY <1>1, <1>8
  <2> HIDE DEF u, q1, e1
  <2>2. e1 + u = q1
    BY <2>1
  <2> QED
    BY <2>2 DEF u
<1>14. e0 + B * q1 = v
  <2> DEFINE u == B * q1
  <2>1. u \in Int /\ v = u + e0 /\ e0 \in Nat
    BY <1>1, <1>7
  <2> HIDE DEF u, e0
  <2>2. e0 + u = v
    BY <2>1
  <2> QED
    BY <2>2 DEF u
<1> HIDE DEF q1, q2, q3
<1> QED
  BY <1>11, <1>12, <1>13, <1>14

\* Where words can be kept.
Holds(b) == b \in Word /\ b % 4 = 0 /\ Region[b] \in Ram \ {"sram"}

\* Stores of n bytes at a leave the word at b alone.
Apart(a, n, b) == \A m \in Contents, v \in Word : Read(Write(m, a, n, v), b, 4) = Read(m, b, 4)

\* A word stored at a is found there.
Takes(a) == \A m \in Contents, v \in Word : Read(Write(m, a, 4, v), a, 4) = v

\* The four cells of a word.
LEMMA CellsOfWord ==
    ASSUME NEW b, Holds(b)
    PROVE  /\ Index[b] \in Nat /\ Index[b] % 4 = 0
           /\ \A k \in 0..3 : /\ b + k \in Word /\ Region[b + k] = Region[b]
                              /\ Index[b + k] = Index[b] + k
                              /\ Index[b] + k \in 0..(Size[Region[b]] - 1)
<1>1. b \in Word /\ b % 4 = 0 /\ Region[b] \in Ram
  BY DEF Holds
<1>2. b \in Nat /\ Aligned(b, 4) = b
  BY <1>1, Spaces, AlignedAlready
<1>3. \A k \in 0..3 : b + k \in Word
  <2>1. \A k \in 0..(4 - 1) : Aligned(b, 4) + k \in Word
    BY <1>1, AlignedTyped
  <2> QED
    BY <1>2, <2>1
<1>4. ASSUME NEW k \in 0..3 PROVE Beside(4, b, k)
  <2>1. k \in 0..(4 - 1) /\ b + k \in Word /\ 4 \in {1, 2, 4}
    BY <1>3
  <2> QED
    BY <1>1, <2>1, IndexRuns, Zenon
<1>5. 0 \in 0..3
  OBVIOUS
<1> QED
  BY <1>1, <1>3, <1>4, <1>5 DEF Beside

LEMMA WordRead ==
    ASSUME NEW m, NEW b, Holds(b)
    PROVE  Read(m, b, 4) = Joined(m[Region[b]], Index[b], 4)
<1>1. b \in Word /\ b % 4 = 0 /\ Region[b] \in Ram /\ Region[b] # "sram"
  BY DEF Holds
<1>2. Aligned(b, 4) = b
  BY <1>1, Spaces, AlignedAlready
<1>3. Region[b] # "open" /\ Region[b] # "rom"
  BY <1>1 DEF Ram
<1>4. Read(m, b, 4) =
        CASE Region[b] = "open" -> 0
          [] Region[b] = "rom" -> RomRead(b % (2 * Span), 4)
          [] Region[b] = "sram" -> Replicated(m.sram[Index[b]], 4)
          [] OTHER -> Joined(m[Region[b]], Index[b], 4)
  BY <1>2 DEF Read
<1> QED
  BY <1>1, <1>3, <1>4

\* The four bytes.
LEMMA WordReadByte ==
    ASSUME NEW m, NEW b, Holds(b)
    PROVE  Read(m, b, 4)
             = m[Region[b]][Index[b]] + ByteValues * (m[Region[b]][Index[b] + 1]
                 + ByteValues * (m[Region[b]][Index[b] + 2]
                 + ByteValues * m[Region[b]][Index[b] + 3]))
BY WordRead DEF Joined

LEMMA HoldsTakes ==
    ASSUME NEW b, Holds(b)
    PROVE  Takes(b)
<1> SUFFICES ASSUME NEW m \in Contents, NEW v \in Word
             PROVE  Read(Write(m, b, 4, v), b, 4) = v
  BY DEF Takes
<1> DEFINE r == Region[b]
           i == Index[b]
           w == Write(m, b, 4, v)
<1>1. b \in Word /\ r \in Ram /\ r # "sram" /\ 4 \in {1, 2, 4} /\ IsMemory(m) /\ v \in Nat
      /\ b % 4 = 0
  BY ContentsAre, Spaces DEF Holds
<1>2. Reached(b, 4) = r
  BY <1>1, ReachedFacts
<1>3. ~Lost(b, 4) /\ ~Doubled(b, 4)
  BY <1>1, <1>2 DEF Lost, Doubled
<1>4. Aligned(b, 4) = b
  BY <1>1, Spaces, AlignedAlready
<1>5. Start(b, 4) = i /\ Cells(b, 4) = 4
  BY <1>1, <1>2, <1>3, <1>4 DEF Start, Cells
<1>6. ASSUME NEW k \in 0..3 PROVE w[r][i + k] = ByteOf(v, k)
  <2>1. i \in Nat /\ i + k \in 0..(Size[r] - 1)
    BY CellsOfWord
  <2>2. w[r][i + k] = IF Hits(b, 4, r, i + k) THEN Given(b, 4, v, i + k) ELSE m[r][i + k]
    <3> HIDE DEF r, i
    <3> DEFINE j == i + k
    <3>1. j \in 0..(Size[r] - 1)
      BY <2>1
    <3> HIDE DEF j
    <3>2. w[r][j] = IF Hits(b, 4, r, j) THEN Given(b, 4, v, j) ELSE m[r][j]
      BY <1>1, <3>1, WriteByte
    <3> QED
      BY <3>2 DEF j
  <2>3. (i + k) - i = k
    BY <2>1
  <2>4. Hits(b, 4, r, i + k)
    BY <1>2, <1>3, <1>5, <2>3 DEF Hits
  <2>5. Given(b, 4, v, i + k) = ByteOf(v, k)
    BY <1>3, <1>5, <2>3 DEF Given
  <2> QED
    BY <2>2, <2>4, <2>5
<1>7. 0 \in 0..3 /\ 1 \in 0..3 /\ 2 \in 0..3 /\ 3 \in 0..3 /\ i + 0 = i
  BY CellsOfWord
<1>8. /\ w[r][i] = ByteOf(v, 0) /\ w[r][i + 1] = ByteOf(v, 1)
      /\ w[r][i + 2] = ByteOf(v, 2) /\ w[r][i + 3] = ByteOf(v, 3)
  <2> HIDE DEF w, r, i
  <2> QED
    BY <1>6, <1>7
<1>9. Read(w, b, 4) = w[r][i] + ByteValues * (w[r][i + 1]
          + ByteValues * (w[r][i + 2] + ByteValues * w[r][i + 3]))
  BY WordReadByte
<1> QED
  BY <1>8, <1>9, WordOfBytes

\* What does not hit one of its cells leaves a word alone.
LEMMA MissesApart ==
    ASSUME NEW b, Holds(b), NEW a \in Word, NEW n \in {1, 2, 4},
           \A k \in 0..3 : ~Hits(a, n, Region[b], Index[b] + k)
    PROVE  Apart(a, n, b)
<1> SUFFICES ASSUME NEW m \in Contents, NEW v \in Word
             PROVE  Read(Write(m, a, n, v), b, 4) = Read(m, b, 4)
  BY DEF Apart
<1> DEFINE r == Region[b]
           i == Index[b]
           w == Write(m, a, n, v)
<1>1. r \in Ram /\ IsMemory(m) /\ v \in Nat
  BY ContentsAre, Spaces DEF Holds
<1>2. ASSUME NEW k \in 0..3 PROVE w[r][i + k] = m[r][i + k]
  <2>1. i \in Nat /\ i + k \in 0..(Size[r] - 1) /\ ~Hits(a, n, r, i + k)
    BY CellsOfWord
  <2>2. w[r][i + k] = IF Hits(a, n, r, i + k) THEN Given(a, n, v, i + k) ELSE m[r][i + k]
    <3> HIDE DEF r, i
    <3> DEFINE j == i + k
    <3>1. j \in 0..(Size[r] - 1)
      BY <2>1
    <3> HIDE DEF j
    <3>2. w[r][j] = IF Hits(a, n, r, j) THEN Given(a, n, v, j) ELSE m[r][j]
      BY <1>1, <3>1, WriteByte
    <3> QED
      BY <3>2 DEF j
  <2> QED
    BY <2>1, <2>2
<1>3. 0 \in 0..3 /\ 1 \in 0..3 /\ 2 \in 0..3 /\ 3 \in 0..3 /\ i + 0 = i
  BY CellsOfWord
<1>4. /\ w[r][i] = m[r][i] /\ w[r][i + 1] = m[r][i + 1]
      /\ w[r][i + 2] = m[r][i + 2] /\ w[r][i + 3] = m[r][i + 3]
  <2> HIDE DEF w, r, i
  <2> QED
    BY <1>2, <1>3
<1> QED
  BY <1>4, WordReadByte

\* What hits one of its cells, does so at an address of the access that is an alias
\* of one of the word.
LEMMA HitsAlias ==
    ASSUME NEW b, Holds(b), NEW a \in Word, NEW n \in {1, 2, 4}, NEW k \in 0..3,
           Hits(a, n, Region[b], Index[b] + k)
    PROVE  \E c \in Aligned(a, n)..(Aligned(a, n) + n - 1), j \in 0..3 :
             c \in Word /\ Alias(c, b + j)
<1> DEFINE r == Region[b]
           s == Start(a, n)
           B == Base(a, n)
           N == Cells(a, n)
           i == (Index[b] + k) - s
<1>1. ~Lost(a, n) /\ r = Reached(a, n) /\ i \in 0..(N - 1)
  BY DEF Hits
<1>2. s \in Nat /\ r \in Ram
      /\ \A e \in 0..(N - 1) : B + e \in Word /\ Region[B + e] = r /\ Index[B + e] = s + e
  BY <1>1, CellsRun
<1>3. Index[b] \in Nat /\ Index[b] % 4 = 0
  BY CellsOfWord
<1>4. ASSUME NEW e \in 0..(N - 1), NEW j \in 0..3, s + e = Index[b] + j
      PROVE  B + e \in Word /\ Alias(B + e, b + j)
  <2>1. b + j \in Word /\ Region[b + j] = r /\ Index[b + j] = Index[b] + j
    BY CellsOfWord
  <2>2. B + e \in Word /\ Region[B + e] = r /\ Index[B + e] = s + e
    BY <1>2
  <2> DEFINE c == B + e
             d == b + j
  <2>3. c \in Word /\ d \in Word /\ Region[c] = Region[d] /\ Region[c] \in Ram /\ Index[c] = Index[d]
    BY <1>2, <1>4, <2>1, <2>2
  <2> HIDE DEF c, d
  <2>4. Alias(c, d)
    BY <2>3, AliasIsCell
  <2> QED
    BY <2>3, <2>4 DEF c, d
<1>5. CASE ~Doubled(a, n)
  <2>1. B = Aligned(a, n) /\ N \in {1, 2, 4} /\ N <= n
    BY <1>5, CellsTyped DEF Base
  <2>2. Aligned(a, n) \in Nat
    <3>1. Aligned(a, n) \in Word
      BY AlignedTyped, Zenon
    <3> QED
      BY <3>1, Spaces
  <2>3. s + i = Index[b] + k
    BY <1>2, <1>3
  <2>4. B + i \in Word /\ Alias(B + i, b + k)
    BY <1>1, <1>4, <2>3
  <2>5. B + i \in Aligned(a, n)..(Aligned(a, n) + n - 1)
    BY <1>1, <2>1, <2>2
  <2> QED
    BY <2>4, <2>5
<1>6. CASE Doubled(a, n)
  <2>1. n = 1 /\ B = Aligned(a, 2) /\ N = 2 /\ Aligned(a, n) = a
    BY <1>6, CellsTyped, ReachedFacts DEF Base, Doubled
  <2>2. s % 2 = 0
    <3>1. Index[Aligned(a, n)] \in Nat
      <4>1. Region[a] \in Ram
        BY <1>1, <1>2, ReachedFacts
      <4> QED
        BY <2>1, <4>1, IndexTyped, Spaces
    <3>2. s = Aligned(Index[Aligned(a, n)], 2)
      BY <1>6 DEF Start
    <3> DEFINE x == Index[Aligned(a, n)]
    <3> HIDE DEF x
    <3> QED
      BY <3>1, <3>2, SMT DEF Aligned, x
  <2>3. PICK e \in 0..1 : a = B + e
    <3>1. a \in Nat
      BY Spaces
    <3> QED
      BY <2>1, <3>1, SMT DEF Aligned
  <2> HIDE DEF B, s
  <2>4. i \in 0..1
    BY <1>1, <2>1
  <2> DEFINE j == k + (e - i)
             x == Index[b]
  <2>5. j \in 0..3 /\ s + e = x + j
    <3>1. x \in Nat /\ x % 4 = 0 /\ i = (x + k) - s
      BY <1>3
    <3> HIDE DEF x, i
    <3>2. s + i = x + k /\ (x + k) % 2 = k % 2 /\ (s + i) % 2 = i
      BY <1>2, <2>2, <2>4, <3>1, SMT
    <3>3. k % 2 = i
      BY <3>2
    <3>4. j \in 0..3
      BY <2>4, <3>3, SMT
    <3> QED
      BY <1>2, <2>4, <3>1, <3>2, <3>4
  <2> HIDE DEF j
  <2>6. e \in 0..(N - 1)
    BY <2>1
  <2>7. B + e \in Word /\ Alias(B + e, b + j)
    BY <1>4, <2>5, <2>6
  <2>8. a \in a..(a + 1 - 1)
    BY Spaces
  <2>9. a \in Word /\ Alias(a, b + j) /\ a \in Aligned(a, n)..(Aligned(a, n) + n - 1)
    BY <2>1, <2>3, <2>7, <2>8
  <2> QED
    BY <2>5, <2>9
<1> QED
  BY <1>5, <1>6

-----------------------------------------------------------------------------
(***************************************************************************)
(* The slots of the stack.                                                 *)
(***************************************************************************)
\* Where the stack pointer is with d words on the stack.
PointsTo(k, d) == Bottom + d * Growth(k)

LEMMA GrowthIs ==
    ASSUME NEW k \in StackKinds
    PROVE  /\ k.up \in BOOLEAN /\ k.full \in BOOLEAN
           /\ Growth(k) = IF k.up THEN 4 ELSE -4
           /\ \A j \in Int : Slot(k, j) = Bottom + (IF k.up THEN 4 * (IF k.full THEN j + 1 ELSE j)
                                                    ELSE -(4 * (IF k.full THEN j + 1 ELSE j)))
           /\ \A j \in Int : PointsTo(k, j) = Bottom + (IF k.up THEN 4 * j ELSE -(4 * j))
<1>1. k.up \in BOOLEAN /\ k.full \in BOOLEAN
  BY DEF StackKinds
<1>2. Growth(k) = IF k.up THEN 4 ELSE -4
  BY DEF Growth
<1>3. Bottom \in Int
  BY LoadStoreAssumption, Spaces
<1> QED
  BY <1>1, <1>2, <1>3 DEF Slot, PointsTo

\* All that the stack may reach is words of memory.
LEMMA SlotTyped ==
    ASSUME NEW k \in StackKinds, NEW j \in 0..(StackWords - 1)
    PROVE  Slot(k, j) \in Slots(k) /\ Holds(Slot(k, j))
<1> DEFINE b == Slot(k, j)
<1>1. StackWords \in Nat /\ Bottom \in Nat /\ Bottom % 4 = 0 /\ WordModulus \in Nat
      /\ Word = 0..(WordModulus - 1)
  BY LoadStoreAssumption, Spaces
<1>2. 4 * StackWords <= Bottom /\ Bottom + 4 * StackWords < WordModulus
  BY StackAssumption
<1>3. b \in Slots(k)
  BY DEF Slots
<1>4. PICK i \in 0..StackWords : b = Bottom + 4 * i \/ b = Bottom - 4 * i
  <2> DEFINE i == IF k.full THEN j + 1 ELSE j
  <2>1. i \in 0..StackWords
    BY <1>1
  <2>2. b = Bottom + (IF k.up THEN 4 * i ELSE -(4 * i))
    BY GrowthIs
  <2> HIDE DEF b, i
  <2> QED
    BY <1>1, <2>1, <2>2
<1>5. b \in Nat /\ b % 4 = 0 /\ b < WordModulus
  <2> HIDE DEF b
  <2> QED
    BY <1>1, <1>2, <1>4, SMT
<1>6. b \in AreaOf(k)
  <2>1. b \in b..(b + 3)
    BY <1>5
  <2> HIDE DEF b
  <2> QED
    BY <1>3, <2>1 DEF AreaOf
<1>7. Region[b] \in Ram \ {"sram"}
  BY <1>6, StackAssumption
<1> HIDE DEF b
<1> QED
  BY <1>1, <1>3, <1>5, <1>7 DEF Holds, b

LEMMA SlotsAre ==
    ASSUME NEW k \in StackKinds, NEW b \in Slots(k)
    PROVE  Holds(b) /\ b \in Nat /\ b % 4 = 0 /\ \A c \in b..(b + 3) : c \in AreaOf(k)
<1>1. PICK j \in 0..(StackWords - 1) : b = Slot(k, j)
  BY DEF Slots
<1>2. Holds(b)
  BY <1>1, SlotTyped
<1> QED
  BY <1>2, Spaces DEF Holds, AreaOf

\* A store into one word of it leaves the others alone.
LEMMA SlotsApart ==
    ASSUME NEW k \in StackKinds, NEW a \in Slots(k), NEW b \in Slots(k), a # b
    PROVE  Apart(a, 4, b)
<1>1. Holds(a) /\ Holds(b) /\ a \in Word /\ a \in Nat /\ b \in Nat /\ a % 4 = 0 /\ b % 4 = 0
  BY SlotsAre DEF Holds
<1>2. ASSUME NEW j \in 0..3, Hits(a, 4, Region[b], Index[b] + j)
      PROVE  FALSE
  <2>1. PICK c \in Aligned(a, 4)..(Aligned(a, 4) + 4 - 1), i \in 0..3 :
          c \in Word /\ Alias(c, b + i)
    <3>1. 4 \in {1, 2, 4}
      OBVIOUS
    <3> QED
      BY <1>1, <1>2, <3>1, HitsAlias, Zenon
  <2>2. c \in a..(a + 3)
    <3>1. Aligned(a, 4) = a
      BY <1>1, AlignedAlready
    <3> QED
      BY <1>1, <2>1, <3>1
  <2>3. c \in AreaOf(k)
    BY <2>2, SlotsAre
  <2>4. b + i \in AreaOf(k)
    <3>1. b + i \in b..(b + 3)
      BY <1>1
    <3> QED
      BY <3>1, SlotsAre
  <2>5. c = b + i
    BY <2>1, <2>3, <2>4, StackAssumption
  <2> QED
    BY <1>1, <2>2, <2>5, SMT
<1> QED
  BY <1>1, <1>2, MissesApart

\* A harmless store leaves all of them alone.
LEMMA HarmlessApart ==
    ASSUME kind \in StackKinds, NEW a \in Word, NEW n \in {1, 2, 4}, Harmless(a, n),
           NEW b \in Slots(kind)
    PROVE  Apart(a, n, b)
<1>1. Holds(b) /\ b \in Nat
  BY SlotsAre
<1>2. ASSUME NEW j \in 0..3, Hits(a, n, Region[b], Index[b] + j)
      PROVE  FALSE
  <2>1. PICK c \in Aligned(a, n)..(Aligned(a, n) + n - 1), i \in 0..3 :
          c \in Word /\ Alias(c, b + i)
    BY <1>1, <1>2, HitsAlias
  <2>2. b + i \in AreaOf(kind)
    <3>1. b + i \in b..(b + 3)
      BY <1>1
    <3> QED
      BY <3>1, SlotsAre
  <2>3. b + i \in Followed
    BY <2>2, StackAssumption
  <2>4. b + i \in Aliases[c]
    BY <2>1, <2>3 DEF Aliases
  <2>5. Aliases[c] \cap StackArea = {}
    BY <2>1 DEF Harmless
  <2> QED
    BY <2>2, <2>4, <2>5 DEF StackArea
<1> QED
  BY <1>1, <1>2, MissesApart

-----------------------------------------------------------------------------
(***************************************************************************)
(* Block transfers, word by word.                                          *)
(***************************************************************************)
LEMMA CountsAre ==
    ASSUME NEW list \in SUBSET Registers
    PROVE  /\ Above(list, 0) = 0
           /\ \A r \in 0..15 : Above(list, r + 1) = IF r \in list THEN Above(list, r) + 1
                                                    ELSE Above(list, r)
           /\ \A r \in list : /\ r \in 0..14 /\ Above(list, r) \in 0..(Cardinality(list) - 1)
                              /\ Cardinality({s \in list : s <= r}) = Above(list, r) + 1
           /\ \A r, q \in list : r # q => Above(list, r) # Above(list, q)
<1> DEFINE T(r) == {s \in list : s < r}
<1>1. list \subseteq 0..14
  BY LoadStoreAssumption DEF Registers, Sp, Lr
<1>a. \A s \in list : s \in 0..14 /\ s \in Nat
  BY <1>1
<1>b. \A r, s : s \in T(r) <=> s \in list /\ s < r
  OBVIOUS
<1>2. IsFiniteSet(list)
  <2>1. IsFiniteSet(0..14)
    BY FS_Interval, 0 \in Int, 14 \in Int
  <2> QED
    BY <1>1, <2>1, FS_Subset
<1>3. ASSUME NEW r PROVE IsFiniteSet(T(r)) /\ Cardinality(T(r)) \in Nat
  <2>1. IsFiniteSet(T(r))
    <3>1. T(r) \in SUBSET list
      OBVIOUS
    <3> QED
      BY <1>2, <3>1, FS_Subset
  <2> QED
    BY <2>1, FS_CardinalityType
<1>4. Above(list, 0) = 0
  <2>1. T(0) = {}
    <3>1. \A s : s \notin T(0)
      BY <1>a, <1>b
    <3> QED
      BY <3>1, Zenon
  <2>2. Above(list, 0) = Cardinality(T(0))
    BY DEF Above
  <2> QED
    BY <2>1, <2>2, FS_EmptySet
<1>5. ASSUME NEW r \in 0..15
      PROVE  /\ r \in list => Above(list, r + 1) = Above(list, r) + 1
             /\ r \notin list => Above(list, r + 1) = Above(list, r)
  <2>1. CASE r \in list
    <3>1. T(r + 1) = T(r) \cup {r} /\ r \notin T(r)
      <4>1. \A s \in list : s < r + 1 <=> s < r \/ s = r
        BY <1>a
      <4>2. ~(r < r)
        BY <1>a, <2>1
      <4>3. \A s : s \in T(r + 1) <=> s \in T(r) \cup {r}
        BY <1>b, <2>1, <4>1
      <4> QED
        BY <1>b, <4>2, <4>3, Zenon
    <3>2. Cardinality(T(r) \cup {r}) = Cardinality(T(r)) + 1
      BY <1>3, <3>1, FS_AddElement
    <3> QED
      BY <2>1, <3>1, <3>2 DEF Above
  <2>2. CASE r \notin list
    <3>1. T(r + 1) = T(r)
      <4>1. \A s \in list : s < r + 1 <=> s < r
        BY <1>a, <2>2
      <4>2. \A s : s \in T(r + 1) <=> s \in T(r)
        BY <1>b, <4>1
      <4> QED
        BY <4>2, Zenon
    <3> QED
      BY <2>2, <3>1 DEF Above
  <2> QED
    BY <2>1, <2>2
<1>c. ASSUME NEW r \in list PROVE {s \in list : s <= r} = T(r + 1)
  <2> DEFINE U == {s \in list : s <= r}
  <2>1. \A s \in list : s < r + 1 <=> s <= r
    BY <1>a
  <2>2. \A s : s \in U <=> s \in T(r + 1)
    BY <1>b, <2>1
  <2> QED
    BY <2>2, Zenon
<1>6. ASSUME NEW r \in list
      PROVE  /\ r \in 0..14 /\ Above(list, r) \in 0..(Cardinality(list) - 1)
             /\ Cardinality({s \in list : s <= r}) = Above(list, r) + 1
  <2>1. r \in 0..14 /\ r \in 0..15
    BY <1>a
  <2>2. {s \in list : s <= r} = T(r + 1)
    BY <1>c
  <2>3. Cardinality(T(r + 1)) = Above(list, r) + 1
    BY <1>5, <2>1 DEF Above
  <2>4. Cardinality(T(r + 1)) <= Cardinality(list)
    <3>1. T(r + 1) \in SUBSET list
      OBVIOUS
    <3> QED
      BY <1>2, <3>1, FS_Subset
  <2>5. Above(list, r) \in Nat /\ Cardinality(list) \in Nat
    BY RegistersAre
  <2> HIDE DEF T
  <2>6. Above(list, r) + 1 <= Cardinality(list)
    BY <2>3, <2>4
  <2>7. Above(list, r) \in 0..(Cardinality(list) - 1)
    BY <2>5, <2>6
  <2> QED
    BY <2>1, <2>2, <2>3, <2>7
<1>7. ASSUME NEW r \in list, NEW q \in list, r < q
      PROVE  Above(list, r) < Above(list, q)
  <2>1. T(r + 1) \in SUBSET T(q)
    <3>1. \A s \in list : s < r + 1 => s < q
      BY <1>a, <1>7
    <3>2. \A s \in T(r + 1) : s \in T(q)
      BY <1>b, <3>1
    <3> QED
      BY <3>2, Zenon
  <2>2. Cardinality(T(r + 1)) <= Cardinality(T(q))
    BY <1>3, <2>1, FS_Subset
  <2>3. Cardinality(T(r + 1)) = Above(list, r) + 1
    BY <1>6, <1>c
  <2>4. Cardinality(T(q)) = Above(list, q)
    BY DEF Above
  <2>5. Above(list, r) \in Nat /\ Above(list, q) \in Nat
    BY RegistersAre
  <2> HIDE DEF T
  <2> QED
    BY <2>2, <2>3, <2>4, <2>5
<1>8. ASSUME NEW r \in list, NEW q \in list, r # q
      PROVE  Above(list, r) # Above(list, q)
  <2>1. r < q \/ q < r
    BY <1>1, <1>8
  <2>2. Above(list, r) \in Nat /\ Above(list, q) \in Nat
    BY RegistersAre
  <2> QED
    BY <1>7, <2>1, <2>2
<1> QED
  BY <1>4, <1>5, <1>6, <1>8

LEMMA AboveDiffers ==
    ASSUME NEW list \in SUBSET Registers, NEW r \in list, NEW q \in list, r # q
    PROVE  Above(list, r) # Above(list, q)
<1>1. \A s, t \in list : s # t => Above(list, s) # Above(list, t)
  BY CountsAre, Zenon
<1> QED
  BY <1>1

LEMMA PlusPlus ==
    ASSUME NEW a \in Word, NEW m \in Int, NEW n \in Int
    PROVE  Plus(Plus(a, m), n) = Plus(a, m + n)
<1> DEFINE M == WordModulus
           x == a + m
<1>1. M \in Nat \ {0} /\ x \in Int /\ a \in Int
  BY Spaces
<1>2. x + n = a + (m + n)
  BY <1>1
<1> HIDE DEF M, x
<1>3. ((x % M) + n) % M = (x + n) % M
  BY <1>1, IntModAdd
<1> QED
  BY <1>2, <1>3 DEF M, x, Plus

\* Where a block transfer from `start` has the word of register r.
Where(start, list, r) == Plus(start, 4 * Above(list, r))

\* What a block transfer does to a word in memory, if each of its stores does its part.
LEMMA BlockGoes ==
    ASSUME Held, NEW start \in Word, NEW list \in SUBSET Registers, NEW words,
           DOMAIN words = list, \A r \in list : words[r] \in Word, StoreBlock(start, words),
           NEW b, NEW g, g[0] = Read(mem, b, 4),
           \A r \in list : \A m \in Contents : Read(m, b, 4) = g[r] =>
             Read(Write(m, Where(start, list, r), 4, words[r]), b, 4) = g[r + 1],
           \A r \in 0..15 : r \notin list => g[r + 1] = g[r]
    PROVE  Read(mem', b, 4) = g[16]
<1>1. PICK f : Turns(start, words, f) /\ mem' = f[16].mem /\ told' = f[16].told
  BY StoreBlockTurns
<1> DEFINE S == [i \in 0..16 |->
             {s \in Moment : s.at = Where(start, list, i) /\ Read(s.mem, b, 4) = g[i]}]
<1>2. f[0] \in S[0]
  <2>1. f[0] \in Moment /\ f[0] = [mem |-> mem, told |-> told, at |-> start]
    BY <1>1 DEF Turns
  <2>2. Where(start, list, 0) = start
    <3>1. Above(list, 0) = 0
      BY CountsAre
    <3>2. start \in Nat /\ WordModulus \in Nat \ {0} /\ start < WordModulus
      BY Spaces
    <3>3. start % WordModulus = start
      BY <3>2, ModSmall
    <3> QED
      BY <3>1, <3>2, <3>3 DEF Where, Plus
  <2> QED
    BY <2>1, <2>2
<1>3. ASSUME NEW i \in 1..16, f[i - 1] \in S[i - 1] PROVE f[i] \in S[i]
  <2> DEFINE r == i - 1
             s == f[r]
  <2>1. r \in 0..15 /\ r + 1 = i /\ r \in 0..16 /\ i \in 0..16
    BY SMT
  <2>2. f[i] = StoreNext(s, r, words) /\ f[i] \in Moment
    BY <1>1, <2>1 DEF Turns
  <2>3. s \in Moment /\ s.at = Where(start, list, r) /\ Read(s.mem, b, 4) = g[r]
    BY <1>3, <2>1
  <2> HIDE DEF s
  <2>4. CASE r \in list
    <3>1. s.mem \in Contents
      BY <2>3 DEF Moment
    <3>2. /\ f[i].mem = Write(s.mem, s.at, 4, words[r])
          /\ f[i].at = Plus(s.at, 4)
      BY <2>2, <2>4 DEF StoreNext
    <3>3. Read(f[i].mem, b, 4) = g[i]
      BY <2>1, <2>3, <2>4, <3>1, <3>2
    <3>4. Above(list, i) = Above(list, r) + 1 /\ Above(list, r) \in Nat
      BY <2>1, <2>4, CountsAre, RegistersAre
    <3>5. f[i].at = Where(start, list, i)
      <4> DEFINE n == Above(list, r)
      <4>1. n \in Nat /\ Above(list, i) = n + 1
        BY <3>4
      <4> HIDE DEF n
      <4>2. 4 * n \in Int /\ 4 \in Int /\ 4 * n + 4 = 4 * (n + 1)
        BY <4>1
      <4>3. Plus(Plus(start, 4 * n), 4) = Plus(start, 4 * (n + 1))
        BY <4>2, PlusPlus
      <4> QED
        BY <2>3, <3>2, <4>1, <4>3 DEF Where, n
    <3> QED
      BY <2>1, <2>2, <3>3, <3>5
  <2>5. CASE r \notin list
    <3>1. f[i] = s
      BY <2>2, <2>5 DEF StoreNext
    <3>2. g[i] = g[r]
      BY <2>1, <2>5
    <3>3. Above(list, i) = Above(list, r)
      BY <2>1, <2>5, CountsAre
    <3>4. Where(start, list, i) = Where(start, list, r)
      BY <3>3 DEF Where
    <3> QED
      BY <2>1, <2>3, <3>1, <3>2, <3>4
  <2> QED
    BY <2>4, <2>5
<1>4. f[16] \in S[16]
  <2> HIDE DEF S
  <2>1. \A i \in 1..16 : f[i - 1] \in S[i - 1] => f[i] \in S[i]
    BY <1>3
  <2>2. 16 \in Nat /\ 16 \in 0..16
    OBVIOUS
  <2>3. \A i \in 0..16 : f[i] \in S[i]
    BY <1>2, <2>1, <2>2, RecursionStays, Zenon
  <2> QED
    BY <2>2, <2>3
<1> QED
  BY <1>1, <1>4

\* A word that each of its stores leaves alone stays.
LEMMA BlockMisses ==
    ASSUME Held, NEW start \in Word, NEW list \in SUBSET Registers, NEW words,
           DOMAIN words = list, \A r \in list : words[r] \in Word, StoreBlock(start, words),
           NEW b, \A r \in list : Apart(Where(start, list, r), 4, b)
    PROVE  Read(mem', b, 4) = Read(mem, b, 4)
<1> DEFINE g == [i \in 0..16 |-> Read(mem, b, 4)]
<1>1. \A i \in 0..16 : g[i] = Read(mem, b, 4)
  OBVIOUS
<1>2. 0 \in 0..16 /\ 16 \in 0..16 /\ \A r \in 0..15 : r \in 0..16 /\ r + 1 \in 0..16
  BY SMT
<1>3. \A r \in list : r \in 0..15
  <2>1. \A r \in list : r \in 0..14
    BY CountsAre
  <2> QED
    BY <2>1
<1> HIDE DEF g
<1>4. ASSUME NEW r \in list, NEW m \in Contents, Read(m, b, 4) = g[r]
      PROVE  Read(Write(m, Where(start, list, r), 4, words[r]), b, 4) = g[r + 1]
  BY <1>1, <1>2, <1>3, <1>4 DEF Apart
<1>5. g[0] = Read(mem, b, 4) /\ g[16] = Read(mem, b, 4)
  BY <1>1, <1>2
<1>6. \A r \in 0..15 : r \notin list => g[r + 1] = g[r]
  BY <1>1, <1>2
<1> QED
  BY <1>4, <1>5, <1>6, BlockGoes

\* A word that one of them takes and the others leave alone is stored.
LEMMA BlockStores ==
    ASSUME Held, NEW start \in Word, NEW list \in SUBSET Registers, NEW words,
           DOMAIN words = list, \A r \in list : words[r] \in Word, StoreBlock(start, words),
           NEW q \in list, NEW b, b = Where(start, list, q), Takes(b),
           \A r \in list : r # q => Apart(Where(start, list, r), 4, b)
    PROVE  Read(mem', b, 4) = words[q]
<1> DEFINE g == [i \in 0..16 |-> IF i > q THEN words[q] ELSE Read(mem, b, 4)]
<1>1. \A i \in 0..16 : g[i] = IF i > q THEN words[q] ELSE Read(mem, b, 4)
  OBVIOUS
<1>2. 0 \in 0..16 /\ 16 \in 0..16 /\ \A r \in 0..15 : r \in 0..16 /\ r + 1 \in 0..16
  BY SMT
<1>3. q \in 0..14 /\ \A r \in list : r \in 0..15
  <2>1. \A r \in list : r \in 0..14
    BY CountsAre
  <2> QED
    BY <2>1
<1> HIDE DEF g
<1>4. ASSUME NEW r \in list, NEW m \in Contents, Read(m, b, 4) = g[r]
      PROVE  Read(Write(m, Where(start, list, r), 4, words[r]), b, 4) = g[r + 1]
  <2>1. r \in 0..15 /\ r \in 0..16 /\ r + 1 \in 0..16 /\ words[r] \in Word
    BY <1>2, <1>3
  <2>2. CASE r = q
    <3>1. g[r + 1] = words[q]
      BY <1>1, <1>3, <2>1, <2>2, SMT
    <3> QED
      BY <2>1, <2>2, <3>1 DEF Takes
  <2>3. CASE r # q
    <3>1. g[r + 1] = g[r]
      <4>1. r + 1 > q <=> r > q
        BY <1>3, <2>1, <2>3, SMT
      <4> QED
        BY <1>1, <2>1, <4>1
    <3> QED
      BY <1>4, <2>1, <2>3, <3>1 DEF Apart
  <2> QED
    BY <2>2, <2>3
<1>5. g[0] = Read(mem, b, 4) /\ g[16] = words[q]
  BY <1>1, <1>2, <1>3, SMT
<1>6. ASSUME NEW r \in 0..15, r \notin list PROVE g[r + 1] = g[r]
  <2>1. r + 1 > q <=> r > q
    BY <1>3, <1>6, SMT
  <2> QED
    BY <1>1, <1>2, <2>1
<1> QED
  BY <1>4, <1>5, <1>6, BlockGoes

-----------------------------------------------------------------------------
(***************************************************************************)
(* The stack as it is found in memory.                                     *)
(***************************************************************************)
LEMMA PlusIs ==
    ASSUME NEW a \in Word, NEW n \in Int, a + n \in Word
    PROVE  Plus(a, n) = a + n
<1> DEFINE x == a + n
<1>1. x \in Nat /\ WordModulus \in Nat \ {0} /\ x < WordModulus
  BY Spaces
<1> HIDE DEF x
<1>2. x % WordModulus = x
  BY <1>1, ModSmall
<1> QED
  BY <1>2 DEF Plus, x

\* The addresses around the stack.
LEMMA AroundStack ==
    /\ StackWords \in Nat /\ Bottom \in Nat
    /\ \A i \in -StackWords..StackWords : Bottom + 4 * i \in Word
<1>1. StackWords \in Nat /\ Bottom \in Nat /\ WordModulus \in Nat /\ Word = 0..(WordModulus - 1)
  BY LoadStoreAssumption, Spaces
<1>2. 4 * StackWords <= Bottom /\ Bottom + 4 * StackWords < WordModulus
  BY StackAssumption
<1> QED
  BY <1>1, <1>2, SMT

LEMMA SlotFrom ==
    ASSUME NEW k \in StackKinds, NEW d \in 0..StackWords, NEW sp, sp = PointsTo(k, d)
    PROVE  /\ sp \in Word
           /\ (IF k.up THEN sp - Bottom ELSE Bottom - sp) \div 4 = d
           /\ \A i \in 1..d : Plus(IF k.full THEN sp ELSE Plus(sp, -Growth(k)),
                                   (i - 1) * (-Growth(k))) = Slot(k, d - i)
<1>1. StackWords \in Nat /\ Bottom \in Nat /\ d \in Nat /\ d <= StackWords
  BY AroundStack
<1>2. \A i \in -StackWords..StackWords : Bottom + 4 * i \in Word
  BY AroundStack
<1>3. CASE k.up
  <2>1. sp = Bottom + 4 * d /\ Growth(k) = 4
    BY <1>1, <1>3, GrowthIs
  <2>2. sp \in Word
    BY <1>1, <1>2, <2>1
  <2>3. (sp - Bottom) \div 4 = d
    BY <1>1, <2>1
  <2>4. ASSUME NEW i \in 1..d
        PROVE  Plus(IF k.full THEN sp ELSE Plus(sp, -4), (i - 1) * (-4)) = Slot(k, d - i)
    <3>1. Slot(k, d - i) = Bottom + 4 * (IF k.full THEN (d - i) + 1 ELSE d - i)
      BY <1>1, <1>3, GrowthIs
    <3>2. CASE k.full
      <4>1. Bottom + 4 * ((d - i) + 1) \in Word /\ sp + (i - 1) * (-4) = Bottom + 4 * ((d - i) + 1)
        <5>1. (d - i) + 1 \in -StackWords..StackWords
          BY <1>1
        <5>2. sp + (i - 1) * (-4) = Bottom + 4 * ((d - i) + 1)
          BY <1>1, <2>1
        <5> QED
          BY <1>2, <5>1, <5>2
      <4>2. Plus(sp, (i - 1) * (-4)) = sp + (i - 1) * (-4)
        BY <2>2, <4>1, PlusIs
      <4> QED
        BY <3>1, <3>2, <4>1, <4>2
    <3>3. CASE ~k.full
      <4>1. Bottom + 4 * (d - 1) \in Word /\ sp + (-4) = Bottom + 4 * (d - 1)
        <5>1. d - 1 \in -StackWords..StackWords
          BY <1>1
        <5>2. sp + (-4) = Bottom + 4 * (d - 1)
          BY <1>1, <2>1
        <5> QED
          BY <1>2, <5>1, <5>2
      <4>2. Plus(sp, -4) = Bottom + 4 * (d - 1)
        BY <2>2, <4>1, PlusIs
      <4> DEFINE t == Bottom + 4 * (d - 1)
      <4>3. Bottom + 4 * (d - i) \in Word /\ t + (i - 1) * (-4) = Bottom + 4 * (d - i)
        BY <1>1, <1>2
      <4> HIDE DEF t
      <4>4. Plus(t, (i - 1) * (-4)) = t + (i - 1) * (-4)
        BY <4>1, <4>3, PlusIs DEF t
      <4> QED
        BY <3>1, <3>3, <4>2, <4>3, <4>4 DEF t
    <3> QED
      BY <3>2, <3>3
  <2> QED
    BY <1>3, <2>1, <2>2, <2>3, <2>4
<1>4. CASE ~k.up
  <2>1. sp = Bottom - 4 * d /\ Growth(k) = -4 /\ -Growth(k) = 4
    BY <1>1, <1>4, GrowthIs
  <2>2. sp \in Word
    <3>1. Bottom + 4 * (-d) \in Word /\ Bottom + 4 * (-d) = Bottom - 4 * d
      BY <1>1, <1>2
    <3> QED
      BY <2>1, <3>1
  <2>3. (Bottom - sp) \div 4 = d
    BY <1>1, <2>1
  <2>4. ASSUME NEW i \in 1..d
        PROVE  Plus(IF k.full THEN sp ELSE Plus(sp, 4), (i - 1) * 4) = Slot(k, d - i)
    <3>1. Slot(k, d - i) = Bottom - 4 * (IF k.full THEN (d - i) + 1 ELSE d - i)
      BY <1>1, <1>4, GrowthIs
    <3>2. CASE k.full
      <4>1. /\ Bottom + 4 * (-((d - i) + 1)) \in Word
            /\ sp + (i - 1) * 4 = Bottom + 4 * (-((d - i) + 1))
            /\ Bottom + 4 * (-((d - i) + 1)) = Bottom - 4 * ((d - i) + 1)
        BY <1>1, <1>2, <2>1
      <4>2. Plus(sp, (i - 1) * 4) = sp + (i - 1) * 4
        BY <2>2, <4>1, PlusIs
      <4> QED
        BY <3>1, <3>2, <4>1, <4>2
    <3>3. CASE ~k.full
      <4>1. Bottom + 4 * (1 - d) \in Word /\ sp + 4 = Bottom + 4 * (1 - d)
        BY <1>1, <1>2, <2>1
      <4>2. Plus(sp, 4) = Bottom + 4 * (1 - d)
        BY <2>2, <4>1, PlusIs
      <4> DEFINE t == Bottom + 4 * (1 - d)
      <4>3. /\ Bottom + 4 * (i - d) \in Word /\ t + (i - 1) * 4 = Bottom + 4 * (i - d)
            /\ Bottom + 4 * (i - d) = Bottom - 4 * (d - i)
        BY <1>1, <1>2
      <4> HIDE DEF t
      <4>4. Plus(t, (i - 1) * 4) = t + (i - 1) * 4
        BY <4>1, <4>3, PlusIs DEF t
      <4> QED
        BY <3>1, <3>3, <4>2, <4>3, <4>4 DEF t
    <3> QED
      BY <3>2, <3>3
  <2> QED
    BY <1>4, <2>1, <2>2, <2>3, <2>4
<1> QED
  BY <1>3, <1>4

\* The words of a stack of kind k with d words, the top first.
Found(m, k, d) == [i \in 1..d |-> Read(m, Slot(k, d - i), 4)]

\* The stack has d words.
Ready(d) ==
    /\ kind \in StackKinds /\ regs \in Registry /\ Held
    /\ regs[Sp] = PointsTo(kind, d)

LEMMA StackFoundIs ==
    ASSUME NEW d \in 0..StackWords, Ready(d)
    PROVE  Depth = d /\ StackFound = Found(mem, kind, d)
<1>1. Depth = d
  BY SlotFrom DEF Ready, Depth
<1>2. \A i \in 1..d : AddressOnStack(i) = Slot(kind, d - i)
  BY SlotFrom DEF Ready, AddressOnStack, Top, Back
<1> QED
  BY <1>1, <1>2 DEF StackFound, Found

LEMMA StackFoundNext ==
    ASSUME NEW d \in 0..StackWords, Ready(d)'
    PROVE  StackFound' = Found(mem', kind', d)
<1>1. Depth' = d
  BY SlotFrom DEF Ready, Depth
<1>2. \A i \in 1..d : AddressOnStack(i)' = Slot(kind', d - i)
  BY SlotFrom DEF Ready, AddressOnStack, Top, Back
<1> QED
  BY <1>1, <1>2 DEF StackFound, Found

LEMMA FoundTyped ==
    ASSUME NEW m \in Contents, NEW k \in StackKinds, NEW d \in 0..StackWords
    PROVE  /\ Found(m, k, d) \in Seq(Word) /\ Len(Found(m, k, d)) = d /\ DOMAIN Found(m, k, d) = 1..d
           /\ \A i \in 1..d : /\ Found(m, k, d)[i] = Read(m, Slot(k, d - i), 4)
                              /\ Found(m, k, d)[i] \in Word
<1> DEFINE s == Found(m, k, d)
<1>1. d \in Nat /\ d <= StackWords /\ StackWords \in Nat
  BY AroundStack
<1>2. \A i \in 1..d : s[i] = Read(m, Slot(k, d - i), 4)
  BY DEF Found
<1>3. ASSUME NEW i \in 1..d PROVE Read(m, Slot(k, d - i), 4) \in Word
  <2>1. d - i \in 0..(StackWords - 1)
    BY <1>1
  <2>2. Slot(k, d - i) \in Word
    BY <2>1, SlotTyped DEF Holds
  <2>3. IsMemory(m)
    BY ContentsAre
  <2> QED
    BY <2>2, <2>3, ReadIsWord
<1>4. s \in [1..d -> Word] /\ DOMAIN s = 1..d
  BY <1>3 DEF Found
<1>5. s \in Seq(Word)
  BY <1>1, <1>4, Seq(Word) = UNION {[1..n -> Word] : n \in Nat}, SMT
<1> HIDE DEF s
<1>6. Len(s) \in Nat /\ DOMAIN s = 1..Len(s)
  BY <1>5, LenProperties
<1>7. Len(s) = d
  <2>1. 1..Len(s) = 1..d
    BY <1>4, <1>6, SMTT(40)
  <2> DEFINE l == Len(s)
  <2>2. l \in Nat /\ (l \in 1..l <=> l \in 1..d) /\ (d \in 1..l <=> d \in 1..d)
    BY <1>6, <2>1
  <2> HIDE DEF l
  <2>3. l = d
    BY <1>1, <2>2
  <2> QED
    BY <2>3 DEF l
<1> QED
  BY <1>2, <1>3, <1>4, <1>5, <1>7 DEF s

\* Two stacks of the same words are the same.
LEMMA FoundSame ==
    ASSUME NEW m, NEW h, NEW k, NEW d \in 0..StackWords,
           \A j \in 0..(d - 1) : Read(h, Slot(k, j), 4) = Read(m, Slot(k, j), 4)
    PROVE  Found(h, k, d) = Found(m, k, d)
<1>1. \A i \in 1..d : d - i \in 0..(d - 1)
  BY AroundStack
<1>2. \A i \in 1..d : Read(h, Slot(k, d - i), 4) = Read(m, Slot(k, d - i), 4)
  BY <1>1
<1> QED
  BY <1>2 DEF Found

\* What is left of a stack below its n top words.
LEMMA FoundRest ==
    ASSUME NEW m \in Contents, NEW k \in StackKinds, NEW d \in Nat, NEW n \in Nat,
           d + n \in 0..StackWords
    PROVE  SubSeq(Found(m, k, d + n), n + 1, d + n) = Found(m, k, d)
<1> DEFINE e == d + n
           s == Found(m, k, e)
           t == Found(m, k, d)
           u == SubSeq(s, n + 1, e)
<1>1. StackWords \in Nat /\ e \in Nat /\ d \in 0..StackWords /\ e \in 0..StackWords
  BY AroundStack
<1>2. \A i \in 1..e : s[i] = Read(m, Slot(k, e - i), 4) /\ s[i] \in Word
  BY <1>1, FoundTyped
<1>3. t \in Seq(Word) /\ Len(t) = d /\ \A i \in 1..d : t[i] = Read(m, Slot(k, d - i), 4)
  BY <1>1, FoundTyped
<1> HIDE DEF s, t, e
<1>4. n + 1 \in Int /\ e \in Int /\ \A i \in (n + 1)..e : s[i] \in Word
  <2>1. \A i \in (n + 1)..e : i \in 1..e
    BY <1>1
  <2> QED
    BY <1>1, <1>2, <2>1
<1>5. /\ u \in Seq(Word) /\ Len(u) = (IF n + 1 <= e THEN e - (n + 1) + 1 ELSE 0)
      /\ \A i \in 1..(e - (n + 1) + 1) : u[i] = s[(n + 1) + i - 1]
  BY <1>4, SubSeqProperties
<1>6. Len(u) = d
  BY <1>1, <1>5 DEF e
<1>7. ASSUME NEW i \in 1..d PROVE u[i] = t[i]
  <2>1. i \in 1..(e - (n + 1) + 1) /\ (n + 1) + i - 1 \in 1..e /\ e - ((n + 1) + i - 1) = d - i
    BY <1>1 DEF e
  <2> QED
    BY <1>2, <1>3, <1>5, <2>1
<1> HIDE DEF u
<1>8. u = t
  BY <1>3, <1>5, <1>6, <1>7, SeqEqual
<1> QED
  BY <1>8 DEF u, s, t, e

\* The words of a block, the lowest register first, in the n slots from d on.
Spot(k, d, n, i) == IF k.up THEN d + i ELSE d + (n - 1 - i)

\* The n top words of a stack, as they lie.
LEMMA FoundTop ==
    ASSUME kind \in StackKinds, NEW m \in Contents, NEW d \in Nat, NEW n \in Nat,
           d + n \in 0..StackWords, NEW i \in 0..(n - 1)
    PROVE  Stack!Lie(SubSeq(Found(m, kind, d + n), 1, n))[i + 1]
             = Read(m, Slot(kind, Spot(kind, d, n, i)), 4)
<1> DEFINE e == d + n
           s == Found(m, kind, e)
           u == SubSeq(s, 1, n)
<1>1. e \in Nat /\ e \in 0..StackWords /\ n <= e
  BY AroundStack
<1>2. \A j \in 1..e : s[j] = Read(m, Slot(kind, e - j), 4) /\ s[j] \in Word
  BY <1>1, FoundTyped
<1> HIDE DEF s, e
<1>3. 1 \in Int /\ n \in Int /\ \A j \in 1..n : s[j] \in Word
  BY <1>1, <1>2
<1>4. /\ u \in Seq(Word) /\ Len(u) = (IF 1 <= n THEN n - 1 + 1 ELSE 0)
      /\ \A j \in 1..(n - 1 + 1) : u[j] = s[1 + j - 1]
  BY <1>3, SubSeqProperties
<1>5. Len(u) = n /\ \A j \in 1..n : u[j] = s[j]
  <2>1. n - 1 + 1 = n /\ \A j \in 1..n : 1 + j - 1 = j
    BY SMT
  <2> QED
    BY <1>4, <2>1
<1> HIDE DEF u
<1>6. CASE kind.up
  <2>1. Stack!Lie(u) = [j \in 1..n |-> u[(n - j) + 1]]
    BY <1>5, <1>6 DEF Stack!Lie, Stack!Reverse
  <2>2. i + 1 \in 1..n /\ (n - (i + 1)) + 1 \in 1..n /\ (n - (i + 1)) + 1 \in 1..e
        /\ e - ((n - (i + 1)) + 1) = d + i
    BY <1>1 DEF e
  <2>3. Stack!Lie(u)[i + 1] = s[(n - (i + 1)) + 1]
    BY <1>5, <2>1, <2>2
  <2> QED
    BY <1>2, <1>6, <2>2, <2>3 DEF Spot, u, s, e
<1>7. CASE ~kind.up
  <2>1. Stack!Lie(u) = u
    BY <1>7 DEF Stack!Lie
  <2>2. i + 1 \in 1..n /\ i + 1 \in 1..e /\ e - (i + 1) = d + (n - 1 - i)
    BY <1>1 DEF e
  <2>3. Stack!Lie(u)[i + 1] = s[i + 1]
    BY <1>5, <2>1, <2>2
  <2> QED
    BY <1>2, <1>7, <2>2, <2>3 DEF Spot, u, s, e
<1> QED
  BY <1>6, <1>7

-----------------------------------------------------------------------------
(***************************************************************************)
(* Steps of the program as steps of its stack.                             *)
(***************************************************************************)
LEMMA HeldContents == (Held => mem \in Contents) /\ (Held' => mem' \in Contents)
<1>1. Held => mem \in Contents
  BY ContentsAre DEF Held
<1>2. ASSUME Held' PROVE mem' \in Contents
  <2>1. IsMemory(mem')
    BY <1>2 DEF Held, IsMemory
  <2> QED
    BY <2>1, ContentsAre
<1> QED
  BY <1>1, <1>2

\* A step from a stack of d words to one of e.
Leads(d, e) ==
    /\ d \in 0..StackWords /\ e \in 0..StackWords
    /\ Ready(d) /\ Ready(e)' /\ kind' = kind

\* The j-th word from the bottom stays.
Same(j) == Read(mem', Slot(kind, j), 4) = Read(mem, Slot(kind, j), 4)

LEMMA LeadsFacts ==
    ASSUME NEW d, NEW e, Leads(d, e)
    PROVE  /\ kind \in StackKinds /\ regs \in Registry /\ regs' \in Registry
           /\ mem \in Contents /\ mem' \in Contents
           /\ StackFound = Found(mem, kind, d) /\ StackFound' = Found(mem', kind, e)
           /\ kind'.up = kind.up /\ d \in Nat /\ e \in Nat
<1>1. d \in 0..StackWords /\ e \in 0..StackWords /\ Ready(d) /\ Ready(e)' /\ kind' = kind
  BY DEF Leads
<1>2. kind \in StackKinds /\ regs \in Registry /\ Held
  BY <1>1 DEF Ready
<1>3. regs' \in Registry /\ Held'
  BY <1>1 DEF Ready, Registry
<1>4. StackFound = Found(mem, kind, d)
  BY <1>1, StackFoundIs
<1>5. StackFound' = Found(mem', kind', e)
  BY <1>1, StackFoundNext
<1> QED
  BY <1>1, <1>2, <1>3, <1>4, <1>5, HeldContents

LEMMA Stills ==
    ASSUME NEW d, Leads(d, d), \A j \in 0..(d - 1) : Same(j)
    PROVE  Stack!Next
<1>1. d \in 0..StackWords
  BY DEF Leads
<1>2. /\ StackFound = Found(mem, kind, d) /\ StackFound' = Found(mem', kind, d)
      /\ regs' \in Registry /\ kind'.up = kind.up
  BY LeadsFacts
<1>3. Found(mem', kind, d) = Found(mem, kind, d)
  BY <1>1, FoundSame DEF Same
<1>4. [r \in Elsewhere |-> regs'[r]] \in [Registers \ {Sp} -> Word]
  BY <1>2, RegistersAre DEF Registry, Elsewhere
<1>5. Stack!Elsewhere
  BY <1>2, <1>3, <1>4 DEF Stack!Elsewhere, Stack!Rest
<1> QED
  BY <1>2, <1>5 DEF Stack!Next

\* The abstract module counts in the same way.
LEMMA StackCardinality == \A S : Stack!Cardinality(S) = Cardinality(S)
BY DEF Stack!Cardinality, Cardinality

LEMMA RankIs ==
    ASSUME NEW list \in SUBSET Registers, NEW r \in list
    PROVE  Stack!Rank(list, r) = Above(list, r) + 1 /\ Above(list, r) \in 0..(Cardinality(list) - 1)
<1>1. Cardinality({s \in list : s <= r}) = Above(list, r) + 1
      /\ Above(list, r) \in 0..(Cardinality(list) - 1)
  BY CountsAre, Zenon
<1>2. Stack!Rank(list, r) = Cardinality({s \in list : s <= r})
  BY StackCardinality DEF Stack!Rank
<1> QED
  BY <1>1, <1>2

LEMMA Pushes ==
    ASSUME NEW d, NEW list \in SUBSET Registers, Leads(d, d + Cardinality(list)),
           \A j \in 0..(d - 1) : Same(j),
           \A r \in list \ {Sp} :
             Read(mem', Slot(kind, Spot(kind, d, Cardinality(list), Above(list, r))), 4) = regs[r],
           \A r \in Elsewhere : regs'[r] = regs[r]
    PROVE  Stack!Next
<1> DEFINE n == Cardinality(list)
           s == Found(mem, kind, d)
           t == Found(mem', kind, d + n)
           pushed == Stack!Lie(SubSeq(t, 1, n))
<1>1. /\ kind \in StackKinds /\ mem \in Contents /\ mem' \in Contents
      /\ StackFound = s /\ StackFound' = t /\ kind'.up = kind.up /\ d \in Nat
  BY LeadsFacts
<1>2. d \in 0..StackWords /\ d + n \in 0..StackWords /\ n \in Nat
  BY RegistersAre DEF Leads
<1>3. Len(s) = d /\ Len(t) = d + n
  BY <1>1, <1>2, FoundTyped
<1>4. SubSeq(t, n + 1, d + n) = s
  <2>1. SubSeq(t, n + 1, d + n) = Found(mem', kind, d)
    BY <1>1, <1>2, FoundRest
  <2>2. Found(mem', kind, d) = s
    BY <1>2, FoundSame DEF Same
  <2> QED
    BY <2>1, <2>2
<1>5. ASSUME NEW r \in list \ {Sp}
      PROVE  pushed[Stack!Rank(list, r)] = [q \in Elsewhere |-> regs[q]][r]
  <2>1. Stack!Rank(list, r) = Above(list, r) + 1 /\ Above(list, r) \in 0..(n - 1)
    BY RankIs
  <2> DEFINE i == Above(list, r)
  <2>2. pushed[i + 1] = Read(mem', Slot(kind, Spot(kind, d, n, i)), 4)
    <3> HIDE DEF i, n
    <3> QED
      BY <1>1, <1>2, <2>1, FoundTop DEF i
  <2>3. r \in Elsewhere
    BY DEF Elsewhere
  <2> QED
    BY <2>1, <2>2, <2>3
<1>6. [r \in Elsewhere |-> regs'[r]] = [r \in Elsewhere |-> regs[r]]
  OBVIOUS
<1> HIDE DEF s, t
<1>7. Stack!Push(list)
  <2>1. Len(StackFound') = Len(StackFound) + n
    BY <1>1, <1>2, <1>3
  <2>2. SubSeq(StackFound', n + 1, Len(StackFound')) = StackFound
    BY <1>1, <1>3, <1>4
  <2>3. \A r \in list \ {Sp} : Stack!Lie(SubSeq(StackFound', 1, n))[Stack!Rank(list, r)]
                               = [q \in Elsewhere |-> regs[q]][r]
    BY <1>1, <1>5
  <2> HIDE DEF pushed
  <2> QED
    BY <1>6, <2>1, <2>2, <2>3, StackCardinality, Zenon DEF Stack!Push, n
<1>8. \E q \in SUBSET Registers : Stack!Push(q)
  BY <1>7
<1> QED
  BY <1>1, <1>8 DEF Stack!Next

\* The registers of a list are the words of the stack above the d-th.
Filled(list, d) ==
    \A r \in Elsewhere :
      regs'[r] = IF r \in list
                 THEN Read(mem, Slot(kind, Spot(kind, d, Cardinality(list), Above(list, r))), 4)
                 ELSE regs[r]

LEMMA Pops ==
    ASSUME NEW d \in Nat, NEW list \in SUBSET Registers, NEW below \in Nat,
           Leads(d + below + Cardinality(list), d), \A j \in 0..(d - 1) : Same(j),
           Filled(list, d + below)
    PROVE  Stack!Next
<1> DEFINE n == Cardinality(list)
           s == Found(mem, kind, d + below + n)
           t == Found(mem', kind, d)
           popped == Stack!Lie(SubSeq(s, 1, n))
<1>1. /\ kind \in StackKinds /\ mem \in Contents /\ mem' \in Contents
      /\ StackFound = s /\ StackFound' = t /\ kind'.up = kind.up
  BY LeadsFacts
<1>2. d \in 0..StackWords /\ d + below + n \in 0..StackWords /\ n \in Nat
  BY RegistersAre DEF Leads
<1>3. Len(s) = d + below + n
  BY <1>1, <1>2, FoundTyped
<1>4. SubSeq(s, n + below + 1, d + below + n) = t
  <2>1. d + below + n = d + (below + n) /\ n + below + 1 = (below + n) + 1 /\ below + n \in Nat
    BY <1>2
  <2>2. SubSeq(Found(mem, kind, d + (below + n)), (below + n) + 1, d + (below + n))
          = Found(mem, kind, d)
    BY <1>1, <1>2, <2>1, FoundRest
  <2>3. t = Found(mem, kind, d)
    BY <1>2, FoundSame DEF Same
  <2> QED
    BY <2>1, <2>2, <2>3
<1>5. ASSUME NEW r \in Elsewhere
      PROVE  regs'[r] = IF r \in list THEN popped[Stack!Rank(list, r)]
                        ELSE [q \in Elsewhere |-> regs[q]][r]
  <2>1. CASE r \in list
    <3>1. Stack!Rank(list, r) = Above(list, r) + 1 /\ Above(list, r) \in 0..(n - 1)
      BY <2>1, RankIs
    <3> DEFINE i == Above(list, r)
               f == d + below
    <3>2. f \in Nat /\ f + n \in 0..StackWords
      BY <1>2
    <3>3. Stack!Lie(SubSeq(Found(mem, kind, f + n), 1, n))[i + 1]
            = Read(mem, Slot(kind, Spot(kind, f, n, i)), 4)
      <4> HIDE DEF i, n, f
      <4> QED
        BY <1>1, <1>2, <3>1, <3>2, FoundTop DEF i
    <3> QED
      BY <2>1, <3>1, <3>3 DEF Filled
  <2>2. CASE r \notin list
    BY <2>2 DEF Filled
  <2> QED
    BY <2>1, <2>2
<1>6. Registers \ {Sp} = Elsewhere
  BY DEF Elsewhere
<1>7. below \in 0..Len(s) /\ n + below <= Len(s)
  BY <1>2, <1>3
<1> HIDE DEF s, t, n
<1>8. Stack!Pop(list, below)
  <2>1. [r \in Elsewhere |-> regs'[r]]
          = [r \in Elsewhere |-> IF r \in list THEN popped[Stack!Rank(list, r)]
                                 ELSE [q \in Elsewhere |-> regs[q]][r]]
    BY <1>5
  <2>2. StackFound' = SubSeq(StackFound, n + below + 1, Len(StackFound))
    BY <1>1, <1>3, <1>4
  <2>3. [r \in Elsewhere |-> regs'[r]]
          = [r \in Registers \ {Sp} |->
               IF r \in list THEN Stack!Lie(SubSeq(StackFound, 1, n))[Stack!Rank(list, r)]
               ELSE [q \in Elsewhere |-> regs[q]][r]]
    BY <1>1, <1>6, <2>1
  <2>4. n + below <= Len(StackFound)
    BY <1>1, <1>7
  <2> HIDE DEF popped
  <2> QED
    BY <2>2, <2>3, <2>4, StackCardinality, Zenon DEF Stack!Pop, Stack!Rest, n
<1>9. \E q \in SUBSET Registers, b \in 0..Len(StackFound) : Stack!Pop(q, b)
  BY <1>1, <1>7, <1>8
<1> QED
  BY <1>1, <1>9 DEF Stack!Next

LEMMA Pokes ==
    ASSUME NEW d, NEW i \in 1..d, NEW r \in Elsewhere, Leads(d, d),
           \A j \in 0..(d - 1) : IF j = d - i THEN Read(mem', Slot(kind, j), 4) = regs[r] ELSE Same(j),
           \A q \in Elsewhere : regs'[q] = regs[q]
    PROVE  Stack!Next
<1> DEFINE s == Found(mem, kind, d)
           t == Found(mem', kind, d)
<1>1. /\ kind \in StackKinds /\ mem \in Contents /\ mem' \in Contents
      /\ StackFound = s /\ StackFound' = t /\ kind'.up = kind.up
  BY LeadsFacts
<1>2. d \in 0..StackWords /\ d \in Nat
  BY AroundStack DEF Leads
<1>3. DOMAIN s = 1..d
  BY <1>1, <1>2, FoundTyped
<1>4. ASSUME NEW h \in 1..d PROVE t[h] = IF h = i THEN regs[r] ELSE s[h]
  <2>1. d - h \in 0..(d - 1) /\ (d - h = d - i <=> h = i)
    BY <1>2
  <2>2. t[h] = Read(mem', Slot(kind, d - h), 4) /\ s[h] = Read(mem, Slot(kind, d - h), 4)
    BY DEF Found
  <2> QED
    BY <2>1, <2>2 DEF Same
<1>5. t = [h \in 1..d |-> t[h]] /\ s = [h \in 1..d |-> s[h]]
  BY DEF Found
<1> HIDE DEF s, t
<1>6. t = [s EXCEPT ![i] = regs[r]]
  BY <1>4, <1>5
<1>7. [q \in Elsewhere |-> regs'[q]] = [q \in Elsewhere |-> regs[q]]
  OBVIOUS
<1>8. Stack!Poke(i, r)
  BY <1>1, <1>6, <1>7 DEF Stack!Poke
<1>9. r \in Registers \ {Sp} /\ i \in DOMAIN StackFound
  BY <1>1, <1>3 DEF Elsewhere
<1>10. \E h \in DOMAIN StackFound, q \in Registers \ {Sp} : Stack!Poke(h, q)
  BY <1>8, <1>9
<1> QED
  BY <1>1, <1>10 DEF Stack!Next, Stack!Rest

-----------------------------------------------------------------------------
(***************************************************************************)
(* What the operations do to the slots.                                    *)
(***************************************************************************)
\* A word at a multiple of 4 from the bottom.
LEMMA NearBottom ==
    ASSUME NEW i \in -StackWords..StackWords, NEW j \in -StackWords..StackWords,
           NEW c \in Int, c = 4 * (j - i)
    PROVE  Plus(Bottom + 4 * i, c) = Bottom + 4 * j
<1>1. StackWords \in Nat /\ Bottom \in Nat /\ Bottom + 4 * i \in Word /\ Bottom + 4 * j \in Word
  BY AroundStack
<1> DEFINE a == Bottom + 4 * i
<1>2. a + c = Bottom + 4 * j
  BY <1>1
<1> HIDE DEF a
<1>3. Plus(a, c) = a + c
  BY <1>1, <1>2, PlusIs DEF a
<1> QED
  BY <1>2, <1>3 DEF a

\* Slots and the places of the stack pointer, as multiples of 4.
LEMMA Places4 ==
    ASSUME NEW k \in StackKinds, NEW j \in Int
    PROVE  /\ Slot(k, j) = Bottom + 4 * (IF k.up THEN IF k.full THEN j + 1 ELSE j
                                         ELSE IF k.full THEN -(j + 1) ELSE -j)
           /\ PointsTo(k, j) = Bottom + 4 * (IF k.up THEN j ELSE -j)
<1>1. k.up \in BOOLEAN /\ k.full \in BOOLEAN /\ Bottom \in Int
  BY GrowthIs, AroundStack
<1>2. Slot(k, j) = Bottom + (IF k.up THEN 4 * (IF k.full THEN j + 1 ELSE j)
                             ELSE -(4 * (IF k.full THEN j + 1 ELSE j)))
  BY GrowthIs
<1>3. PointsTo(k, j) = Bottom + (IF k.up THEN 4 * j ELSE -(4 * j))
  BY GrowthIs
<1> QED
  BY <1>1, <1>2, <1>3

LEMMA SlotsDiffer ==
    ASSUME NEW k \in StackKinds, NEW i \in Int, NEW j \in Int, i # j
    PROVE  Slot(k, i) # Slot(k, j)
<1>1. k.up \in BOOLEAN /\ k.full \in BOOLEAN /\ Bottom \in Int
  BY GrowthIs, AroundStack
<1>2. Slot(k, i) = Bottom + 4 * (IF k.up THEN IF k.full THEN i + 1 ELSE i
                                 ELSE IF k.full THEN -(i + 1) ELSE -i)
  BY Places4
<1>3. Slot(k, j) = Bottom + 4 * (IF k.up THEN IF k.full THEN j + 1 ELSE j
                                 ELSE IF k.full THEN -(j + 1) ELSE -j)
  BY Places4
<1> QED
  BY <1>1, <1>2, <1>3

\* Where the words of a block go that is pushed or popped.
LEMMA SpotsAre ==
    ASSUME NEW k \in StackKinds, NEW d \in Nat, NEW n \in Nat \ {0}, d + n \in 0..StackWords
    PROVE  /\ \A i \in 0..(n - 1) :
                /\ Spot(k, d, n, i) \in d..(d + n - 1)
                /\ Spot(k, d, n, i) \in 0..(StackWords - 1)
                /\ Plus(Slot(k, Spot(k, d, n, 0)), 4 * i) = Slot(k, Spot(k, d, n, i))
           /\ \A i, j \in 0..(n - 1) : i # j => Spot(k, d, n, i) # Spot(k, d, n, j)
<1>1. StackWords \in Nat /\ d + n <= StackWords /\ Bottom \in Nat /\ k.up \in BOOLEAN
      /\ k.full \in BOOLEAN
  BY AroundStack, GrowthIs
<1>2. ASSUME NEW i \in 0..(n - 1)
      PROVE  Spot(k, d, n, i) \in d..(d + n - 1) /\ Spot(k, d, n, i) \in 0..(StackWords - 1)
  BY <1>1 DEF Spot
<1>3. ASSUME NEW i \in 0..(n - 1)
      PROVE  Plus(Slot(k, Spot(k, d, n, 0)), 4 * i) = Slot(k, Spot(k, d, n, i))
  <2> DEFINE P(j) == IF k.up THEN IF k.full THEN j + 1 ELSE j
                     ELSE IF k.full THEN -(j + 1) ELSE -j
             x == Spot(k, d, n, 0)
             y == Spot(k, d, n, i)
  <2>1. x \in 0..(StackWords - 1) /\ y \in 0..(StackWords - 1)
    <3>1. 0 \in 0..(n - 1)
      BY SMT
    <3> QED
      BY <1>2, <3>1
  <2>2. y - x = IF k.up THEN i ELSE -i
    BY <1>1 DEF Spot
  <2>3. Slot(k, x) = Bottom + 4 * P(x) /\ Slot(k, y) = Bottom + 4 * P(y)
    <3> HIDE DEF x, y
    <3>1. x \in Int /\ y \in Int
      BY <1>1, <2>1
    <3> QED
      BY <3>1, Places4
  <2> HIDE DEF x, y
  <2>4. P(x) \in -StackWords..StackWords /\ P(y) \in -StackWords..StackWords
        /\ 4 * i \in Int /\ 4 * i = 4 * (P(y) - P(x))
    BY <1>1, <2>1, <2>2
  <2> HIDE DEF P
  <2>5. Plus(Bottom + 4 * P(x), 4 * i) = Bottom + 4 * P(y)
    BY <2>4, NearBottom
  <2> QED
    BY <2>3, <2>5 DEF x, y
<1>4. ASSUME NEW i \in 0..(n - 1), NEW j \in 0..(n - 1), i # j
      PROVE  Spot(k, d, n, i) # Spot(k, d, n, j)
  BY <1>1, <1>4 DEF Spot
<1> QED
  BY <1>2, <1>3, <1>4

\* Where a push of n words begins, and a pop of the same words, and how r13 moves.
LEMMA BlockEnds ==
    ASSUME NEW k \in StackKinds, NEW d \in Nat, NEW n \in Nat \ {0}, d + n \in 0..StackWords
    PROVE  /\ BlockStart(k.full, k.up, PointsTo(k, d), n) = Slot(k, Spot(k, d, n, 0))
           /\ BlockStart(~k.full, ~k.up, PointsTo(k, d + n), n) = Slot(k, Spot(k, d, n, 0))
           /\ Moved(k.up, PointsTo(k, d), 4 * n) = PointsTo(k, d + n)
           /\ Moved(~k.up, PointsTo(k, d + n), 4 * n) = PointsTo(k, d)
           /\ PointsTo(k, d) \in Word /\ PointsTo(k, d + n) \in Word
<1> DEFINE B(i) == Bottom + 4 * i
           s == Spot(k, d, n, 0)
<1>1. StackWords \in Nat /\ d + n <= StackWords /\ k.up \in BOOLEAN /\ k.full \in BOOLEAN
      /\ d + n \in Int
  BY AroundStack, GrowthIs
<1>2. s \in Int /\ s = IF k.up THEN d ELSE d + (n - 1)
  BY <1>1 DEF Spot
<1>3. /\ Slot(k, s) = B(IF k.up THEN IF k.full THEN s + 1 ELSE s
                       ELSE IF k.full THEN -(s + 1) ELSE -s)
      /\ PointsTo(k, d) = B(IF k.up THEN d ELSE -d)
      /\ PointsTo(k, d + n) = B(IF k.up THEN d + n ELSE -(d + n))
  <2> HIDE DEF s
  <2> QED
    BY <1>1, <1>2, Places4
<1>4. \A i, j \in -StackWords..StackWords : \A c \in Int :
        c = 4 * (j - i) => Plus(B(i), c) = B(j)
  BY NearBottom
<1>5. \A i \in -StackWords..StackWords : B(i) \in Word
  BY AroundStack
<1> HIDE DEF B, s
<1>6. CASE k.up
  <2>1. /\ PointsTo(k, d) = B(d) /\ PointsTo(k, d + n) = B(d + n)
        /\ Slot(k, s) = IF k.full THEN B(d + 1) ELSE B(d)
    BY <1>1, <1>2, <1>3, <1>6
  <2>2. /\ d \in -StackWords..StackWords /\ d + n \in -StackWords..StackWords
        /\ d + 1 \in -StackWords..StackWords
    BY <1>1
  <2>3. Plus(B(d), 4) = B(d + 1) /\ Plus(B(d), 4 * n) = B(d + n)
    <3>1. 4 \in Int /\ 4 = 4 * ((d + 1) - d) /\ 4 * n \in Int /\ 4 * n = 4 * ((d + n) - d)
      BY <1>1
    <3> QED
      BY <1>4, <2>2, <3>1
  <2>4. Plus(B(d + n), -(4 * n)) = B(d) /\ Plus(B(d + n), -4 * n) = B(d)
    <3>1. -(4 * n) \in Int /\ -(4 * n) = 4 * (d - (d + n)) /\ -4 * n = -(4 * n)
      BY <1>1
    <3> QED
      BY <1>4, <2>2, <3>1
  <2>5. Plus(B(d + n), 4 - 4 * n) = B(d + 1)
    <3>1. 4 - 4 * n \in Int /\ 4 - 4 * n = 4 * ((d + 1) - (d + n))
      BY <1>1
    <3> QED
      BY <1>4, <2>2, <3>1
  <2>6. B(d) \in Word /\ B(d + n) \in Word
    BY <1>5, <2>2
  <2>7. /\ BlockStart(k.full, k.up, B(d), n) = Slot(k, s)
        /\ BlockStart(~k.full, ~k.up, B(d + n), n) = Slot(k, s)
    BY <1>1, <1>6, <2>1, <2>3, <2>4, <2>5 DEF BlockStart
  <2>8. Moved(k.up, B(d), 4 * n) = B(d + n) /\ Moved(~k.up, B(d + n), 4 * n) = B(d)
    BY <1>6, <2>3, <2>4 DEF Moved
  <2> QED
    BY <2>1, <2>6, <2>7, <2>8 DEF s
<1>7. CASE ~k.up
  <2>1. /\ PointsTo(k, d) = B(-d) /\ PointsTo(k, d + n) = B(-(d + n))
        /\ Slot(k, s) = IF k.full THEN B(-(d + n)) ELSE B(1 - (d + n))
    <3>1. s + 1 = d + n /\ -s = 1 - (d + n)
      BY <1>1, <1>2, <1>7
    <3> QED
      BY <1>1, <1>3, <1>7, <3>1
  <2>2. /\ -d \in -StackWords..StackWords /\ -(d + n) \in -StackWords..StackWords
        /\ 1 - (d + n) \in -StackWords..StackWords
    BY <1>1
  <2>3. Plus(B(-(d + n)), 4) = B(1 - (d + n)) /\ Plus(B(-(d + n)), 4 * n) = B(-d)
    <3>1. /\ 4 \in Int /\ 4 = 4 * ((1 - (d + n)) - (-(d + n)))
          /\ 4 * n \in Int /\ 4 * n = 4 * ((-d) - (-(d + n)))
      BY <1>1
    <3> QED
      BY <1>4, <2>2, <3>1
  <2>4. Plus(B(-d), -(4 * n)) = B(-(d + n)) /\ Plus(B(-d), -4 * n) = B(-(d + n))
    <3>1. -(4 * n) \in Int /\ -(4 * n) = 4 * ((-(d + n)) - (-d)) /\ -4 * n = -(4 * n)
      BY <1>1
    <3> QED
      BY <1>4, <2>2, <3>1
  <2>5. Plus(B(-d), 4 - 4 * n) = B(1 - (d + n))
    <3>1. 4 - 4 * n \in Int /\ 4 - 4 * n = 4 * ((1 - (d + n)) - (-d))
      BY <1>1
    <3> QED
      BY <1>4, <2>2, <3>1
  <2>6. B(-d) \in Word /\ B(-(d + n)) \in Word
    BY <1>5, <2>2
  <2>7. /\ BlockStart(k.full, k.up, B(-d), n) = Slot(k, s)
        /\ BlockStart(~k.full, ~k.up, B(-(d + n)), n) = Slot(k, s)
    BY <1>1, <1>7, <2>1, <2>3, <2>4, <2>5 DEF BlockStart
  <2>8. Moved(k.up, B(-d), 4 * n) = B(-(d + n)) /\ Moved(~k.up, B(-(d + n)), 4 * n) = B(-d)
    BY <1>7, <2>3, <2>4 DEF Moved
  <2> QED
    BY <2>1, <2>6, <2>7, <2>8 DEF s
<1> QED
  BY <1>6, <1>7

LEMMA LeadsTo ==
    ASSUME NEW d \in 0..StackWords, NEW e \in 0..StackWords, Ready(d), Keeps,
           regs'[Sp] = PointsTo(kind, e)
    PROVE  Leads(d, e)
<1>1. kind \in StackKinds
  BY DEF Ready
<1>2. Held' /\ regs' \in Registry /\ kind' = kind
  BY DEF Keeps
<1>3. Ready(e)'
  BY <1>1, <1>2 DEF Ready, Registry
<1> QED
  BY <1>2, <1>3 DEF Leads

LEMMA NoStoreSame ==
    ASSUME NoStore
    PROVE  \A j : Same(j)
BY DEF NoStore, Same

LEMMA HarmlessSame ==
    ASSUME kind \in StackKinds, Held, NEW a \in Word, NEW n \in {1, 2, 4}, NEW v \in Word,
           Harmless(a, n), Store(a, n, v)
    PROVE  \A j \in 0..(StackWords - 1) : Same(j)
<1> SUFFICES ASSUME NEW j \in 0..(StackWords - 1) PROVE Same(j)
  OBVIOUS
<1>1. Slot(kind, j) \in Slots(kind)
  BY SlotTyped
<1>2. Apart(a, n, Slot(kind, j))
  BY <1>1, HarmlessApart
<1>3. mem \in Contents /\ mem' = Write(mem, a, n, v)
  BY HeldContents DEF Store
<1> QED
  BY <1>2, <1>3 DEF Apart, Same

\* A store into one slot.
LEMMA SlotStores ==
    ASSUME kind \in StackKinds, Held, NEW i \in 0..(StackWords - 1), NEW v \in Word,
           Store(Slot(kind, i), 4, v)
    PROVE  /\ Read(mem', Slot(kind, i), 4) = v
           /\ \A j \in 0..(StackWords - 1) : j # i => Same(j)
<1> DEFINE a == Slot(kind, i)
<1>1. a \in Slots(kind) /\ Takes(a)
  BY SlotTyped, HoldsTakes
<1>2. mem \in Contents /\ mem' = Write(mem, a, 4, v)
  BY HeldContents DEF Store
<1> HIDE DEF a
<1>3. Read(mem', a, 4) = v
  BY <1>1, <1>2 DEF Takes
<1>4. ASSUME NEW j \in 0..(StackWords - 1), j # i PROVE Same(j)
  <2>1. Slot(kind, j) \in Slots(kind)
    BY SlotTyped
  <2>2. i \in Int /\ j \in Int
    OBVIOUS
  <2>3. a # Slot(kind, j)
    BY <1>4, <2>2, SlotsDiffer DEF a
  <2>4. Apart(a, 4, Slot(kind, j))
    BY <1>1, <2>1, <2>3, SlotsApart
  <2> QED
    BY <1>2, <2>4 DEF Apart, Same
<1> QED
  BY <1>3, <1>4 DEF a

\* A block of words elsewhere.
LEMMA HarmlessBlock ==
    ASSUME kind \in StackKinds, Held, NEW start \in Word, NEW list \in SUBSET Registers,
           NEW words, DOMAIN words = list, \A r \in list : words[r] \in Word,
           StoreBlock(start, words), \A r \in list : Harmless(Where(start, list, r), 4)
    PROVE  \A j \in 0..(StackWords - 1) : Same(j)
<1> SUFFICES ASSUME NEW j \in 0..(StackWords - 1) PROVE Same(j)
  OBVIOUS
<1> DEFINE b == Slot(kind, j)
<1>1. b \in Slots(kind)
  BY SlotTyped
<1> HIDE DEF b
<1>2. ASSUME NEW r \in list PROVE Apart(Where(start, list, r), 4, b)
  <2>1. 4 * Above(list, r) \in Int
    BY RegistersAre
  <2>2. Where(start, list, r) \in Word
    BY <2>1, PlusTyped DEF Where
  <2>3. 4 \in {1, 2, 4}
    OBVIOUS
  <2> QED
    BY <1>1, <2>2, <2>3, HarmlessApart
<1>3. Read(mem', b, 4) = Read(mem, b, 4)
  BY <1>2, BlockMisses
<1> QED
  BY <1>3 DEF Same, b

\* A block of words on top of the stack.
LEMMA BlockPushes ==
    ASSUME kind \in StackKinds, Held, NEW list \in SUBSET Registers, list # {},
           NEW d \in Nat, NEW n, n = Cardinality(list), d + n \in 0..StackWords,
           NEW words, DOMAIN words = list, \A r \in list : words[r] \in Word,
           StoreBlock(Slot(kind, Spot(kind, d, n, 0)), words)
    PROVE  /\ n \in Nat \ {0}
           /\ \A r \in list : Read(mem', Slot(kind, Spot(kind, d, n, Above(list, r))), 4) = words[r]
           /\ \A j \in 0..(d - 1) : Same(j)
<1> DEFINE start == Slot(kind, Spot(kind, d, n, 0))
           a(r) == Slot(kind, Spot(kind, d, n, Above(list, r)))
<1>1. n \in Nat \ {0} /\ d + n <= StackWords /\ StackWords \in Nat
  <2>1. PICK r \in list : TRUE
    OBVIOUS
  <2>2. Above(list, r) \in 0..(n - 1) /\ n \in Nat
    BY CountsAre, RegistersAre
  <2> QED
    BY <2>2, AroundStack
<1>2. ASSUME NEW i \in 0..(n - 1)
      PROVE  /\ Spot(kind, d, n, i) \in d..(d + n - 1)
             /\ Spot(kind, d, n, i) \in 0..(StackWords - 1)
             /\ Plus(start, 4 * i) = Slot(kind, Spot(kind, d, n, i))
  BY <1>1, SpotsAre
<1>3. start \in Word /\ Holds(start)
  <2>1. 0 \in 0..(n - 1)
    BY <1>1
  <2>2. Spot(kind, d, n, 0) \in 0..(StackWords - 1)
    BY <1>2, <2>1
  <2> QED
    BY <2>2, SlotTyped DEF Holds
<1>4. ASSUME NEW r \in list
      PROVE  /\ a(r) = Where(start, list, r) /\ a(r) \in Slots(kind) /\ Takes(a(r))
             /\ Spot(kind, d, n, Above(list, r)) \in d..(d + n - 1)
  <2> DEFINE i == Above(list, r)
  <2>1. i \in 0..(n - 1)
    BY CountsAre
  <2>2. /\ Spot(kind, d, n, i) \in d..(d + n - 1) /\ Spot(kind, d, n, i) \in 0..(StackWords - 1)
        /\ Plus(start, 4 * i) = Slot(kind, Spot(kind, d, n, i))
    BY <1>2, <2>1
  <2>3. Slot(kind, Spot(kind, d, n, i)) \in Slots(kind) /\ Takes(Slot(kind, Spot(kind, d, n, i)))
    BY <2>2, SlotTyped, HoldsTakes
  <2> QED
    BY <2>2, <2>3 DEF Where
<1> HIDE DEF start
<1>5. ASSUME NEW q \in list PROVE Read(mem', a(q), 4) = words[q]
  <2>1. ASSUME NEW r \in list, r # q PROVE Apart(Where(start, list, r), 4, a(q))
    <3>1. Above(list, r) # Above(list, q) /\ Above(list, r) \in 0..(n - 1)
          /\ Above(list, q) \in 0..(n - 1)
      <4>1. Above(list, r) # Above(list, q)
        BY <2>1, AboveDiffers, Zenon
      <4>2. Above(list, r) \in 0..(n - 1) /\ Above(list, q) \in 0..(n - 1)
        BY RankIs
      <4> QED
        BY <4>1, <4>2
    <3>2. Spot(kind, d, n, Above(list, r)) # Spot(kind, d, n, Above(list, q))
      BY <1>1, <3>1, SpotsAre
    <3>3. Spot(kind, d, n, Above(list, r)) \in Int /\ Spot(kind, d, n, Above(list, q)) \in Int
      BY <1>4
    <3>4. a(r) # a(q)
      BY <3>2, <3>3, SlotsDiffer
    <3> QED
      BY <1>4, <3>4, SlotsApart
  <2> DEFINE b == a(q)
  <2>2. b = Where(start, list, q) /\ Takes(b)
    BY <1>4
  <2>3. \A r \in list : r # q => Apart(Where(start, list, r), 4, b)
    BY <2>1
  <2> HIDE DEF b
  <2>4. StoreBlock(start, words)
    BY DEF start
  <2>5. Read(mem', b, 4) = words[q]
    BY <1>3, <2>2, <2>3, <2>4, BlockStores
  <2> QED
    BY <2>5 DEF b
<1>6. ASSUME NEW j \in 0..(d - 1) PROVE Same(j)
  <2> DEFINE b == Slot(kind, j)
  <2>1. j \in 0..(StackWords - 1) /\ j \in Int
    BY <1>1
  <2>2. b \in Slots(kind)
    BY <2>1, SlotTyped
  <2>3. ASSUME NEW r \in list PROVE Apart(Where(start, list, r), 4, b)
    <3>1. Spot(kind, d, n, Above(list, r)) \in Int /\ Spot(kind, d, n, Above(list, r)) # j
      <4>1. Spot(kind, d, n, Above(list, r)) \in d..(d + n - 1)
        BY <1>4
      <4> QED
        BY <1>1, <4>1
    <3>2. a(r) # b
      BY <2>1, <3>1, SlotsDiffer
    <3> QED
      BY <1>4, <2>2, <3>2, SlotsApart
  <2> HIDE DEF b
  <2>4. StoreBlock(start, words)
    BY DEF start
  <2>5. Read(mem', b, 4) = Read(mem, b, 4)
    BY <1>3, <2>3, <2>4, BlockMisses
  <2> QED
    BY <2>5 DEF Same, b
<1> QED
  BY <1>1, <1>5, <1>6

-----------------------------------------------------------------------------
(***************************************************************************)
(* The operations, one by one.  First those that work elsewhere.           *)
(***************************************************************************)
\* The program's step is one of the stack's, and leaves r13 at the end of it.
Follows(d) == Stack!Next /\ \E e : Leads(d, e)

LEMMA StillFollows ==
    ASSUME NEW d \in 0..StackWords, Ready(d), Keeps, regs'[Sp] = regs[Sp],
           \A j \in 0..(StackWords - 1) : Same(j)
    PROVE  Follows(d)
<1>1. regs'[Sp] = PointsTo(kind, d)
  BY DEF Ready
<1>2. Leads(d, d)
  BY <1>1, LeadsTo
<1>3. \A j \in 0..(d - 1) : j \in 0..(StackWords - 1)
  BY AroundStack
<1>4. Stack!Next
  BY <1>2, <1>3, Stills
<1> QED
  BY <1>2, <1>4 DEF Follows

LEMMA LowIsElsewhere ==
    /\ Low \subseteq Elsewhere /\ Elsewhere \subseteq Registers /\ Sp \notin Elsewhere
    /\ Low \subseteq Registers /\ Sp \in Registers /\ Lr \in Elsewhere
<1>1. Sp \notin Low /\ Low \subseteq Registers
  BY LoadStoreAssumption, RegistersAre DEF Sp
<1>2. Lr \in Registers /\ Lr # Sp
  BY RegistersAre DEF Lr, Sp
<1> QED
  BY <1>1, <1>2, RegistersAre DEF Elsewhere

LEMMA SetRegisterFollows ==
    ASSUME NEW d \in 0..StackWords, Ready(d), Keeps, SetRegister
    PROVE  Follows(d)
<1>1. PICK r \in Elsewhere, v \in Values : regs' = [regs EXCEPT ![r] = v] /\ NoStore
  BY DEF SetRegister
<1>2. regs'[Sp] = regs[Sp]
  BY <1>1, LowIsElsewhere DEF Ready, Registry
<1> QED
  BY <1>1, <1>2, NoStoreSame, StillFollows

LEMMA ThumbPcRelFollows ==
    ASSUME NEW d \in 0..StackWords, Ready(d), Keeps, ThumbPcRel
    PROVE  Follows(d)
<1>1. PICK rd \in Low, a \in Values : ThumbPcRelLoad(rd, a)
  BY DEF ThumbPcRel
<1>2. regs'[Sp] = regs[Sp] /\ NoStore
  BY <1>1, LowIsElsewhere DEF Ready, Registry, ThumbPcRelLoad
<1> QED
  BY <1>2, NoStoreSame, StillFollows

LEMMA ArmTransferFollows ==
    ASSUME NEW d \in 0..StackWords, Ready(d), Keeps, NEW what, NEW pre \in BOOLEAN,
           NEW up \in BOOLEAN, NEW wb, NEW load, NEW rn \in Low, NEW rd \in Low,
           NEW offset \in Int, ~load => what \in {"word", "half", "byte"},
           ~load => Harmless(Address(pre, up, regs[rn], offset), Bytes(what)),
           ArmTransfer(what, pre, up, wb, load, rn, rd, offset)
    PROVE  Follows(d)
<1> DEFINE a == Address(pre, up, regs[rn], offset)
           rs == IF load THEN [regs EXCEPT ![rd] = Loaded(mem, what, a)] ELSE regs
<1>1. kind \in StackKinds /\ regs \in Registry /\ Held
  BY DEF Ready
<1>2. /\ IF load THEN NoStore ELSE Store(a, Bytes(what), regs[rd])
      /\ regs' = WithBase(rs, pre, up, wb, load, rn, rd, offset)
  BY DEF ArmTransfer
<1>3. rn # Sp /\ rd # Sp /\ rn \in Registers /\ rd \in Registers /\ Sp \in Registers
  BY LowIsElsewhere
<1>4. a \in Word
  <2>1. regs[rn] \in Word
    BY <1>1, <1>3 DEF Registry
  <2> QED
    BY <2>1, MovedTyped DEF Address
<1>5. \A j \in 0..(StackWords - 1) : Same(j)
  <2>1. CASE load
    BY <1>2, <2>1, NoStoreSame
  <2>2. CASE ~load
    <3>1. Bytes(what) \in {1, 2, 4} /\ regs[rd] \in Word /\ Store(a, Bytes(what), regs[rd])
          /\ Harmless(a, Bytes(what))
      BY <1>1, <1>2, <1>3, <2>2, BytesTyped DEF Registry
    <3> DEFINE n == Bytes(what)
    <3> HIDE DEF a, n
    <3> QED
      BY <1>1, <1>4, <3>1, HarmlessSame DEF n
  <2> QED
    BY <2>1, <2>2
<1>6. regs'[Sp] = regs[Sp]
  <2>1. rs[Sp] = regs[Sp] /\ DOMAIN rs = Registers
    BY <1>1, <1>3 DEF Registry
  <2> HIDE DEF rs
  <2> QED
    BY <1>2, <1>3, <2>1 DEF WithBase
<1> QED
  BY <1>5, <1>6, StillFollows

LEMMA ArmSingleFollows ==
    ASSUME NEW d \in 0..StackWords, Ready(d), Keeps, ArmSingle
    PROVE  Follows(d)
<1>1. PICK pre \in BOOLEAN, up \in BOOLEAN, load \in BOOLEAN, rn \in Low, rd \in Low,
           offset \in Offsets :
        \E what \in IF load THEN Kinds ELSE {"word", "byte", "half"},
           wb \in IF pre THEN BOOLEAN ELSE {TRUE} :
          /\ ~load => Harmless(Address(pre, up, regs[rn], offset), Bytes(what))
          /\ \/ ArmSingleTransfer(what, pre, up, wb, load, rn, rd, offset)
             \/ ArmHalfwordTransfer(what, pre, up, wb, load, rn, rd, offset)
  BY Zenon DEF ArmSingle
<1>2. PICK what \in IF load THEN Kinds ELSE {"word", "byte", "half"},
           wb \in IF pre THEN BOOLEAN ELSE {TRUE} :
        /\ ~load => Harmless(Address(pre, up, regs[rn], offset), Bytes(what))
        /\ ArmTransfer(what, pre, up, wb, load, rn, rd, offset)
  BY <1>1, Zenon DEF ArmSingleTransfer, ArmHalfwordTransfer
<1>3. ~load => what \in {"word", "half", "byte"}
  BY <1>2
<1>4. offset \in Int
  BY LoadStoreAssumption
<1> QED
  BY <1>2, <1>3, <1>4, ArmTransferFollows

LEMMA ArmSwapFollows ==
    ASSUME NEW d \in 0..StackWords, Ready(d), Keeps, ArmSwap
    PROVE  Follows(d)
<1>1. PICK what \in {"word", "byte"}, rn \in Low, rd \in Low, rm \in Low :
        Harmless(regs[rn], Bytes(what)) /\ ArmSwp(what, rn, rd, rm)
  BY DEF ArmSwap
<1>2. kind \in StackKinds /\ regs \in Registry /\ Held
  BY DEF Ready
<1> DEFINE n == Bytes(what)
<1>3. regs[rn] \in Word /\ regs[rm] \in Word /\ n \in {1, 2, 4}
  BY <1>2, LowIsElsewhere, BytesTyped DEF Registry
<1>4. Harmless(regs[rn], n) /\ Store(regs[rn], n, regs[rm])
  BY <1>1 DEF ArmSwp
<1>5. regs'[Sp] = regs[Sp]
  BY <1>1, <1>2, LowIsElsewhere DEF ArmSwp, Registry
<1> HIDE DEF n
<1>6. \A j \in 0..(StackWords - 1) : Same(j)
  BY <1>2, <1>3, <1>4, HarmlessSame
<1> QED
  BY <1>5, <1>6, StillFollows

LEMMA ThumbTransferFollows ==
    ASSUME NEW d \in 0..StackWords, Ready(d), Keeps, NEW what, NEW load, NEW rd \in Low,
           NEW a \in Word, ~load => what \in {"word", "half", "byte"},
           ~load => Harmless(a, Bytes(what)), ThumbTransfer(what, load, rd, a)
    PROVE  Follows(d)
<1>1. kind \in StackKinds /\ regs \in Registry /\ Held
  BY DEF Ready
<1>2. regs'[Sp] = regs[Sp]
  BY <1>1, LowIsElsewhere DEF ThumbTransfer, Registry
<1>3. \A j \in 0..(StackWords - 1) : Same(j)
  <2>1. CASE load
    BY <2>1, NoStoreSame DEF ThumbTransfer
  <2>2. CASE ~load
    <3> DEFINE n == Bytes(what)
    <3>1. n \in {1, 2, 4} /\ regs[rd] \in Word /\ Store(a, n, regs[rd]) /\ Harmless(a, n)
      BY <1>1, <2>2, LowIsElsewhere, BytesTyped DEF Registry, ThumbTransfer
    <3> HIDE DEF n
    <3> QED
      BY <1>1, <3>1, HarmlessSame
  <2> QED
    BY <2>1, <2>2
<1> QED
  BY <1>2, <1>3, StillFollows

LEMMA ThumbSingleFollows ==
    ASSUME NEW d \in 0..StackWords, Ready(d), Keeps, ThumbSingle
    PROVE  Follows(d)
<1>1. PICK load \in BOOLEAN, rb \in Low, rd \in Low :
        \E what \in IF load THEN Kinds ELSE {"word", "byte", "half"} :
          \/ \E ro \in Low :
               /\ ~load => Harmless(Plus(regs[rb], regs[ro]), Bytes(what))
               /\ \/ ThumbLoadStoreReg(what, load, rb, ro, rd)
                  \/ ThumbLoadStoreSign(what, load, rb, ro, rd)
          \/ \E offset \in Offsets :
               /\ ~load => Harmless(Plus(regs[rb], offset), Bytes(what))
               /\ \/ ThumbLoadStoreImm(what, load, rb, rd, offset)
                  \/ what = "half" /\ ThumbLoadStoreHalf(load, rb, rd, offset)
  BY Zenon DEF ThumbSingle
<1>2. PICK what \in IF load THEN Kinds ELSE {"word", "byte", "half"} :
        \/ \E ro \in Low :
             /\ ~load => Harmless(Plus(regs[rb], regs[ro]), Bytes(what))
             /\ ThumbTransfer(what, load, rd, Plus(regs[rb], regs[ro]))
        \/ \E offset \in Offsets :
             /\ ~load => Harmless(Plus(regs[rb], offset), Bytes(what))
             /\ ThumbTransfer(what, load, rd, Plus(regs[rb], offset))
  BY <1>1, Zenon DEF ThumbLoadStoreReg, ThumbLoadStoreSign, ThumbLoadStoreImm, ThumbLoadStoreHalf
<1>3. \A r \in Low : regs[r] \in Word /\ regs[r] \in Int
  BY LowIsElsewhere, Spaces DEF Ready, Registry
<1>4. \A n \in Offsets : n \in Int
  BY LoadStoreAssumption
<1>5. PICK n \in Int : /\ ~load => Harmless(Plus(regs[rb], n), Bytes(what))
                       /\ ThumbTransfer(what, load, rd, Plus(regs[rb], n))
  BY <1>2, <1>3, <1>4, Zenon
<1>6. Plus(regs[rb], n) \in Word
  BY <1>3, PlusTyped
<1>7. ~load => what \in {"word", "half", "byte"}
  BY <1>2
<1> DEFINE a == Plus(regs[rb], n)
<1>8. a \in Word /\ (~load => Harmless(a, Bytes(what))) /\ ThumbTransfer(what, load, rd, a)
  BY <1>5, <1>6
<1> HIDE DEF a
<1> QED
  BY <1>7, <1>8, ThumbTransferFollows

\* A block transfer over low registers does not change r13.
LEMMA LoadedBlockSp ==
    ASSUME NEW list \in SUBSET Low, NEW start
    PROVE  LoadedBlock(list, start)[Sp] = regs[Sp]
BY LowIsElsewhere DEF LoadedBlock

\* The addresses of a block are those of its words.
LEMMA HarmlessWhere ==
    ASSUME NEW list \in SUBSET Registers, NEW start,
           \A k \in 0..(Cardinality(list) - 1) : Harmless(Plus(start, 4 * k), 4)
    PROVE  \A r \in list : Harmless(Where(start, list, r), 4)
BY RankIs DEF Where

LEMMA ArmBlockFollows ==
    ASSUME NEW d \in 0..StackWords, Ready(d), Keeps, ArmBlock
    PROVE  Follows(d)
<1>1. PICK pre \in BOOLEAN, up \in BOOLEAN, wb \in BOOLEAN, load \in BOOLEAN, rn \in Low,
           list \in SUBSET Low :
        /\ ~load => \A k \in 0..(Cardinality(list) - 1) :
             Harmless(Plus(BlockStart(pre, up, regs[rn], Cardinality(list)), 4 * k), 4)
        /\ ArmBlockTransfer(pre, up, wb, load, rn, list)
  BY Zenon DEF ArmBlock
<1> DEFINE n == Cardinality(list)
           start == BlockStart(pre, up, regs[rn], n)
           moved == Moved(up, regs[rn], 4 * n)
           words == [r \in list |-> IF r = rn /\ wb /\ r # First(list) THEN moved ELSE regs[r]]
           loaded == IF load THEN LoadedBlock(list, start) ELSE regs
<1>2. kind \in StackKinds /\ regs \in Registry /\ Held
  BY DEF Ready
<1>3. list \in SUBSET Registers /\ rn \in Registers /\ rn # Sp /\ Sp \in Registers
  BY LowIsElsewhere
<1>4. n \in Nat /\ 4 * n \in Int /\ regs[rn] \in Word
  BY <1>2, <1>3, RegistersAre DEF Registry
<1>5. start \in Word /\ moved \in Word
  BY <1>4, BlockStartTyped, MovedTyped
<1>6. /\ IF load THEN NoStore ELSE StoreBlock(start, words)
      /\ regs' = IF wb THEN [loaded EXCEPT ![rn] = moved] ELSE loaded
  BY <1>1 DEF ArmBlockTransfer
<1>7. ~load => \A k \in 0..(n - 1) : Harmless(Plus(start, 4 * k), 4)
  BY <1>1
<1> HIDE DEF start, moved
<1>8. loaded \in Registry /\ loaded[Sp] = regs[Sp]
  BY <1>2, <1>3, <1>5, LoadedBlockTyped, LoadedBlockSp
<1>9. DOMAIN words = list /\ \A r \in list : words[r] \in Word
  BY <1>2, <1>3, <1>5 DEF Registry
<1> HIDE DEF words, loaded
<1>10. regs'[Sp] = regs[Sp]
  BY <1>3, <1>6, <1>8 DEF Registry
<1>11. \A j \in 0..(StackWords - 1) : Same(j)
  <2>1. CASE load
    BY <1>6, <2>1, NoStoreSame
  <2>2. CASE ~load
    <3>1. \A r \in list : Harmless(Where(start, list, r), 4)
      BY <1>3, <1>7, <2>2, HarmlessWhere
    <3> QED
      BY <1>2, <1>3, <1>5, <1>6, <1>9, <2>2, <3>1, HarmlessBlock
  <2> QED
    BY <2>1, <2>2
<1> QED
  BY <1>10, <1>11, StillFollows

LEMMA ThumbBlockFollows ==
    ASSUME NEW d \in 0..StackWords, Ready(d), Keeps, ThumbBlock
    PROVE  Follows(d)
<1>1. PICK load \in BOOLEAN, rb \in Low, list \in SUBSET Low :
        /\ ~load => \A k \in 0..(Cardinality(list) - 1) : Harmless(Plus(regs[rb], 4 * k), 4)
        /\ ThumbMultipleLoadStore(load, rb, list)
  BY Zenon DEF ThumbBlock
<1> DEFINE start == regs[rb]
           moved == Plus(start, 4 * Cardinality(list))
           words == [r \in list |-> IF r = rb /\ r # First(list) THEN moved ELSE regs[r]]
           loaded == IF load THEN LoadedBlock(list, start) ELSE regs
<1>2. kind \in StackKinds /\ regs \in Registry /\ Held
  BY DEF Ready
<1>3. list \in SUBSET Registers /\ rb \in Registers /\ rb # Sp /\ Sp \in Registers
  BY LowIsElsewhere
<1>4. 4 * Cardinality(list) \in Int /\ start \in Word
  BY <1>2, <1>3, RegistersAre DEF Registry
<1>5. moved \in Word
  BY <1>4, PlusTyped
<1>6. /\ IF load THEN NoStore ELSE StoreBlock(start, words)
      /\ regs' = IF load /\ rb \in list THEN loaded ELSE [loaded EXCEPT ![rb] = moved]
  BY <1>1 DEF ThumbMultipleLoadStore
<1>7. ~load => \A k \in 0..(Cardinality(list) - 1) : Harmless(Plus(start, 4 * k), 4)
  BY <1>1
<1> HIDE DEF start, moved
<1>8. loaded \in Registry /\ loaded[Sp] = regs[Sp]
  BY <1>2, <1>3, <1>4, LoadedBlockTyped, LoadedBlockSp
<1>9. DOMAIN words = list /\ \A r \in list : words[r] \in Word
  BY <1>2, <1>3, <1>5 DEF Registry
<1> HIDE DEF words, loaded
<1>10. regs'[Sp] = regs[Sp]
  BY <1>3, <1>6, <1>8 DEF Registry
<1>11. \A j \in 0..(StackWords - 1) : Same(j)
  <2>1. CASE load
    BY <1>6, <2>1, NoStoreSame
  <2>2. CASE ~load
    <3>1. \A r \in list : Harmless(Where(start, list, r), 4)
      BY <1>3, <1>7, <2>2, HarmlessWhere
    <3> QED
      BY <1>2, <1>3, <1>4, <1>6, <1>9, <2>2, <3>1, HarmlessBlock
  <2> QED
    BY <2>1, <2>2
<1> QED
  BY <1>10, <1>11, StillFollows

-----------------------------------------------------------------------------
(***************************************************************************)
(* Those that push and pop.                                                *)
(***************************************************************************)
LEMMA CountPositive ==
    ASSUME NEW list \in SUBSET Registers, list # {}
    PROVE  Cardinality(list) \in Nat \ {0}
<1>1. PICK r \in list : TRUE
  OBVIOUS
<1>2. Above(list, r) \in 0..(Cardinality(list) - 1) /\ Cardinality(list) \in Nat
  BY RankIs, RegistersAre
<1> QED
  BY <1>2

\* A block of words loaded from the stack.
LEMMA BlockLoads ==
    ASSUME kind \in StackKinds, NEW list \in SUBSET Registers, list # {}, NEW d \in Nat,
           NEW n, n = Cardinality(list), d + n \in 0..StackWords, NEW r \in list \cap Elsewhere
    PROVE  LoadedBlock(list, Slot(kind, Spot(kind, d, n, 0)))[r]
             = Read(mem, Slot(kind, Spot(kind, d, n, Above(list, r))), 4)
<1> DEFINE start == Slot(kind, Spot(kind, d, n, 0))
           i == Above(list, r)
<1>1. n \in Nat \ {0}
  BY CountPositive
<1>2. i \in 0..(n - 1)
  BY RankIs
<1>3. Plus(start, 4 * i) = Slot(kind, Spot(kind, d, n, i))
  <2> HIDE DEF i
  <2> QED
    BY <1>1, <1>2, SpotsAre
<1>4. r \in Registers /\ r \in list
  BY LowIsElsewhere
<1> HIDE DEF start
<1>5. LoadedBlock(list, start)[r] = Read(mem, Plus(start, 4 * i), 4)
  BY <1>4 DEF LoadedBlock
<1> QED
  BY <1>3, <1>5 DEF start

LEMMA ArmBlockPushFollows ==
    ASSUME NEW d \in 0..StackWords, Ready(d), Keeps, NEW list \in SUBSET Registers,
           HasRoom(Cardinality(list)),
           ArmBlockTransfer(kind.full, kind.up, TRUE, FALSE, Sp, list)
    PROVE  Follows(d)
<1> DEFINE n == Cardinality(list)
           start == BlockStart(kind.full, kind.up, regs[Sp], n)
           moved == Moved(kind.up, regs[Sp], 4 * n)
           words == [r \in list |-> IF r = Sp /\ TRUE /\ r # First(list) THEN moved ELSE regs[r]]
<1>1. kind \in StackKinds /\ regs \in Registry /\ Held /\ regs[Sp] = PointsTo(kind, d)
  BY DEF Ready
<1>2. list # {} /\ StoreBlock(start, words) /\ regs' = [regs EXCEPT ![Sp] = moved]
  BY DEF ArmBlockTransfer
<1>3. n \in Nat \ {0}
  BY <1>2, CountPositive
<1>4. d \in Nat /\ d + n \in 0..StackWords /\ Sp \in Registers
  <2>1. Depth = d
    BY StackFoundIs
  <2> QED
    BY <1>3, <2>1, AroundStack, LowIsElsewhere DEF HasRoom
<1> HIDE DEF n
<1>5. start = Slot(kind, Spot(kind, d, n, 0)) /\ moved = PointsTo(kind, d + n)
      /\ PointsTo(kind, d + n) \in Word
  <2>1. /\ BlockStart(kind.full, kind.up, PointsTo(kind, d), n) = Slot(kind, Spot(kind, d, n, 0))
        /\ Moved(kind.up, PointsTo(kind, d), 4 * n) = PointsTo(kind, d + n)
        /\ PointsTo(kind, d + n) \in Word
    BY <1>1, <1>3, <1>4, BlockEnds
  <2> QED
    BY <1>1, <2>1, Zenon
<1> HIDE DEF start, moved
<1>6. DOMAIN words = list /\ \A r \in list : words[r] \in Word
  BY <1>1, <1>5 DEF Registry
<1>7. \A r \in list \ {Sp} : words[r] = regs[r]
  OBVIOUS
<1> HIDE DEF words
<1>8. StoreBlock(Slot(kind, Spot(kind, d, n, 0)), words)
  BY <1>2, <1>5
<1>9. /\ \A r \in list : Read(mem', Slot(kind, Spot(kind, d, n, Above(list, r))), 4) = words[r]
      /\ \A j \in 0..(d - 1) : Same(j)
  BY <1>1, <1>2, <1>4, <1>6, <1>8, BlockPushes DEF n
<1>10. regs'[Sp] = PointsTo(kind, d + n) /\ \A r \in Elsewhere : regs'[r] = regs[r]
  BY <1>1, <1>2, <1>4, <1>5, LowIsElsewhere DEF Registry
<1>11. Leads(d, d + n)
  BY <1>4, <1>10, LeadsTo
<1>12. \A r \in list \ {Sp} :
         Read(mem', Slot(kind, Spot(kind, d, n, Above(list, r))), 4) = regs[r]
  BY <1>7, <1>9
<1>13. Stack!Next
  BY <1>9, <1>10, <1>11, <1>12, Pushes DEF n
<1> QED
  BY <1>11, <1>13 DEF Follows

LEMMA ArmBlockPopFollows ==
    ASSUME NEW d \in 0..StackWords, Ready(d), Keeps, NEW list \in SUBSET Registers,
           HasWords(Cardinality(list)),
           ArmBlockTransfer(~kind.full, ~kind.up, TRUE, TRUE, Sp, list)
    PROVE  Follows(d)
<1> DEFINE n == Cardinality(list)
           e == d - n
           start == BlockStart(~kind.full, ~kind.up, regs[Sp], n)
           moved == Moved(~kind.up, regs[Sp], 4 * n)
           loaded == LoadedBlock(list, start)
<1>1. kind \in StackKinds /\ regs \in Registry /\ Held /\ regs[Sp] = PointsTo(kind, d)
  BY DEF Ready
<1>2. list # {} /\ NoStore /\ regs' = [loaded EXCEPT ![Sp] = moved]
  BY DEF ArmBlockTransfer
<1>3. n \in Nat \ {0}
  BY <1>2, CountPositive
<1>4. e \in Nat /\ e + n = d /\ e \in 0..StackWords /\ Sp \in Registers
  <2>1. Depth = d
    BY StackFoundIs
  <2> QED
    BY <1>3, <2>1, AroundStack, LowIsElsewhere DEF HasWords
<1> HIDE DEF n, e
<1>5. start = Slot(kind, Spot(kind, e, n, 0)) /\ moved = PointsTo(kind, e)
      /\ PointsTo(kind, e) \in Word
  <2>1. /\ BlockStart(~kind.full, ~kind.up, PointsTo(kind, e + n), n)
             = Slot(kind, Spot(kind, e, n, 0))
        /\ Moved(~kind.up, PointsTo(kind, e + n), 4 * n) = PointsTo(kind, e)
        /\ PointsTo(kind, e) \in Word
    BY <1>1, <1>3, <1>4, BlockEnds
  <2> QED
    BY <1>1, <1>4, <2>1, Zenon
<1>6. \A r \in list \cap Elsewhere :
        loaded[r] = Read(mem, Slot(kind, Spot(kind, e, n, Above(list, r))), 4)
  BY <1>1, <1>2, <1>4, <1>5, BlockLoads DEF n
<1>7. DOMAIN loaded = Registers /\ \A r \in Elsewhere \ list : loaded[r] = regs[r]
  BY LowIsElsewhere DEF LoadedBlock
<1> HIDE DEF start, moved, loaded
<1>8. regs'[Sp] = PointsTo(kind, e) /\ \A r \in Elsewhere : regs'[r] = loaded[r]
  BY <1>2, <1>4, <1>5, <1>7, LowIsElsewhere
<1>9. Leads(d, e)
  BY <1>4, <1>8, LeadsTo
<1>10. Leads(e + 0 + n, e) /\ e + 0 = e
  BY <1>4, <1>9
<1>11. Filled(list, e + 0)
  BY <1>6, <1>7, <1>8, <1>10 DEF Filled, n
<1>12. \A j \in 0..(e - 1) : Same(j)
  BY <1>2, NoStoreSame
<1>13. Stack!Next
  <2>1. 0 \in Nat
    OBVIOUS
  <2> QED
    BY <1>4, <1>10, <1>11, <1>12, <2>1, Pops DEF n
<1> QED
  BY <1>9, <1>13 DEF Follows

LEMMA ArmBlockPushPopFollows ==
    ASSUME NEW d \in 0..StackWords, Ready(d), Keeps, ArmBlockPushPop
    PROVE  Follows(d)
<1>1. PICK load \in BOOLEAN, list \in SUBSET Registers :
        /\ IF load THEN HasWords(Cardinality(list)) ELSE HasRoom(Cardinality(list))
        /\ ArmBlockTransfer(kind.full # load, kind.up # load, TRUE, load, Sp, list)
  BY Zenon DEF ArmBlockPushPop
<1>2. kind.up \in BOOLEAN /\ kind.full \in BOOLEAN
  BY GrowthIs DEF Ready
<1>3. CASE load = TRUE
  <2>1. (kind.full # load) = ~kind.full /\ (kind.up # load) = ~kind.up
    BY <1>2, <1>3
  <2>2. ArmBlockTransfer(~kind.full, ~kind.up, TRUE, TRUE, Sp, list)
    BY <1>1, <1>3, <2>1
  <2> QED
    BY <1>1, <1>3, <2>2, ArmBlockPopFollows
<1>4. CASE load = FALSE
  <2>1. (kind.full # load) = kind.full /\ (kind.up # load) = kind.up
    BY <1>2, <1>4
  <2>2. ArmBlockTransfer(kind.full, kind.up, TRUE, FALSE, Sp, list)
    BY <1>1, <1>4, <2>1
  <2> QED
    BY <1>1, <1>4, <2>2, ArmBlockPushFollows
<1> QED
  BY <1>3, <1>4

\* An aligned word is loaded as it lies.
LEMMA RotatedNone ==
    ASSUME NEW v \in Word
    PROVE  Rotated(v, 0) = v
<1>1. Place(0) = 1 /\ v \in Nat
  BY Places, Spaces
<1>2. v \div 1 = v /\ v % 1 = 0
  BY <1>1
<1>3. Place(4) \in Nat
  BY Places
<1> QED
  BY <1>1, <1>2, <1>3 DEF Rotated

\* One word.
LEMMA OneWord ==
    ASSUME NEW k \in StackKinds, NEW d \in Nat, d + 1 \in 0..StackWords
    PROVE  /\ Slot(k, d) = IF k.full THEN PointsTo(k, d + 1) ELSE PointsTo(k, d)
           /\ Spot(k, d, 1, 0) = d
           /\ Moved(k.up, PointsTo(k, d), 4) = PointsTo(k, d + 1)
           /\ Moved(~k.up, PointsTo(k, d + 1), 4) = PointsTo(k, d)
           /\ PointsTo(k, d) \in Word /\ PointsTo(k, d + 1) \in Word
<1>1. k.up \in BOOLEAN /\ k.full \in BOOLEAN /\ Bottom \in Nat /\ Growth(k) \in Int
  BY GrowthIs, AroundStack
<1>2. Slot(k, d) = IF k.full THEN PointsTo(k, d + 1) ELSE PointsTo(k, d)
  <2>1. d \in Int /\ d + 1 \in Int
    OBVIOUS
  <2>2. /\ Slot(k, d) = Bottom + 4 * (IF k.up THEN IF k.full THEN d + 1 ELSE d
                                      ELSE IF k.full THEN -(d + 1) ELSE -d)
        /\ PointsTo(k, d) = Bottom + 4 * (IF k.up THEN d ELSE -d)
        /\ PointsTo(k, d + 1) = Bottom + 4 * (IF k.up THEN d + 1 ELSE -(d + 1))
    BY <2>1, Places4
  <2> QED
    BY <1>1, <2>2
<1>3. Spot(k, d, 1, 0) = d
  BY DEF Spot
<1>4. 1 \in Nat \ {0} /\ 4 * 1 = 4
  OBVIOUS
<1>5. /\ Moved(k.up, PointsTo(k, d), 4 * 1) = PointsTo(k, d + 1)
      /\ Moved(~k.up, PointsTo(k, d + 1), 4 * 1) = PointsTo(k, d)
      /\ PointsTo(k, d) \in Word /\ PointsTo(k, d + 1) \in Word
  BY <1>4, BlockEnds
<1> QED
  BY <1>2, <1>3, <1>4, <1>5

LEMMA SingletonIs ==
    ASSUME NEW r \in Elsewhere
    PROVE  /\ {r} \in SUBSET Registers /\ Cardinality({r}) = 1
           /\ Above({r}, r) = 0
<1>1. {r} \in SUBSET Registers /\ r \in {r}
  BY LowIsElsewhere
<1>2. Cardinality({r}) = 1
  BY FS_Singleton
<1>3. Above({r}, r) \in 0..(Cardinality({r}) - 1)
  BY <1>1, RankIs
<1> QED
  BY <1>1, <1>2, <1>3

LEMMA ArmPushFollows ==
    ASSUME NEW d \in 0..StackWords, Ready(d), Keeps, NEW rd \in Elsewhere, HasRoom(1),
           ArmTransfer("word", kind.full, kind.up, kind.full, FALSE, Sp, rd, 4)
    PROVE  Follows(d)
<1> DEFINE a == Address(kind.full, kind.up, regs[Sp], 4)
           list == {rd}
<1>1. kind \in StackKinds /\ regs \in Registry /\ Held /\ regs[Sp] = PointsTo(kind, d)
      /\ kind.full \in BOOLEAN
  BY GrowthIs DEF Ready
<1>2. d \in Nat /\ d + 1 \in 0..StackWords /\ d \in 0..(StackWords - 1)
  <2>1. Depth = d
    BY StackFoundIs
  <2> QED
    BY <2>1, AroundStack DEF HasRoom
<1>3. /\ Slot(kind, d) = IF kind.full THEN PointsTo(kind, d + 1) ELSE PointsTo(kind, d)
      /\ Spot(kind, d, 1, 0) = d
      /\ Moved(kind.up, PointsTo(kind, d), 4) = PointsTo(kind, d + 1)
  BY <1>1, <1>2, OneWord
<1>4. a = Slot(kind, d)
  BY <1>1, <1>3 DEF Address
<1>5. Store(Slot(kind, d), 4, regs[rd])
  BY <1>4 DEF ArmTransfer, Bytes
<1>6. regs' = [regs EXCEPT ![Sp] = PointsTo(kind, d + 1)]
  BY <1>1, <1>3 DEF ArmTransfer, WithBase
<1> HIDE DEF a
<1>7. regs[rd] \in Word
  BY <1>1, LowIsElsewhere DEF Registry
<1>8. /\ Read(mem', Slot(kind, d), 4) = regs[rd]
      /\ \A j \in 0..(StackWords - 1) : j # d => Same(j)
  BY <1>1, <1>2, <1>5, <1>7, SlotStores
<1>9. regs'[Sp] = PointsTo(kind, d + 1) /\ \A r \in Elsewhere : regs'[r] = regs[r]
  BY <1>1, <1>6, LowIsElsewhere DEF Registry
<1>10. Leads(d, d + 1)
  BY <1>2, <1>9, LeadsTo
<1>11. list \in SUBSET Registers /\ Cardinality(list) = 1 /\ Above(list, rd) = 0
  BY SingletonIs
<1>12. ASSUME NEW r \in list \ {Sp}
       PROVE  Read(mem', Slot(kind, Spot(kind, d, Cardinality(list), Above(list, r))), 4) = regs[r]
  <2>1. r = rd
    BY <1>12
  <2> QED
    BY <1>3, <1>8, <1>11, <2>1
<1>13. \A j \in 0..(d - 1) : Same(j)
  <2>1. \A j \in 0..(d - 1) : j \in 0..(StackWords - 1) /\ j # d
    BY <1>2, AroundStack
  <2> QED
    BY <1>8, <2>1
<1> HIDE DEF list
<1>14. Stack!Next
  BY <1>9, <1>10, <1>11, <1>12, <1>13, Pushes
<1> QED
  BY <1>10, <1>14 DEF Follows

LEMMA ArmPopFollows ==
    ASSUME NEW d \in 0..StackWords, Ready(d), Keeps, NEW rd \in Elsewhere, HasWords(1),
           ArmTransfer("word", ~kind.full, ~kind.up, ~kind.full, TRUE, Sp, rd, 4)
    PROVE  Follows(d)
<1> DEFINE a == Address(~kind.full, ~kind.up, regs[Sp], 4)
           v == Loaded(mem, "word", a)
           list == {rd}
           e == d - 1
<1>1. kind \in StackKinds /\ regs \in Registry /\ Held /\ regs[Sp] = PointsTo(kind, d)
      /\ kind.full \in BOOLEAN
  BY GrowthIs DEF Ready
<1>2. e \in Nat /\ e + 1 = d /\ e \in 0..StackWords /\ e \in 0..(StackWords - 1)
  <2>1. Depth = d
    BY StackFoundIs
  <2> QED
    BY <2>1, AroundStack DEF HasWords
<1>3. /\ Slot(kind, e) = IF kind.full THEN PointsTo(kind, e + 1) ELSE PointsTo(kind, e)
      /\ Spot(kind, e, 1, 0) = e
      /\ Moved(~kind.up, PointsTo(kind, e + 1), 4) = PointsTo(kind, e)
  <2> HIDE DEF e
  <2> QED
    BY <1>1, <1>2, OneWord
<1> HIDE DEF e
<1>4. a = Slot(kind, e)
  BY <1>1, <1>2, <1>3 DEF Address
<1>5. NoStore /\ regs' = [[regs EXCEPT ![rd] = v] EXCEPT ![Sp] = PointsTo(kind, e)]
  BY <1>1, <1>2, <1>3, LowIsElsewhere DEF ArmTransfer, WithBase
<1>6. v = Read(mem, Slot(kind, e), 4)
  <2>1. Slot(kind, e) \in Slots(kind)
    BY <1>1, <1>2, SlotTyped
  <2>2. a % 4 = 0 /\ a \in Word
    BY <1>1, <1>4, <2>1, SlotsAre DEF Holds
  <2>3. Read(mem, a, 4) \in Word
    BY <1>1, <2>2, ReadIsWord DEF Held
  <2> HIDE DEF a
  <2>4. v = Rotated(Read(mem, a, 4), a % 4)
    BY DEF Loaded
  <2> QED
    BY <1>4, <2>2, <2>3, <2>4, RotatedNone
<1> HIDE DEF a, v
<1>7. regs'[Sp] = PointsTo(kind, e)
      /\ \A r \in Elsewhere : regs'[r] = IF r = rd THEN Read(mem, Slot(kind, e), 4) ELSE regs[r]
  BY <1>1, <1>5, <1>6, LowIsElsewhere DEF Registry
<1>8. list \in SUBSET Registers /\ Cardinality(list) = 1 /\ Above(list, rd) = 0
  BY SingletonIs
<1>9. Leads(d, e)
  BY <1>2, <1>7, LeadsTo
<1>10. Leads(e + 0 + Cardinality(list), e) /\ e + 0 = e
  BY <1>2, <1>8, <1>9
<1>11. Filled(list, e + 0)
  <2>1. \A r : r \in list <=> r = rd
    OBVIOUS
  <2> HIDE DEF list
  <2> QED
    BY <1>3, <1>7, <1>8, <1>10, <2>1 DEF Filled
<1> HIDE DEF list
<1>12. \A j \in 0..(e - 1) : Same(j)
  BY <1>5, NoStoreSame
<1>13. Stack!Next
  <2>1. 0 \in Nat
    OBVIOUS
  <2> QED
    BY <1>2, <1>8, <1>10, <1>11, <1>12, <2>1, Pops
<1> QED
  BY <1>9, <1>13 DEF Follows

LEMMA ArmPushPopFollows ==
    ASSUME NEW d \in 0..StackWords, Ready(d), Keeps, ArmPushPop
    PROVE  Follows(d)
<1>1. PICK load \in BOOLEAN, rd \in Elsewhere :
        /\ IF load THEN HasWords(1) ELSE HasRoom(1)
        /\ ArmTransfer("word", kind.full # load, kind.up # load, kind.full # load, load, Sp, rd, 4)
  BY DEF ArmPushPop, ArmSingleTransfer
<1>2. kind.up \in BOOLEAN /\ kind.full \in BOOLEAN
  BY GrowthIs DEF Ready
<1>3. CASE load = TRUE
  <2>1. (kind.full # load) = ~kind.full /\ (kind.up # load) = ~kind.up
    BY <1>2, <1>3
  <2>2. ArmTransfer("word", ~kind.full, ~kind.up, ~kind.full, TRUE, Sp, rd, 4)
    BY <1>1, <1>3, <2>1
  <2> QED
    BY <1>1, <1>3, <2>2, ArmPopFollows
<1>4. CASE load = FALSE
  <2>1. (kind.full # load) = kind.full /\ (kind.up # load) = kind.up
    BY <1>2, <1>4
  <2>2. ArmTransfer("word", kind.full, kind.up, kind.full, FALSE, Sp, rd, 4)
    BY <1>1, <1>4, <2>1
  <2> QED
    BY <1>1, <1>4, <2>2, ArmPushFollows
<1> QED
  BY <1>3, <1>4

\* Thumb state uses one of the four kinds.
ThumbKind == kind = [up |-> FALSE, full |-> TRUE]

\* The words of the stack in place.
LEMMA FrameAddress ==
    ASSUME NEW d \in 0..StackWords, Ready(d), ThumbKind, NEW i \in 1..d
    PROVE  Plus(regs[Sp], 4 * (i - 1)) = Slot(kind, d - i) /\ d - i \in 0..(StackWords - 1)
           /\ d - i \in 0..(d - 1)
<1>1. kind \in StackKinds /\ regs[Sp] = PointsTo(kind, d) /\ ~kind.up /\ kind.full
  BY DEF Ready, ThumbKind
<1>2. Plus(IF kind.full THEN regs[Sp] ELSE Plus(regs[Sp], -Growth(kind)),
           (i - 1) * (-Growth(kind))) = Slot(kind, d - i)
  BY <1>1, SlotFrom, Zenon
<1>3. Plus(regs[Sp], (i - 1) * (-Growth(kind))) = Slot(kind, d - i)
  BY <1>1, <1>2
<1>4. (i - 1) * (-Growth(kind)) = 4 * (i - 1)
  <2>1. -Growth(kind) = 4
    BY <1>1, GrowthIs
  <2> QED
    BY <2>1
<1> QED
  BY <1>3, <1>4, AroundStack

LEMMA SpRelFollows ==
    ASSUME NEW d \in 0..StackWords, Ready(d), Keeps, ThumbKind, NEW load \in BOOLEAN,
           NEW rd \in Low, NEW i \in 1..d, ThumbSpRelLoadStore(load, rd, 4 * (i - 1))
    PROVE  Follows(d)
<1> DEFINE a == Plus(regs[Sp], 4 * (i - 1))
<1>1. kind \in StackKinds /\ regs \in Registry /\ Held /\ regs[Sp] = PointsTo(kind, d)
  BY DEF Ready
<1>2. a = Slot(kind, d - i) /\ d - i \in 0..(StackWords - 1)
  BY FrameAddress
<1>3. /\ IF load THEN NoStore ELSE Store(a, 4, regs[rd])
      /\ regs' = IF load THEN [regs EXCEPT ![rd] = Read(mem, a, 4)] ELSE regs
  BY DEF ThumbSpRelLoadStore
<1>4. rd \in Elsewhere /\ rd \in Registers /\ rd # Sp
  BY LowIsElsewhere
<1> HIDE DEF a
<1>5. CASE load
  <2>1. regs'[Sp] = regs[Sp]
    BY <1>1, <1>3, <1>4, <1>5 DEF Registry
  <2> QED
    BY <1>3, <1>5, <2>1, NoStoreSame, StillFollows
<1>6. CASE ~load
  <2>1. regs[rd] \in Word
    BY <1>1, <1>4 DEF Registry
  <2>2. Store(Slot(kind, d - i), 4, regs[rd]) /\ regs' = regs
    BY <1>2, <1>3, <1>6
  <2>3. /\ Read(mem', Slot(kind, d - i), 4) = regs[rd]
        /\ \A j \in 0..(StackWords - 1) : j # d - i => Same(j)
    BY <1>1, <1>2, <2>1, <2>2, SlotStores
  <2>4. Leads(d, d)
    BY <1>1, <2>2, LeadsTo
  <2>5. \A j \in 0..(d - 1) : j \in 0..(StackWords - 1)
    BY AroundStack
  <2>6. \A j \in 0..(d - 1) : IF j = d - i THEN Read(mem', Slot(kind, j), 4) = regs[rd] ELSE Same(j)
    BY <2>3, <2>5
  <2>7. \A q \in Elsewhere : regs'[q] = regs[q]
    BY <2>2
  <2>8. Stack!Next
    BY <1>4, <2>4, <2>6, <2>7, Pokes
  <2> QED
    BY <2>4, <2>8 DEF Follows
<1> QED
  BY <1>5, <1>6

LEMMA EmptyIs == {} \in SUBSET Registers /\ Cardinality({}) = 0
BY FS_EmptySet

LEMMA AdjustFollows ==
    ASSUME NEW d \in 0..StackWords, Ready(d), Keeps, ThumbKind, NEW n \in 1..d,
           ThumbAdjustSp(4 * n)
    PROVE  Follows(d)
<1> DEFINE e == d - n
<1>1. kind \in StackKinds /\ regs \in Registry /\ regs[Sp] = PointsTo(kind, d) /\ ~kind.up
  BY DEF Ready, ThumbKind
<1>2. e \in Nat /\ e + n = d /\ e \in 0..StackWords /\ n \in Nat \ {0}
  BY AroundStack
<1> HIDE DEF e
<1>3. Moved(~kind.up, PointsTo(kind, e + n), 4 * n) = PointsTo(kind, e)
  BY <1>1, <1>2, BlockEnds
<1>4. regs' = [regs EXCEPT ![Sp] = PointsTo(kind, e)] /\ NoStore
  BY <1>1, <1>2, <1>3 DEF ThumbAdjustSp, Moved
<1>5. regs'[Sp] = PointsTo(kind, e) /\ \A r \in Elsewhere : regs'[r] = regs[r]
  BY <1>1, <1>4, LowIsElsewhere DEF Registry
<1>6. Leads(d, e)
  BY <1>2, <1>5, LeadsTo
<1>7. Stack!Next
  <2>1. Leads(e + n + Cardinality({}), e) /\ n \in Nat
    BY <1>2, <1>6, EmptyIs
  <2>2. Filled({}, e + n)
    BY <1>5 DEF Filled
  <2>3. \A j \in 0..(e - 1) : Same(j)
    BY <1>4, NoStoreSame
  <2> QED
    BY <1>2, <2>1, <2>2, <2>3, EmptyIs, Pops
<1> QED
  BY <1>6, <1>7 DEF Follows

\* The words of PUSH {list, lr}.
LEMMA CountWithLr ==
    ASSUME NEW list \in SUBSET Low, NEW lr \in BOOLEAN
    PROVE  /\ list \in SUBSET Registers /\ list \cup (IF lr THEN {Lr} ELSE {}) \in SUBSET Registers
           /\ Cardinality(list) \in Nat
           /\ Cardinality(list \cup (IF lr THEN {Lr} ELSE {}))
                = Cardinality(list) + (IF lr THEN 1 ELSE 0)
<1>1. list \in SUBSET Registers /\ Lr \in Registers /\ Lr \notin list
  BY LoadStoreAssumption, RegistersAre
<1>2. Registers \subseteq 0..14
  BY LoadStoreAssumption DEF Registers, Sp, Lr
<1>3. IsFiniteSet(0..14)
  BY FS_Interval, 0 \in Int, 14 \in Int
<1>4. list \subseteq 0..14
  BY <1>1, <1>2
<1>5. IsFiniteSet(list)
  BY <1>3, <1>4, FS_Subset
<1>6. Cardinality(list \cup {Lr}) = Cardinality(list) + 1
  BY <1>1, <1>5, FS_AddElement
<1>7. Cardinality(list) \in Nat
  BY <1>1, RegistersAre
<1>8. list \cup {} = list
  OBVIOUS
<1>9. CASE lr
  BY <1>1, <1>6, <1>7, <1>9
<1>10. CASE ~lr
  <2>1. (IF lr THEN {Lr} ELSE {}) = {} /\ (IF lr THEN 1 ELSE 0) = 0
    BY <1>10
  <2>2. Cardinality(list \cup (IF lr THEN {Lr} ELSE {})) = Cardinality(list)
    BY <1>8, <2>1
  <2> QED
    BY <1>1, <1>7, <1>8, <2>1, <2>2
<1> QED
  BY <1>9, <1>10

LEMMA ThumbPushFollows ==
    ASSUME NEW d \in 0..StackWords, Ready(d), Keeps, ThumbKind, NEW list \in SUBSET Low,
           NEW lr \in BOOLEAN, list # {} \/ lr,
           HasRoom(Cardinality(list) + (IF lr THEN 1 ELSE 0)), ThumbPush(list, lr)
    PROVE  Follows(d)
<1> DEFINE pushed == list \cup (IF lr THEN {Lr} ELSE {})
           n == Cardinality(pushed)
           start == Plus(regs[Sp], -4 * n)
           words == [r \in pushed |-> regs[r]]
<1>1. /\ kind \in StackKinds /\ regs \in Registry /\ Held /\ regs[Sp] = PointsTo(kind, d)
      /\ kind.up = FALSE /\ kind.full = TRUE
  BY DEF Ready, ThumbKind
<1>2. StoreBlock(start, words) /\ regs' = [regs EXCEPT ![Sp] = start]
  BY DEF ThumbPush
<1>3. pushed \in SUBSET Registers /\ pushed # {}
  BY CountWithLr
<1>4. HasRoom(n)
  BY CountWithLr
<1> HIDE DEF pushed
<1>5. n \in Nat \ {0}
  BY <1>3, CountPositive
<1>6. d \in Nat /\ d + n \in 0..StackWords
  <2>1. Depth = d
    BY StackFoundIs
  <2> HIDE DEF n
  <2> QED
    BY <1>4, <1>5, <2>1, AroundStack DEF HasRoom
<1>7. start = Slot(kind, Spot(kind, d, n, 0)) /\ start = PointsTo(kind, d + n)
  <2> HIDE DEF n
  <2>1. /\ BlockStart(kind.full, kind.up, PointsTo(kind, d), n) = Slot(kind, Spot(kind, d, n, 0))
        /\ Moved(kind.up, PointsTo(kind, d), 4 * n) = PointsTo(kind, d + n)
    BY <1>1, <1>5, <1>6, BlockEnds
  <2>2. BlockStart(kind.full, kind.up, PointsTo(kind, d), n) = start
    BY <1>1 DEF BlockStart
  <2>3. Moved(kind.up, PointsTo(kind, d), 4 * n) = Plus(PointsTo(kind, d), -(4 * n))
    BY <1>1 DEF Moved
  <2>4. -4 * n = -(4 * n)
    BY <1>5
  <2> QED
    BY <1>1, <2>1, <2>2, <2>3, <2>4
<1> HIDE DEF start
<1>8. DOMAIN words = pushed /\ \A r \in pushed : words[r] \in Word /\ words[r] = regs[r]
  BY <1>1, <1>3 DEF Registry
<1> HIDE DEF words
<1>9. StoreBlock(Slot(kind, Spot(kind, d, n, 0)), words)
  BY <1>2, <1>7
<1>10. /\ \A r \in pushed : Read(mem', Slot(kind, Spot(kind, d, n, Above(pushed, r))), 4) = words[r]
       /\ \A j \in 0..(d - 1) : Same(j)
  BY <1>1, <1>3, <1>6, <1>8, <1>9, BlockPushes
<1>11. regs'[Sp] = PointsTo(kind, d + n) /\ \A r \in Elsewhere : regs'[r] = regs[r]
  BY <1>1, <1>2, <1>7, LowIsElsewhere DEF Registry
<1>12. Leads(d, d + n)
  BY <1>6, <1>11, LeadsTo
<1>13. \A r \in pushed \ {Sp} :
         Read(mem', Slot(kind, Spot(kind, d, n, Above(pushed, r))), 4) = regs[r]
  BY <1>8, <1>10
<1>14. Stack!Next
  BY <1>3, <1>10, <1>11, <1>12, <1>13, Pushes
<1> QED
  BY <1>12, <1>14 DEF Follows

LEMMA ThumbPopFollows ==
    ASSUME NEW d \in 0..StackWords, Ready(d), Keeps, ThumbKind, NEW list \in SUBSET Low,
           NEW pc \in BOOLEAN, list # {} \/ pc,
           HasWords(Cardinality(list) + (IF pc THEN 1 ELSE 0)), ThumbPop(list, pc)
    PROVE  Follows(d)
<1> DEFINE m == Cardinality(list)
           below == IF pc THEN 1 ELSE 0
           n == m + below
           e == d - n
           f == d - m
           start == regs[Sp]
           loaded == LoadedBlock(list, start)
<1>1. /\ kind \in StackKinds /\ regs \in Registry /\ Held /\ start = PointsTo(kind, d)
      /\ kind.up = FALSE /\ kind.full = TRUE
  BY DEF Ready, ThumbKind
<1>2. NoStore /\ regs' = [loaded EXCEPT ![Sp] = Plus(start, 4 * n)]
  BY DEF ThumbPop
<1>3. list \in SUBSET Registers /\ m \in Nat /\ (list # {} => m # 0)
  <2>1. list \in SUBSET Registers /\ m \in Nat
    BY CountWithLr
  <2>2. list # {} => m \in Nat \ {0}
    BY <2>1, CountPositive
  <2> QED
    BY <2>1, <2>2
<1>4. Depth = d
  BY StackFoundIs
<1> HIDE DEF m
<1>5. /\ e \in Nat /\ e + n = d /\ n \in Nat \ {0} /\ e \in 0..StackWords /\ below \in Nat
      /\ f \in Nat /\ f + m = d /\ e + below = f /\ e + below + m = d
  <2>1. n <= d
    BY <1>4 DEF HasWords, m
  <2>2. below \in {0, 1} /\ (pc => below = 1) /\ (~pc => below = 0)
    OBVIOUS
  <2> HIDE DEF below
  <2> QED
    BY <1>3, <2>1, <2>2, AroundStack
<1> HIDE DEF n, e, f, below
<1>6. Plus(start, 4 * n) = PointsTo(kind, e)
  <2>1. Moved(~kind.up, PointsTo(kind, e + n), 4 * n) = PointsTo(kind, e)
    BY <1>1, <1>5, BlockEnds
  <2> QED
    BY <1>1, <1>5, <2>1 DEF Moved
<1>7. list # {} => start = Slot(kind, Spot(kind, f, m, 0))
  <2>1. SUFFICES ASSUME list # {} PROVE start = Slot(kind, Spot(kind, f, m, 0))
    OBVIOUS
  <2>2. m \in Nat \ {0}
    BY <1>3, <2>1
  <2>3. BlockStart(~kind.full, ~kind.up, PointsTo(kind, f + m), m) = Slot(kind, Spot(kind, f, m, 0))
    BY <1>1, <1>5, <2>2, BlockEnds
  <2> HIDE DEF start
  <2> QED
    BY <1>1, <1>5, <2>3 DEF BlockStart
<1>8. \A r \in list \cap Elsewhere :
        loaded[r] = Read(mem, Slot(kind, Spot(kind, f, m, Above(list, r))), 4)
  <2>1. CASE list = {}
    BY <2>1
  <2>2. CASE list # {}
    BY <1>1, <1>3, <1>5, <1>7, <2>2, BlockLoads DEF m
  <2> QED
    BY <2>1, <2>2
<1>9. DOMAIN loaded = Registers /\ \A r \in Elsewhere \ list : loaded[r] = regs[r]
  BY LowIsElsewhere DEF LoadedBlock
<1> HIDE DEF start, loaded
<1>10. regs'[Sp] = PointsTo(kind, e) /\ \A r \in Elsewhere : regs'[r] = loaded[r]
  BY <1>2, <1>6, <1>9, LowIsElsewhere
<1>11. Leads(d, e)
  BY <1>5, <1>10, LeadsTo
<1>12. Leads(e + below + m, e)
  BY <1>5, <1>11
<1>13. Filled(list, e + below)
  BY <1>5, <1>8, <1>9, <1>10 DEF Filled, m
<1>14. \A j \in 0..(e - 1) : Same(j)
  BY <1>2, NoStoreSame
<1>15. Stack!Next
  BY <1>3, <1>5, <1>12, <1>13, <1>14, Pops DEF m
<1> QED
  BY <1>11, <1>15 DEF Follows

LEMMA ThumbFrameFollows ==
    ASSUME NEW d \in 0..StackWords, Ready(d), Keeps, ThumbFrame
    PROVE  Follows(d)
<1>1. ThumbKind /\ Depth = d
  BY StackFoundIs DEF ThumbFrame, ThumbKind
<1>2. CASE \E load \in BOOLEAN, rd \in Low, i \in 1..d : ThumbSpRelLoadStore(load, rd, 4 * (i - 1))
  BY <1>1, <1>2, SpRelFollows
<1>3. CASE \E n \in 1..d : ThumbAdjustSp(4 * n)
  BY <1>1, <1>3, AdjustFollows
<1>4. CASE \E list \in SUBSET Low, lr \in BOOLEAN :
             /\ list # {} \/ lr
             /\ \/ HasRoom(Cardinality(list) + (IF lr THEN 1 ELSE 0)) /\ ThumbPush(list, lr)
                \/ HasWords(Cardinality(list) + (IF lr THEN 1 ELSE 0)) /\ ThumbPop(list, lr)
  <2>1. PICK list \in SUBSET Low, lr \in BOOLEAN :
             /\ list # {} \/ lr
             /\ \/ HasRoom(Cardinality(list) + (IF lr THEN 1 ELSE 0)) /\ ThumbPush(list, lr)
                \/ HasWords(Cardinality(list) + (IF lr THEN 1 ELSE 0)) /\ ThumbPop(list, lr)
    BY <1>4, Zenon
  <2>2. CASE HasRoom(Cardinality(list) + (IF lr THEN 1 ELSE 0)) /\ ThumbPush(list, lr)
    BY <1>1, <2>1, <2>2, ThumbPushFollows
  <2>3. CASE HasWords(Cardinality(list) + (IF lr THEN 1 ELSE 0)) /\ ThumbPop(list, lr)
    BY <1>1, <2>1, <2>3, ThumbPopFollows
  <2> QED
    BY <2>1, <2>2, <2>3
<1> QED
  BY <1>1, <1>2, <1>3, <1>4 DEF ThumbFrame

-----------------------------------------------------------------------------
(***************************************************************************)
(* The stack is kept.                                                      *)
(***************************************************************************)
\* The inductive invariant: r13 points to a slot of the stack.
StackInv == \E d \in 0..StackWords : Ready(d)

LEMMA NextFollows ==
    ASSUME NEW d \in 0..StackWords, Ready(d), Next
    PROVE  Follows(d)
<1>1. Keeps
  <2>1. Held /\ regs \in Registry /\ kind \in [up : BOOLEAN, full : BOOLEAN]
    BY DEF Ready, StackKinds
  <2> QED
    BY <2>1, NextKeeps
<1>2. CASE SetRegister
  BY <1>1, <1>2, SetRegisterFollows
<1>3. CASE ArmPushPop
  BY <1>1, <1>3, ArmPushPopFollows
<1>4. CASE ArmSingle
  BY <1>1, <1>4, ArmSingleFollows
<1>5. CASE ArmSwap
  BY <1>1, <1>5, ArmSwapFollows
<1>6. CASE ThumbSingle
  BY <1>1, <1>6, ThumbSingleFollows
<1>7. CASE ThumbPcRel
  BY <1>1, <1>7, ThumbPcRelFollows
<1>8. CASE ThumbFrame
  BY <1>1, <1>8, ThumbFrameFollows
<1>9. CASE ArmBlockPushPop
  BY <1>1, <1>9, ArmBlockPushPopFollows
<1>10. CASE ArmBlock
  BY <1>1, <1>10, ArmBlockFollows
<1>11. CASE ThumbBlock
  BY <1>1, <1>11, ThumbBlockFollows
<1> QED
  BY <1>2, <1>3, <1>4, <1>5, <1>6, <1>7, <1>8, <1>9, <1>10, <1>11 DEF Next

LEMMA StackInit == Init => StackInv /\ Stack!Init
<1>1. SUFFICES ASSUME Init PROVE StackInv /\ Stack!Init
  OBVIOUS
<1>2. IInv
  BY <1>1, InitHolds
<1>3. Held /\ regs \in Registry /\ kind \in StackKinds
  BY <1>2 DEF IInv, TypeOK, Held, Registry, StackKinds
<1>4. regs[Sp] = PointsTo(kind, 0) /\ 0 \in 0..StackWords
  <2>1. regs[Sp] = Bottom
    BY <1>1 DEF Init
  <2>2. PointsTo(kind, 0) = Bottom
    BY <1>3, GrowthIs, AroundStack
  <2> QED
    BY <2>1, <2>2, AroundStack
<1>5. Ready(0)
  BY <1>3, <1>4 DEF Ready
<1>6. StackFound = Found(mem, kind, 0)
  BY <1>4, <1>5, StackFoundIs
<1>7. StackFound \in Seq(Word) /\ Len(StackFound) = 0
  BY <1>3, <1>4, <1>6, HeldContents, FoundTyped
<1>8. StackFound = << >>
  BY <1>7, EmptySeq
<1> QED
  BY <1>4, <1>5, <1>8 DEF StackInv, Stack!Init

LEMMA StackSteps ==
    StackInv /\ [Next]_vars
      => StackInv' /\ [Stack!Next]_<<StackFound, [r \in Elsewhere |-> regs[r]], kind.up>>
<1>1. SUFFICES ASSUME StackInv, [Next]_vars
               PROVE  /\ StackInv'
                      /\ [Stack!Next]_<<StackFound, [r \in Elsewhere |-> regs[r]], kind.up>>
  OBVIOUS
<1>2. PICK d \in 0..StackWords : Ready(d)
  BY <1>1 DEF StackInv
<1>3. CASE Next
  <2>1. Stack!Next /\ \E e : Leads(d, e)
    BY <1>2, <1>3, NextFollows DEF Follows
  <2>2. PICK e : Leads(d, e)
    BY <2>1
  <2>3. e \in 0..StackWords /\ Ready(e)'
    BY <2>2 DEF Leads
  <2> QED
    BY <2>1, <2>3 DEF StackInv
<1>4. CASE UNCHANGED vars
  <2>1. mem' = mem /\ regs' = regs /\ kind' = kind /\ told' = told
    BY <1>4 DEF vars
  <2>2. Ready(d)'
    BY <1>2, <2>1 DEF Ready, Held, IsMemory, Agree
  <2>3. StackFound' = StackFound
    BY <1>2, <2>1, <2>2, StackFoundIs, StackFoundNext
  <2> QED
    BY <2>1, <2>2, <2>3 DEF StackInv
<1> QED
  BY <1>1, <1>3, <1>4

\* Memory and r13 are a stack: every operation of either instruction set, on each of
\* the four kinds of stack, is a step of the stack of WordStack, or none of it.
THEOREM StackKept == Spec => StackIsKept
<1>1. Init => StackInv /\ Stack!Init
  BY StackInit
<1>2. StackInv /\ [Next]_vars
        => StackInv' /\ [Stack!Next]_<<StackFound, [r \in Elsewhere |-> regs[r]], kind.up>>
  BY StackSteps
<1> QED
  BY <1>1, <1>2, PTL DEF Spec, StackIsKept, Stack!Spec
=============================================================================
