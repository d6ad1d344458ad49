----------------------------- MODULE Apu_proofs -------------------------------
(***************************************************************************)
(* Proofs about the sound hardware.  First Sound, for rings of every size and *)
(* any number of FIFOs: the types, agreement of the indices, that the rings *)
(* implement the queues of SampleQueue and the output buffer AudioStream.  *)
(* Then Psg, for every choice of its limits: the types, that a sounding    *)
(* channel has time left, and that envelopes keep their pace.              *)
(***************************************************************************)
EXTENDS Sound, Psg, Numbers, SequenceTheorems, TLAPS

-----------------------------------------------------------------------------
(***************************************************************************)
(* One ring.                                                               *)
(***************************************************************************)
Sound(r) == r \in Ring /\ r.write = (r.read + r.count) % Size

\* A write carries a sequence of samples.
LEMMA WritesAreSamples == \A s \in Writes : s \in Seq(Samples)
<1>1. Silence \in Samples
  BY FifoAssumption
<1>2. ASSUME NEW l \in LowHalf PROVE l \in Seq(Samples)
  <2>1. PICK x \in Samples, y \in Samples : l = <<x, y, Silence, Silence>>
    BY DEF LowHalf
  <2>2. <<x, y, Silence, Silence>> \in Seq(Samples)
    BY <1>1
  <2> QED
    BY <2>1, <2>2
<1>3. ASSUME NEW h \in HighHalf PROVE h \in Seq(Samples)
  <2>1. PICK x \in Samples, y \in Samples : h = <<Silence, Silence, x, y>>
    BY DEF HighHalf
  <2>2. <<Silence, Silence, x, y>> \in Seq(Samples)
    BY <1>1
  <2> QED
    BY <2>1, <2>2
<1>4. ASSUME NEW l \in LowHalf, NEW h \in HighHalf PROVE l \o h \in Seq(Samples)
  <2>1. l \in Seq(Samples) /\ h \in Seq(Samples)
    BY <1>2, <1>3
  <2> QED
    BY <2>1
<1>5. ASSUME NEW s \in Writes PROVE s \in Seq(Samples)
  <2>1. \/ s \in LowHalf \/ s \in HighHalf
        \/ \E l \in LowHalf, h \in HighHalf : s = l \o h
    BY DEF Writes
  <2> QED
    BY <1>2, <1>3, <1>4, <2>1
<1> QED
  BY <1>5

\* The fields of a ring, and its write index without the remainder.
LEMMA SoundFields ==
    ASSUME NEW r, Sound(r)
    PROVE  /\ Size \in Nat \ {0} /\ r.read \in 0..(Size - 1) /\ r.write \in 0..(Size - 1)
           /\ r.count \in 0..Size
           /\ r.buf \in [Slots -> Samples]
           /\ r.write = IF r.read + r.count < Size THEN r.read + r.count
                        ELSE r.read + r.count - Size
<1>1. /\ Size \in Nat \ {0} /\ r.read \in 0..(Size - 1) /\ r.write \in 0..(Size - 1)
      /\ r.count \in 0..Size /\ r.buf \in [Slots -> Samples]
  BY FifoAssumption DEF Sound, Ring, Slots
<1> DEFINE x == r.read + r.count
<1>2. x \in 0..(2 * Size - 1)
  BY <1>1, SMT
<1>3. r.write = x % Size
  BY DEF Sound
<1> HIDE DEF x
<1>4. x % Size = IF x < Size THEN x ELSE x - Size
  BY <1>1, <1>2, ModOneWrap
<1>5. r.write = IF x < Size THEN x ELSE x - Size
  BY <1>3, <1>4
<1> QED
  BY <1>1, <1>5 DEF x

\* The slot of the j-th sample waiting, and how far past the write index it lies.
LEMMA SlotOf ==
    ASSUME NEW r, Sound(r), NEW j \in 1..Size
    PROVE  LET k == (r.read + j - 1) % Size
           IN  /\ k \in Slots
               /\ (k + Size - r.write) % Size =
                    IF j > r.count THEN j - 1 - r.count ELSE Size + j - 1 - r.count
<1> DEFINE k == (r.read + j - 1) % Size
           d == IF j > r.count THEN j - 1 - r.count ELSE Size + j - 1 - r.count
<1>1. /\ Size \in Nat \ {0} /\ r.read \in 0..(Size - 1) /\ r.write \in 0..(Size - 1)
      /\ r.count \in 0..Size
      /\ r.write = IF r.read + r.count < Size THEN r.read + r.count
                   ELSE r.read + r.count - Size
  BY SoundFields
<1>2. r.read + j - 1 \in 0..(2 * Size - 1)
  BY <1>1, SMT
<1>3. k = IF r.read + j - 1 < Size THEN r.read + j - 1 ELSE r.read + j - 1 - Size
  <2> DEFINE x == r.read + j - 1
  <2>1. x \in 0..(2 * Size - 1)
    BY <1>2
  <2> HIDE DEF x
  <2>2. x % Size = IF x < Size THEN x ELSE x - Size
    BY <1>1, <2>1, ModOneWrap
  <2>3. k = x % Size
    BY DEF x
  <2>4. k = IF x < Size THEN x ELSE x - Size
    BY <2>2, <2>3
  <2> QED
    BY <1>1, <1>2, <2>4, SMT DEF x
<1> HIDE DEF k
<1>4. k \in 0..(Size - 1) /\ k + Size - r.write \in 0..(2 * Size - 1)
  BY <1>1, <1>3, SMT
<1>5. (k + Size - r.write) % Size =
        IF k + Size - r.write < Size THEN k + Size - r.write ELSE k + Size - r.write - Size
  BY <1>1, <1>4, ModOneWrap
<1>6. (IF k + Size - r.write < Size THEN k + Size - r.write ELSE k + Size - r.write - Size) = d
  BY <1>1, <1>3, <1>4, SMT
<1> QED
  BY <1>4, <1>5, <1>6 DEF Slots, k

\* What waits in a ring is a sequence of samples, as long as the count says.
LEMMA WaitingIsSeq ==
    ASSUME NEW r, Sound(r)
    PROVE  /\ Waiting(r) \in Seq(Samples)
           /\ Len(Waiting(r)) = r.count
           /\ \A j \in 1..r.count : Waiting(r)[j] = r.buf[(r.read + j - 1) % Size]
<1>1. r.count \in 0..Size /\ r.buf \in [Slots -> Samples] /\ Size \in Nat \ {0}
  BY SoundFields
<1>2. \A j \in 1..r.count : j \in 1..Size
  BY <1>1, SMT
<1>3. \A j \in 1..r.count : (r.read + j - 1) % Size \in Slots
  BY <1>2, SlotOf
<1>4. \A j \in 1..r.count : r.buf[(r.read + j - 1) % Size] \in Samples
  BY <1>1, <1>3
<1>5. r.count \in Nat /\ Waiting(r) \in [1..r.count -> Samples]
  BY <1>1, <1>4 DEF Waiting
<1>6. Waiting(r) \in Seq(Samples) /\ Len(Waiting(r)) = r.count
  BY <1>5, SMT
<1> QED
  BY <1>6 DEF Waiting

\* A write keeps a ring sound ...
LEMMA PushedSound ==
    ASSUME NEW r, Sound(r), NEW s \in Seq(Samples)
    PROVE  /\ Sound(Pushed(r, s))
           /\ Pushed(r, s).read = r.read
           /\ Pushed(r, s).count = r.count + Room(r, s)
           /\ Room(r, s) \in 0..Len(s) /\ r.count + Room(r, s) <= Size
<1> DEFINE n == Room(r, s)
           D(k) == (k + Size - r.write) % Size
           b == [k \in Slots |-> IF D(k) < n THEN s[D(k) + 1] ELSE r.buf[k]]
           w == (r.write + n) % Size
           c == r.count + n
<1>1. /\ Size \in Nat \ {0} /\ r.read \in 0..(Size - 1) /\ r.write \in 0..(Size - 1)
      /\ r.count \in 0..Size /\ r.buf \in [Slots -> Samples]
      /\ r.write = IF r.read + r.count < Size THEN r.read + r.count
                   ELSE r.read + r.count - Size
      /\ r \in Ring
  BY SoundFields DEF Sound
<1>2. Len(s) \in Nat
  OBVIOUS
<1>3. n \in 0..Len(s) /\ r.count + n <= Size
  BY <1>1, <1>2, SMT DEF Room
<1>4. ASSUME NEW k \in Slots PROVE (IF D(k) < n THEN s[D(k) + 1] ELSE r.buf[k]) \in Samples
  <2>1. k + Size - r.write \in Nat
    BY <1>1, SMT DEF Slots
  <2>2. D(k) \in Nat
    <3>1. (k + Size - r.write) % Size \in 0..(Size - 1)
      BY <1>1, <2>1, DivMod
    <3> QED
      BY <1>1, <3>1, SMT
  <2> HIDE DEF D, n
  <2>3. ASSUME D(k) < n PROVE s[D(k) + 1] \in Samples
    <3>1. D(k) + 1 \in 1..Len(s)
      BY <1>2, <1>3, <2>2, <2>3, SMT
    <3> QED
      BY <3>1
  <2> QED
    BY <1>1, <2>3
<1> HIDE DEF D, n
<1>5. b \in [Slots -> Samples]
  BY <1>4
<1>6. c \in 0..Size
  BY <1>1, <1>2, <1>3, SMT
<1>7. w = (r.read + c) % Size /\ w \in Slots
  <2>1. r.read + r.count \in Nat /\ n \in Nat /\ r.write + n \in Nat
    BY <1>1, <1>2, <1>3, SMT
  <2>2. w = (r.read + r.count + n) % Size
    BY <1>1, <2>1, ModAdd, ZenonT(60) DEF Sound
  <2>3. r.read + r.count + n = r.read + c
    BY <1>1, <2>1, SMT
  <2>4. w \in 0..(Size - 1)
    BY <1>1, <2>1, DivMod
  <2> QED
    BY <2>2, <2>3, <2>4 DEF Slots
<1>8. Pushed(r, s) = [r EXCEPT !.buf = b, !.write = w, !.count = c]
  BY DEF Pushed, D, n
<1> HIDE DEF b, w, c
<1>9. /\ Pushed(r, s) \in Ring
      /\ Pushed(r, s).read = r.read /\ Pushed(r, s).write = w /\ Pushed(r, s).count = c
  BY <1>1, <1>5, <1>6, <1>7, <1>8 DEF Ring
<1> QED
  BY <1>3, <1>7, <1>9 DEF Sound, n, c

\* ... and appends to what waits as much of the sequence as fits.
LEMMA PushedWaits ==
    ASSUME NEW r, Sound(r), NEW s \in Seq(Samples)
    PROVE  Waiting(Pushed(r, s)) = Abstract!Fitting(Waiting(r) \o s)
<1> DEFINE n == Room(r, s)
           q == Pushed(r, s)
           W == Waiting(r)
           m == r.count + n
           F == Abstract!Fitting(W \o s)
           slot(j) == (r.read + j - 1) % Size
<1>1. /\ Sound(q) /\ q.read = r.read /\ q.count = m
      /\ n \in 0..Len(s) /\ m <= Size
  BY PushedSound
<1>2. /\ W \in Seq(Samples) /\ Len(W) = r.count
      /\ \A j \in 1..r.count : W[j] = r.buf[slot(j)]
  BY WaitingIsSeq
<1>3. /\ Waiting(q) \in Seq(Samples) /\ Len(Waiting(q)) = m
      /\ \A j \in 1..m : Waiting(q)[j] = q.buf[slot(j)]
  BY <1>1, WaitingIsSeq
<1>4. Size \in Nat \ {0} /\ r.count \in 0..Size /\ Len(s) \in Nat
  BY SoundFields
<1>5. \A k \in Slots : q.buf[k] = LET d == (k + Size - r.write) % Size
                                  IN  IF d < n THEN s[d + 1] ELSE r.buf[k]
  <2>1. r \in Ring
    BY DEF Sound
  <2> QED
    BY <2>1 DEF Pushed, Ring
<1> HIDE DEF q, W
<1>6. W \o s \in Seq(Samples) /\ Len(W \o s) = r.count + Len(s)
  <2> HIDE DEF n, m, F
  <2> QED
    BY <1>2, ConcatProperties
<1>7. (IF Len(W \o s) <= Size THEN Len(W \o s) ELSE Size) = m
  BY <1>4, <1>6, SMT DEF Room
<1>8. F = SubSeq(W \o s, 1, m)
  BY <1>7 DEF Abstract!Fitting
<1> HIDE DEF n
<1>9. m \in 0..Len(W \o s)
  BY <1>1, <1>4, <1>6, SMT
<1> HIDE DEF F, m
<1>10. F \in Seq(Samples) /\ Len(F) = m /\ \A j \in 1..m : F[j] = (W \o s)[j]
  BY <1>6, <1>8, <1>9
<1>11. ASSUME NEW j \in 1..m PROVE Waiting(q)[j] = F[j]
  <2>1. j \in 1..Size /\ m = r.count + n
    BY <1>1, <1>4, SMT DEF m
  <2>2. /\ slot(j) \in Slots
        /\ (slot(j) + Size - r.write) % Size =
             IF j > r.count THEN j - 1 - r.count ELSE Size + j - 1 - r.count
    BY <2>1, SlotOf
  <2> DEFINE d == (slot(j) + Size - r.write) % Size
  <2>3. Waiting(q)[j] = IF d < n THEN s[d + 1] ELSE r.buf[slot(j)]
    BY <1>3, <1>5, <2>2
  <2>4. CASE j > r.count
    <3>1. d = j - 1 - r.count /\ d < n /\ d + 1 = j - r.count
      <4>1. d = j - 1 - r.count
        BY <2>2, <2>4
      <4> HIDE DEF d
      <4> QED
        BY <1>1, <1>4, <2>1, <4>1, SMT
    <3>2. (W \o s)[j] = s[j - r.count]
      <4>1. j \in (Len(W) + 1)..(Len(W) + Len(s))
        BY <1>1, <1>2, <1>4, <2>1, <2>4, SMT
      <4> QED
        BY <1>2, <4>1
    <3> QED
      BY <1>10, <2>3, <3>1, <3>2
  <2>5. CASE ~(j > r.count)
    <3>1. ~(d < n)
      <4>1. d = Size + j - 1 - r.count
        BY <2>2, <2>5
      <4> HIDE DEF d
      <4> QED
        BY <1>1, <1>4, <2>1, <2>5, <4>1, SMT
    <3>2. j \in 1..r.count
      BY <1>4, <2>1, <2>5, SMT
    <3>3. (W \o s)[j] = W[j]
      BY <1>2, <3>2
    <3> QED
      BY <1>2, <1>10, <2>3, <3>1, <3>2, <3>3
  <2> QED
    BY <2>4, <2>5
<1>12. \A j \in 1..Len(Waiting(q)) : Waiting(q)[j] = F[j]
  BY <1>3, <1>11
<1>13. Waiting(q) = F
  BY <1>3, <1>10, <1>12, SeqEqual
<1> QED
  BY <1>13 DEF q, F, W

\* Taking the oldest sample keeps a ring sound, and is a Tail of what waits.
LEMMA PoppedWaits ==
    ASSUME NEW r, Sound(r)
    PROVE  /\ Sound(Popped(r))
           /\ Waiting(r) = << >> <=> r.count = 0
           /\ r.count # 0 => /\ Waiting(Popped(r)) = Tail(Waiting(r))
                             /\ Head(Waiting(r)) = r.buf[r.read]
<1> DEFINE W == Waiting(r)
           q == Popped(r)
<1>1. /\ Size \in Nat \ {0} /\ r.read \in 0..(Size - 1) /\ r.write \in 0..(Size - 1)
      /\ r.count \in 0..Size /\ r.buf \in [Slots -> Samples]
      /\ r \in Ring
  BY SoundFields DEF Sound
<1>2. /\ W \in Seq(Samples) /\ Len(W) = r.count
      /\ \A j \in 1..r.count : W[j] = r.buf[(r.read + j - 1) % Size]
  BY WaitingIsSeq
<1>3. W = << >> <=> r.count = 0
  BY <1>2
<1>4. CASE r.count = 0
  BY <1>3, <1>4 DEF Popped
<1>5. CASE r.count # 0
  <2> DEFINE i == (r.read + 1) % Size
             c == r.count - 1
  <2>1. i \in 0..(Size - 1) /\ c \in 0..Size /\ r.read + 1 \in Nat /\ c \in Nat
    <3>1. r.read + 1 \in Nat
      BY <1>1, SMT
    <3>2. i \in 0..(Size - 1)
      BY <1>1, <3>1, DivMod
    <3> QED
      BY <1>1, <1>5, <3>1, <3>2, SMT
  <2>2. q = [r EXCEPT !.read = i, !.count = c]
    BY <1>1, <1>5 DEF Popped, Ring
  <2>3. r.write = (i + c) % Size
    <3>1. (i + c) % Size = (r.read + 1 + c) % Size
      BY <1>1, <2>1, ModAdd
    <3>2. r.read + 1 + c = r.read + r.count
      BY <1>1, SMT
    <3> QED
      BY <3>1, <3>2 DEF Sound
  <2> HIDE DEF i, c
  <2>4. /\ q \in Ring /\ q.read = i /\ q.count = c /\ q.write = r.write /\ q.buf = r.buf
    BY <1>1, <2>1, <2>2 DEF Ring, Slots
  <2> HIDE DEF q
  <2>5. Sound(q)
    BY <2>3, <2>4 DEF Sound
  <2>6. /\ Waiting(q) \in Seq(Samples) /\ Len(Waiting(q)) = c
        /\ \A j \in 1..c : Waiting(q)[j] = r.buf[(i + j - 1) % Size]
    BY <2>4, <2>5, WaitingIsSeq
  <2> HIDE DEF W
  <2>7. /\ Tail(W) \in Seq(Samples) /\ Len(Tail(W)) = c
        /\ \A j \in 1..c : Tail(W)[j] = W[j + 1] /\ j + 1 \in 1..r.count
    <3>1. c = r.count - 1
      BY DEF c
    <3>2. W # << >>
      BY <1>3, <1>5
    <3> QED
      BY <1>1, <1>2, <3>1, <3>2
  <2>8. ASSUME NEW j \in 1..c PROVE Waiting(q)[j] = Tail(W)[j]
    <3>1. Tail(W)[j] = r.buf[(r.read + (j + 1) - 1) % Size]
      BY <1>2, <2>7
    <3>2. j - 1 \in Nat
      BY <2>1, SMT
    <3>3. (i + (j - 1)) % Size = (r.read + 1 + (j - 1)) % Size
      BY <1>1, <2>1, <3>2, ModAdd DEF i
    <3>4. r.read + 1 + (j - 1) = r.read + (j + 1) - 1 /\ i + (j - 1) = i + j - 1
      BY <1>1, <2>1, SMT
    <3> QED
      BY <2>6, <3>1, <3>3, <3>4
  <2>9. Waiting(q) = Tail(W)
    <3>1. \A j \in 1..Len(Waiting(q)) : Waiting(q)[j] = Tail(W)[j]
      BY <2>6, <2>8
    <3> QED
      BY <2>6, <2>7, <3>1, SeqEqual
  <2>10. Head(W) = r.buf[r.read]
    <3>1. 1 \in 1..r.count
      BY <1>1, <1>5, SMT
    <3>2. Head(W) = r.buf[(r.read + 1 - 1) % Size]
      BY <1>2, <3>1
    <3>3. r.read + 1 - 1 = r.read /\ r.read % Size = r.read
      BY <1>1, ModSmall
    <3> QED
      BY <3>2, <3>3
  <2> QED
    BY <1>3, <1>5, <2>5, <2>9, <2>10 DEF q, W
<1> QED
  BY <1>4, <1>5

\* A new ring is sound, and empty.
LEMMA BlankWaits == Sound(BlankRing) /\ Waiting(BlankRing) = << >>
<1>1. 0 \in Slots /\ 0 \in 0..Size /\ Silence \in Samples /\ Size \in Nat \ {0}
  BY FifoAssumption, SMT DEF Slots
<1>2. [k \in Slots |-> Silence] \in [Slots -> Samples]
  BY <1>1
<1>3. BlankRing \in Ring /\ BlankRing.count = 0
  BY <1>1, <1>2 DEF BlankRing, Ring
<1>4. (0 + 0) % Size = 0
  BY <1>1, ModSmall
<1>5. BlankRing.write = (BlankRing.read + BlankRing.count) % Size
  BY <1>4 DEF BlankRing
<1>6. Sound(BlankRing)
  BY <1>3, <1>5 DEF Sound
<1>7. Waiting(BlankRing) \in Seq(Samples) /\ Len(Waiting(BlankRing)) = 0
  BY <1>3, <1>6, WaitingIsSeq
<1> QED
  BY <1>6, <1>7

\* A reset leaves an empty ring, whatever its bytes.
LEMMA EmptiedWaits ==
    ASSUME NEW r, Sound(r)
    PROVE  Sound(Emptied(r)) /\ Waiting(Emptied(r)) = << >>
<1>1. r \in Ring /\ Size \in Nat \ {0}
  BY FifoAssumption DEF Sound
<1>2. 0 \in Slots /\ 0 \in 0..Size
  BY <1>1, SMT DEF Slots
<1>3. /\ Emptied(r) \in Ring /\ Emptied(r).read = 0 /\ Emptied(r).write = 0
      /\ Emptied(r).count = 0
  BY <1>1, <1>2 DEF Emptied, Ring
<1>4. (0 + 0) % Size = 0
  BY <1>1, ModSmall
<1>5. Sound(Emptied(r))
  BY <1>3, <1>4 DEF Sound
<1>6. Waiting(Emptied(r)) \in Seq(Samples) /\ Len(Waiting(Emptied(r))) = 0
  BY <1>3, <1>5, WaitingIsSeq
<1> QED
  BY <1>5, <1>6

-----------------------------------------------------------------------------
(***************************************************************************)
(* The specification.                                                      *)
(***************************************************************************)
Inv == TypeOK /\ IndicesAgree

\* Inv, ring by ring.
LEMMA InvIsSound ==
    Inv <=> /\ DOMAIN ring = Fifos /\ ring = [f \in Fifos |-> ring[f]]
            /\ \A f \in Fifos : Sound(ring[f])
            /\ sample \in [Fifos -> Samples]
            /\ select \in [Fifos -> TimerIds]
BY DEF Inv, TypeOK, IndicesAgree, Sound

\* The indices of both rings stay in range and in agreement.
THEOREM StaysSound == Spec => []Inv
<1>1. Init => Inv
  <2> SUFFICES ASSUME Init PROVE Inv
    OBVIOUS
  <2>1. Sound(BlankRing) /\ Silence \in Samples
    BY BlankWaits, FifoAssumption
  <2>2. ring \in [Fifos -> Ring]
    BY <2>1 DEF Init, NewRings, Sound
  <2>3. IndicesAgree
    BY <2>1 DEF Init, NewRings, IndicesAgree, Sound
  <2> QED
    BY <2>1, <2>2, <2>3 DEF Init, NewSamples, NewSelect, Inv, TypeOK, TimerIds
<1>2. Inv /\ [Next]_vars => Inv'
  <2> SUFFICES ASSUME Inv, [Next]_vars PROVE Inv'
    OBVIOUS
  <2>0. \A f \in Fifos : Sound(ring[f])
    BY InvIsSound
  <2> SUFFICES /\ ring' \in [Fifos -> {r \in Ring : Sound(r)}]
               /\ sample' \in [Fifos -> Samples]
               /\ select' \in [Fifos -> TimerIds]
    BY DEF Inv, TypeOK, IndicesAgree, Sound
  <2> USE DEF Sound
  <2>1. ASSUME NEW f \in Fifos, NEW s \in Writes, WriteFifo(f, s)
        PROVE  ring' \in [Fifos -> {r \in Ring : Sound(r)}] /\ UNCHANGED <<sample, select>>
    <3>1. Sound(Pushed(ring[f], s))
      BY <2>0, WritesAreSamples, PushedSound
    <3>2. ring' = [ring EXCEPT ![f] = Pushed(ring[f], s)] /\ ring \in [Fifos -> Ring]
      BY <2>1 DEF WriteFifo, Inv, TypeOK
    <3> QED
      BY <2>0, <2>1, <3>1, <3>2 DEF WriteFifo
  <2>2. ASSUME NEW sel \in [Fifos -> TimerIds], NEW F \in SUBSET Fifos, WriteSoundcntH(sel, F)
        PROVE  /\ ring' \in [Fifos -> {r \in Ring : Sound(r)}]
               /\ sample' = sample /\ select' \in [Fifos -> TimerIds]
    <3>1. \A f \in Fifos : Sound(Emptied(ring[f]))
      BY <2>0, EmptiedWaits
    <3> QED
      BY <2>0, <2>2, <3>1 DEF WriteSoundcntH
  <2>3. ASSUME NEW T \in SUBSET TimerIds, OnTimerOverflows(T)
        PROVE  /\ ring' \in [Fifos -> {r \in Ring : Sound(r)}]
               /\ sample' \in [Fifos -> Samples] /\ select' = select
    <3>1. \A f \in Fifos : Sound(Popped(ring[f]))
      BY <2>0, PoppedWaits
    <3>2. \A f \in Fifos : ring[f].buf[ring[f].read] \in Samples
      BY <2>0 DEF Ring
    <3>3. ring' \in [Fifos -> {r \in Ring : Sound(r)}]
      BY <2>0, <2>3, <3>1 DEF OnTimerOverflows
    <3>4. sample' \in [Fifos -> Samples]
      BY <2>3, <3>2 DEF OnTimerOverflows, Inv, TypeOK
    <3> QED
      BY <2>3, <3>3, <3>4 DEF OnTimerOverflows
  <2>4. CASE Reset
    <3>1. Sound(BlankRing) /\ Silence \in Samples
      BY BlankWaits, FifoAssumption
    <3> QED
      BY <2>4, <3>1 DEF Reset, NewRings, NewSamples, NewSelect, TimerIds
  <2>5. CASE UNCHANGED vars
    BY <2>0, <2>5 DEF vars, Inv, TypeOK
  <2> QED
    BY <2>1, <2>2, <2>3, <2>4, <2>5 DEF Next, Inv, TypeOK
<1> QED
  BY <1>1, <1>2, PTL DEF Spec

\* The read, write and count of each FIFO agree (apu.rs, write_fifo_a and
\* on_timer_overflow).
THEOREM IndicesStayInAgreement == Spec => []IndicesAgree
BY StaysSound, PTL DEF Inv

\* Registers, indices and counts stay in range.
THEOREM TypeCorrect == Spec => []TypeOK
BY StaysSound, PTL DEF Inv

-----------------------------------------------------------------------------
(***************************************************************************)
(* Refinement: a write is a Write of its FIFO, a write of SOUNDCNT_H is a  *)
(* Forget of the FIFOs it resets, overflows are a Play of the FIFOs that   *)
(* listen to one of the timers, and a reset is a Restart.                  *)
(***************************************************************************)
\* The rings play every sample that found room, in order and once.
THEOREM Refinement == Spec => PlaysInOrder
<1> DEFINE Q == [f \in Fifos |-> Waiting(ring[f])]
<1>1. Init => Abstract!Init
  <2> SUFFICES ASSUME Init PROVE Q = [f \in Fifos |-> << >>] /\ sample = [f \in Fifos |-> Silence]
    BY DEF Abstract!Init
  <2> QED
    BY BlankWaits DEF Init, NewRings, NewSamples
<1>2. Inv /\ [Next]_vars => [Abstract!Next]_(Abstract!vars)
  <2> SUFFICES ASSUME Inv, [Next]_vars
               PROVE  Abstract!Next \/ (Q' = Q /\ sample' = sample)
    BY DEF Abstract!vars
  <2>0. \A f \in Fifos : Sound(ring[f])
    BY InvIsSound
  <2>1. ASSUME NEW f \in Fifos, NEW s \in Writes, WriteFifo(f, s)
        PROVE  Abstract!Write(f, s)
    <3>1. Waiting(Pushed(ring[f], s)) = Abstract!Fitting(Waiting(ring[f]) \o s)
      BY <2>0, WritesAreSamples, PushedWaits
    <3>2. ring' = [ring EXCEPT ![f] = Pushed(ring[f], s)] /\ ring \in [Fifos -> Ring]
      BY <2>1 DEF WriteFifo, Inv, TypeOK
    <3>3. Q' = [Q EXCEPT ![f] = Abstract!Fitting(Q[f] \o s)]
      <4>1. \A g \in Fifos : Waiting(ring'[g]) =
              IF g = f THEN Abstract!Fitting(Waiting(ring[f]) \o s) ELSE Waiting(ring[g])
        BY <3>1, <3>2
      <4>2. Q' = [g \in Fifos |-> Waiting(ring'[g])]
        OBVIOUS
      <4> QED
        BY <4>1, <4>2
    <3> QED
      BY <2>1, <3>3 DEF WriteFifo, Abstract!Write
  <2>2. ASSUME NEW sel \in [Fifos -> TimerIds], NEW F \in SUBSET Fifos, WriteSoundcntH(sel, F)
        PROVE  Abstract!Forget(F)
    <3>1. \A f \in Fifos : Waiting(Emptied(ring[f])) = << >>
      BY <2>0, EmptiedWaits
    <3>2. \A f \in Fifos : Waiting(ring'[f]) = IF f \in F THEN << >> ELSE Q[f]
      BY <2>2, <3>1 DEF WriteSoundcntH
    <3>3. Q' = [f \in Fifos |-> IF f \in F THEN << >> ELSE Q[f]]
      BY <3>2
    <3> QED
      BY <2>2, <3>3 DEF WriteSoundcntH, Abstract!Forget
  <2>3. ASSUME NEW T \in SUBSET TimerIds, OnTimerOverflows(T)
        PROVE  Abstract!Play({f \in Fifos : select[f] \in T})
    <3> DEFINE F == {f \in Fifos : select[f] \in T}
               M == {f \in F : Q[f] # << >>}
    <3>1. \A f \in Fifos : /\ Q[f] = << >> <=> ring[f].count = 0
                           /\ ring[f].count # 0 =>
                                /\ Waiting(Popped(ring[f])) = Tail(Q[f])
                                /\ Head(Q[f]) = ring[f].buf[ring[f].read]
      BY <2>0, PoppedWaits
    <3>2. \A f \in Fifos : ring[f].count > 0 <=> ring[f].count # 0
      <4>1. \A f \in Fifos : ring[f].count \in 0..Size /\ Size \in Nat
        BY <2>0, SoundFields
      <4> QED
        BY <4>1, SMT
    <3>3. ASSUME NEW f \in Fifos
          PROVE  /\ Waiting(ring'[f]) = IF f \in M THEN Tail(Q[f]) ELSE Q[f]
                 /\ sample'[f] = IF f \in M THEN Head(Q[f]) ELSE sample[f]
      <4>1. /\ ring'[f] = IF f \in F THEN Popped(ring[f]) ELSE ring[f]
            /\ sample'[f] = IF f \in F /\ ring[f].count > 0
                            THEN ring[f].buf[ring[f].read] ELSE sample[f]
        BY <2>3 DEF OnTimerOverflows
      <4>2. f \in M <=> f \in F /\ ring[f].count # 0
        BY <3>1
      <4>3. ring[f].count = 0 => Popped(ring[f]) = ring[f]
        BY DEF Popped
      <4> QED
        BY <3>1, <3>2, <4>1, <4>2, <4>3
    <3>4. Q' = [f \in Fifos |-> IF f \in M THEN Tail(Q[f]) ELSE Q[f]]
      BY <3>3
    <3>5. sample' = [f \in Fifos |-> IF f \in M THEN Head(Q[f]) ELSE sample[f]]
      <4>1. DOMAIN sample' = Fifos /\ sample' = [f \in Fifos |-> sample'[f]]
        BY <2>3 DEF OnTimerOverflows
      <4> QED
        BY <3>3, <4>1
    <3> QED
      BY <3>4, <3>5 DEF Abstract!Play
  <2>4. CASE Reset
    <3>1. \A f \in Fifos : Waiting(ring'[f]) = << >>
      BY <2>4, BlankWaits DEF Reset, NewRings
    <3>2. Q' = [f \in Fifos |-> << >>]
      BY <3>1
    <3>3. Abstract!Restart
      BY <2>4, <3>2 DEF Reset, NewSamples, Abstract!Restart
    <3> QED
      BY <3>3 DEF Abstract!Next
  <2>5. CASE UNCHANGED vars
    BY <2>5 DEF vars
  <2>6. ASSUME NEW T \in SUBSET TimerIds PROVE {f \in Fifos : select[f] \in T} \in SUBSET Fifos
    OBVIOUS
  <2> QED
    BY <2>1, <2>2, <2>3, <2>4, <2>5, <2>6 DEF Next, Abstract!Next
<1> QED
  BY <1>1, <1>2, StaysSound, PTL DEF Spec, PlaysInOrder, Abstract!Spec

-----------------------------------------------------------------------------
(***************************************************************************)
(* The output buffer.                                                      *)
(***************************************************************************)
\* What n pairs of the buffer are, as a sequence.
LEMMA FirstOfBuffer ==
    ASSUME Output!TypeOK, NEW n \in 0..Capacity
    PROVE  /\ SubSeq(out, 1, n) \in Seq([Fifos -> Samples])
           /\ Len(SubSeq(out, 1, n)) = n
           /\ \A j \in 1..n : SubSeq(out, 1, n)[j] = out[j]
<1>1. Capacity \in Nat
  BY SoundAssumption
<1>2. out \in [1..Capacity -> [Fifos -> Samples]]
  BY DEF Output!TypeOK
<1>3. out \in Seq([Fifos -> Samples]) /\ Len(out) = Capacity
  BY <1>1, <1>2
<1> HIDE DEF Output!TypeOK
<1> QED
  BY <1>1, <1>3

\* The samples that a step ends, and the cycles left over: all are accounted for.
LEMMA SamplesOfStep ==
    ASSUME NEW c \in Steps, rest \in 0..(Period - 1)
    PROVE  LET k == (rest + c) \div Period
           IN  /\ k \in 0..c
               /\ (rest + c) % Period \in 0..(Period - 1)
               /\ k * Period + ((rest + c) % Period) = rest + c
<1> DEFINE k == (rest + c) \div Period
           e == (rest + c) % Period
<1>1. Period \in Nat \ {0} /\ c \in Nat \ {0} /\ rest + c \in Nat
  BY SoundAssumption
<1>2. k \in Nat /\ e \in 0..(Period - 1) /\ rest + c = Period * k + e
  BY <1>1, DivMod
<1> HIDE DEF k, e
<1>3. k <= c
  <2> SUFFICES ASSUME k >= c + 1 PROVE FALSE
    BY <1>1, <1>2, SMT
  <2>1. Period * k >= Period * (c + 1)
    BY <1>1, <1>2, SMT
  <2>2. Period * (c + 1) = Period * c + Period
    BY <1>1, SMT
  <2>3. Period * c >= c
    BY <1>1, SMT
  <2> DEFINE pk == Period * k
             pc == Period * c
  <2>4. pk \in Nat /\ pc \in Nat
    BY <1>1, <1>2, SMT
  <2>5. pk >= pc + Period /\ pc >= c /\ rest + c = pk + e
    BY <1>2, <2>1, <2>2, <2>3
  <2> HIDE DEF pk, pc
  <2> QED
    BY <1>1, <1>2, <2>4, <2>5, SMT
<1>4. k * Period + e = rest + c
  BY <1>1, <1>2, SMT
<1> QED
  BY <1>1, <1>2, <1>3, <1>4, SMT DEF k, e

\* A step appends its samples to those that wait, as far as there is room.
LEMMA GeneratedWait ==
    ASSUME Output!TypeOK, NEW c \in Steps, NEW pair \in [Fifos -> Samples],
           Output!GenerateAudio(c, pair)
    PROVE  LET k == (rest + c) \div Period
           IN  /\ ready' \in ready..Capacity
               /\ out' \in [1..Capacity -> [Fifos -> Samples]]
               /\ SubSeq(out', 1, ready')
                    = Stream!Fitting(SubSeq(out, 1, ready) \o [i \in 1..k |-> pair])
<1> DEFINE k == (rest + c) \div Period
           P == SubSeq(out, 1, ready)
           R == [i \in 1..k |-> pair]
           F == Stream!Fitting(P \o R)
           m == ready'
<1>1. /\ rest \in 0..(Period - 1) /\ ready \in 0..Capacity /\ Capacity \in Nat
      /\ out \in [1..Capacity -> [Fifos -> Samples]]
  BY SoundAssumption DEF Output!TypeOK
<1>2. k \in Nat
  BY <1>1, SamplesOfStep, SoundAssumption
<1>3. /\ m = IF ready + k <= Capacity THEN ready + k ELSE Capacity
      /\ out' = [i \in 1..Capacity |-> IF i \in (ready + 1)..m THEN pair ELSE out[i]]
  BY DEF Output!GenerateAudio, Output!Kept
<1> HIDE DEF k
<1>4. m \in ready..Capacity /\ m \in 0..Capacity
  BY <1>1, <1>2, <1>3, SMT
<1>5. out' \in [1..Capacity -> [Fifos -> Samples]]
  BY <1>1, <1>3
<1>6. P \in Seq([Fifos -> Samples]) /\ Len(P) = ready /\ \A j \in 1..ready : P[j] = out[j]
  BY <1>1, FirstOfBuffer
<1>7. R \in Seq([Fifos -> Samples]) /\ Len(R) = k /\ \A j \in 1..k : R[j] = pair
  BY <1>2
<1> HIDE DEF P, R, m
<1>8. /\ P \o R \in Seq([Fifos -> Samples]) /\ Len(P \o R) = ready + k
      /\ \A i \in 1..(ready + k) : (P \o R)[i] = IF i <= ready THEN P[i] ELSE R[i - ready]
  BY <1>6, <1>7, ConcatProperties, ZenonT(60)
<1>9. F = SubSeq(P \o R, 1, m) /\ m \in 0..(ready + k)
  BY <1>1, <1>2, <1>3, <1>8, SMT DEF Stream!Fitting
<1> HIDE DEF F
<1>10. F \in Seq([Fifos -> Samples]) /\ Len(F) = m /\ \A j \in 1..m : F[j] = (P \o R)[j]
  BY <1>8, <1>9
<1> DEFINE G == SubSeq(out', 1, m)
<1>11. out' \in Seq([Fifos -> Samples]) /\ Len(out') = Capacity
  BY <1>1, <1>5
<1>12. G \in Seq([Fifos -> Samples]) /\ Len(G) = m /\ \A j \in 1..m : G[j] = out'[j]
  BY <1>4, <1>11
<1> HIDE DEF G
<1>13. ASSUME NEW j \in 1..m PROVE G[j] = F[j]
  <2>1. j \in 1..Capacity /\ j \in 1..(ready + k)
    BY <1>1, <1>2, <1>3, <1>4, SMT
  <2>2. CASE j <= ready
    <3>1. j \in 1..ready /\ j \notin (ready + 1)..m
      BY <1>1, <2>1, <2>2, SMT
    <3> QED
      BY <1>3, <1>6, <1>8, <1>10, <1>12, <2>1, <2>2, <3>1
  <2>3. CASE ~(j <= ready)
    <3>1. j \in (ready + 1)..m /\ j - ready \in 1..k
      BY <1>1, <1>2, <1>4, <2>1, <2>3, SMT
    <3> QED
      BY <1>3, <1>7, <1>8, <1>10, <1>12, <2>1, <2>3, <3>1
  <2> QED
    BY <2>2, <2>3
<1>14. G = F
  BY <1>10, <1>12, <1>13, SeqEqual
<1> QED
  BY <1>4, <1>5, <1>14 DEF F, G, P, R, k, m

-----------------------------------------------------------------------------
(***************************************************************************)
(* Sound.                                                                  *)
(***************************************************************************)
\* The FIFOs do in Sound what they do alone.
THEOREM SoundHasFifos == SoundSpec => Spec
<1>1. SoundInit => Init
  BY DEF SoundInit
<1>2. [SoundNext]_soundVars => [Next]_vars
  <2> SUFFICES ASSUME [SoundNext]_soundVars PROVE Next \/ UNCHANGED vars
    OBVIOUS
  <2>1. CASE GuestWrites
    BY <2>1 DEF GuestWrites, Next
  <2>2. ASSUME NEW c \in Steps, NEW T \in SUBSET TimerIds, Tick(c, T) PROVE Next
    BY <2>2 DEF Tick, Next
  <2>3. CASE BusReset
    BY <2>3 DEF BusReset, Next
  <2>4. CASE HostReads
    BY <2>4 DEF HostReads, vars
  <2>5. CASE UNCHANGED soundVars
    BY <2>5 DEF soundVars, vars
  <2> QED
    BY <2>1, <2>2, <2>3, <2>4, <2>5 DEF SoundNext, MachineRuns
<1> QED
  BY <1>1, <1>2, PTL DEF SoundSpec, Spec

\* The pair a step makes is a pair.
LEMMA PairsArePairs ==
    Inv' => \A pair \in {sample', Silent} : pair \in [Fifos -> Samples]
BY FifoAssumption DEF Inv, TypeOK, Silent

\* The FIFOs stay sound, and the output buffer's counts stay within it.
THEOREM SoundTypeCorrect == SoundSpec => []SoundTypeOK
<1>1. SoundInit => Output!TypeOK
  BY SoundAssumption, FifoAssumption DEF SoundInit, Output!Init, Output!TypeOK, Silent
<1>2. Inv /\ Inv' /\ Output!TypeOK /\ [SoundNext]_soundVars => Output!TypeOK'
  <2> SUFFICES ASSUME Inv', Output!TypeOK, [SoundNext]_soundVars PROVE Output!TypeOK'
    OBVIOUS
  <2>0. Period \in Nat \ {0} /\ Capacity \in Nat \ {0}
    BY SoundAssumption
  <2>1. CASE GuestWrites
    BY <2>1 DEF GuestWrites, Output!TypeOK
  <2>2. ASSUME NEW c \in Steps, NEW T \in SUBSET TimerIds, Tick(c, T) PROVE Output!TypeOK'
    <3>1. PICK pair \in [Fifos -> Samples] : Output!GenerateAudio(c, pair)
      BY <2>2, PairsArePairs DEF Tick
    <3>2. ready' \in ready..Capacity /\ out' \in [1..Capacity -> [Fifos -> Samples]]
      BY <3>1, GeneratedWait
    <3>3. rest' \in 0..(Period - 1)
      BY <3>1, SamplesOfStep DEF Output!GenerateAudio, Output!TypeOK
    <3>4. ready \in 0..Capacity
      BY DEF Output!TypeOK
    <3>5. ready' \in 0..Capacity
      BY <2>0, <3>2, <3>4, SMT
    <3> QED
      BY <3>1, <3>2, <3>3, <3>5 DEF Output!GenerateAudio, Output!TypeOK
  <2>3. CASE BusReset
    BY <2>0, <2>3 DEF BusReset, Output!Reset, Output!TypeOK
  <2>4. CASE HostReads
    BY <2>0, <2>4 DEF HostReads, Output!HostCopies, Output!EmuAudioSamples, Output!TypeOK
  <2>5. CASE UNCHANGED soundVars
    BY <2>5 DEF soundVars, Output!TypeOK
  <2> QED
    BY <2>1, <2>2, <2>3, <2>4, <2>5 DEF SoundNext, MachineRuns
<1> QED
  BY <1>1, <1>2, SoundHasFifos, StaysSound, PTL DEF SoundSpec, SoundTypeOK, Inv

\* Samples reach the host as they were made, one for each Period cycles, in order
\* and once, whatever bytes and steps they were made of.
THEOREM HostHears == SoundSpec => HostHearsAll
<1>1. SoundInit => Stream!Init
  BY SoundAssumption, FifoAssumption
  DEF SoundInit, Output!Init, Stream!Init, Output!Ready, Output!Owed
<1>2. Inv' /\ Output!TypeOK /\ [SoundNext]_soundVars => [Stream!Next]_(Stream!vars)
  <2> SUFFICES ASSUME Inv', Output!TypeOK, [SoundNext]_soundVars
               PROVE  Stream!Next \/ UNCHANGED Stream!vars
    OBVIOUS
  <2>0. /\ rest \in 0..(Period - 1) /\ ready \in 0..Capacity
        /\ out \in [1..Capacity -> [Fifos -> Samples]] /\ Capacity \in Nat
    BY SoundAssumption DEF Output!TypeOK
  <2>1. CASE GuestWrites
    BY <2>1 DEF GuestWrites, WriteFifo, WriteSoundcntH, Stream!vars, Output!Ready, Output!Owed
  <2>2. ASSUME owed = 0, NEW c \in Steps, NEW T \in SUBSET TimerIds, Tick(c, T)
        PROVE  Stream!Pass
    <3> DEFINE k == (rest + c) \div Period
    <3>1. PICK pair \in {sample', Silent} : Output!GenerateAudio(c, pair)
      BY <2>2 DEF Tick
    <3>2. pair \in [Fifos -> Samples]
      BY PairsArePairs
    <3>3. k \in 0..c /\ rest' \in 0..(Period - 1) /\ k * Period + rest' = rest + c
      BY <2>0, <3>1, SamplesOfStep DEF Output!GenerateAudio
    <3>4. SubSeq(out', 1, ready')
            = Stream!Fitting(SubSeq(out, 1, ready) \o [i \in 1..k |-> pair])
      BY <3>1, <3>2, GeneratedWait
    <3>5. owed' = 0 /\ out' \in Seq([Fifos -> Samples]) /\ out \in Seq([Fifos -> Samples])
      <4>1. out' \in [1..Capacity -> [Fifos -> Samples]]
        BY <3>1, <3>2, GeneratedWait
      <4> QED
        BY <2>0, <2>2, <3>1, <4>1 DEF Output!GenerateAudio
    <3>6. SubSeq(out', 1, owed') = SubSeq(out, 1, owed)
      BY <2>2, <3>5
    <3> HIDE DEF k
    <3> QED
      BY <3>1, <3>3, <3>4, <3>6 DEF Stream!Pass, Output!Ready, Output!Owed
  <2>3. CASE BusReset
    <3>1. out \in Seq([Fifos -> Samples])
      BY <2>0
    <3>2. SubSeq(out, 1, 0) = << >>
      BY <3>1
    <3> QED
      BY <2>3, <3>2 DEF BusReset, Output!Reset, Stream!Next, Stream!Restart, Output!Ready, Output!Owed
  <2>4. CASE HostReads
    <3>1. SubSeq(out, 1, 0) = << >>
      <4>1. out \in Seq([Fifos -> Samples])
        BY <2>0
      <4> QED
        BY <4>1
    <3>2. CASE Output!HostCopies
      BY <2>4, <3>1, <3>2
      DEF HostReads, Output!HostCopies, Stream!Next, Stream!Read, Output!Ready, Output!Owed
    <3>3. CASE Output!EmuAudioSamples
      BY <2>4, <3>1, <3>3
      DEF HostReads, Output!EmuAudioSamples, Stream!Next, Stream!Fetch, Output!Ready, Output!Owed
    <3> QED
      BY <2>4, <3>2, <3>3 DEF HostReads
  <2>5. CASE UNCHANGED soundVars
    BY <2>5 DEF soundVars, Stream!vars, Output!Ready, Output!Owed
  <2> QED
    BY <2>1, <2>2, <2>3, <2>4, <2>5 DEF SoundNext, MachineRuns, Stream!Next
<1> QED
  BY <1>1, <1>2, SoundHasFifos, StaysSound, SoundTypeCorrect, PTL
  DEF SoundSpec, SoundTypeOK, HostHearsAll, Stream!Spec

-----------------------------------------------------------------------------
(***************************************************************************)
(* Psg                                                                     *)
(***************************************************************************)
-----------------------------------------------------------------------------
(***************************************************************************)
(* The constants and the operators.                                        *)
(***************************************************************************)
\* What the proofs use of the constants.
LEMMA Constants ==
    /\ MaxVolume \in Nat /\ MaxPace \in Nat /\ MaxFreq \in Nat /\ AgeBound \in Nat
    /\ TicksPerStep \in Nat \ {0}
    /\ \A c \in Channels : Longest[c] \in Nat \ {0}
    /\ 0 \in Lengths
    /\ \A c \in Channels, l \in Lengths : l \in 0..(Longest[c] - 1)
    /\ \A e \in Envelopes \cup {NoEnvelope} : e \in Envelope
    /\ \A f \in Freqs : f \in 0..MaxFreq
    /\ \A s \in Sweeps \cup {NoSweep} : s \in Sweep
<1>1. MaxVolume \in Nat /\ MaxPace \in Nat /\ 0 \in 0..MaxVolume /\ 0 \in 0..MaxPace
  BY PsgAssumption, SMT
<1>2. NoEnvelope \in Envelope
  BY <1>1 DEF NoEnvelope, Envelope
<1>3. NoSweep \in Sweep
  BY <1>1 DEF NoSweep, Sweep
<1>4. \A c \in Channels, l \in Lengths : l \in 0..(Longest[c] - 1)
  BY PsgAssumption
<1> QED
  BY <1>1, <1>2, <1>3, <1>4, PsgAssumption

\* clock_length: a channel it leaves on has time left.
LEMMA LengthClock ==
    ASSUME NEW c \in Channels, NEW x \in Channel(c), x.on => x.left > 0
    PROVE  LET y == LengthClocked(c, x)
           IN  /\ y \in Channel(c)
               /\ y.on => x.on /\ y.left > 0
               /\ y.volume = x.volume /\ y.envTimer = x.envTimer
<1>1. Longest[c] \in Nat \ {0}
  BY Constants
<1>2. CASE regs[c].timed /\ x.left > 0
  <2>1. x.left - 1 \in 0..Longest[c] /\ (x.left # 1 => x.left - 1 > 0)
    BY <1>1, <1>2, SMT DEF Channel
  <2>2. (x.on /\ ~OnLastCount(x)) \in BOOLEAN
    OBVIOUS
  <2>3. LengthClocked(c, x) = [x EXCEPT !.left = x.left - 1, !.on = x.on /\ ~OnLastCount(x)]
    BY <1>2 DEF LengthClocked
  <2> QED
    BY <2>1, <2>2, <2>3 DEF Channel, OnLastCount
<1>3. CASE ~(regs[c].timed /\ x.left > 0)
  BY <1>3 DEF LengthClocked
<1> QED
  BY <1>2, <1>3

\* What the envelope of a channel that follows it from its trigger is, after n
\* clocks.
Follows(x, env, n) ==
    /\ x.volume = Shaped(env, n)
    /\ env.pace # 0 => x.envTimer = env.pace - (n % env.pace)

\* clock_envelope: it changes neither switch nor length, and it keeps pace.
LEMMA EnvelopeClock ==
    ASSUME PsgTypeOK, NEW c \in Channels, NEW x \in Channel(c)
    PROVE  LET y == EnvelopeClocked(c, x)
           IN  /\ y \in Channel(c) /\ y.on = x.on /\ y.left = x.left
               /\ ~HearsEnvelope(c, x) => y = x
               /\ \A n \in Nat : HearsEnvelope(c, x) /\ Follows(x, regs[c].env, n)
                                   => Follows(y, regs[c].env, n + 1)
<1> DEFINE env == regs[c].env
           t   == IF x.envTimer > 0 THEN x.envTimer - 1 ELSE 0
           v   == IF env.up THEN Louder(x.volume) ELSE Quieter(x.volume)
           y   == EnvelopeClocked(c, x)
<1>1. MaxVolume \in Nat /\ MaxPace \in Nat
  BY Constants
<1>2. env \in Envelope
  BY Constants DEF PsgTypeOK, Registers
<1>3. env.start \in 0..MaxVolume /\ env.up \in BOOLEAN /\ env.pace \in 0..MaxPace
  BY <1>2 DEF Envelope
<1>4. x.on \in BOOLEAN /\ x.volume \in 0..MaxVolume /\ x.envTimer \in 0..MaxPace
      /\ x.left \in 0..Longest[c]
  BY DEF Channel
<1> HIDE DEF env
<1>5. t \in 0..MaxPace /\ v \in 0..MaxVolume
  BY <1>1, <1>4, SMT DEF Louder, Quieter
<1>6. CASE ~HearsEnvelope(c, x)
  BY <1>6 DEF EnvelopeClocked
<1>7. CASE HearsEnvelope(c, x)
  <2>1. env.pace \in Nat \ {0}
    BY <1>1, <1>3, <1>7, SMT DEF HearsEnvelope, env
  <2>2. y = IF t # 0 THEN [x EXCEPT !.envTimer = t]
            ELSE [x EXCEPT !.envTimer = env.pace, !.volume = v]
    BY <1>7 DEF EnvelopeClocked, env
  <2> HIDE DEF t, v
  <2>3. /\ y \in Channel(c) /\ y.on = x.on /\ y.left = x.left
        /\ y.envTimer = IF t # 0 THEN t ELSE env.pace
        /\ y.volume = IF t # 0 THEN x.volume ELSE v
    BY <1>3, <1>4, <1>5, <2>2 DEF Channel
  <2> HIDE DEF y
  <2>4. ASSUME NEW n \in Nat, Follows(x, env, n)
        PROVE  Follows(y, env, n + 1)
    <3> DEFINE q == n \div env.pace
               r == n % env.pace
               q1 == (n + 1) \div env.pace
               r1 == (n + 1) % env.pace
    <3>1. q \in Nat /\ r \in 0..(env.pace - 1)
      BY <2>1, DivMod
    <3>2. /\ r + 1 < env.pace => r1 = r + 1 /\ q1 = q
          /\ r + 1 = env.pace => r1 = 0 /\ q1 = q + 1
      BY <2>1, DivStep
    <3>3. /\ Shaped(env, n) = IF env.up
               THEN IF env.start + q > MaxVolume THEN MaxVolume ELSE env.start + q
               ELSE IF env.start < q THEN 0 ELSE env.start - q
          /\ Shaped(env, n + 1) = IF env.up
               THEN IF env.start + q1 > MaxVolume THEN MaxVolume ELSE env.start + q1
               ELSE IF env.start < q1 THEN 0 ELSE env.start - q1
      BY <2>1 DEF Shaped
    <3>4. x.volume = Shaped(env, n) /\ x.envTimer = env.pace - r
      BY <2>1, <2>4 DEF Follows
    <3> HIDE DEF q, r, q1, r1
    <3>5. CASE r + 1 < env.pace
      <4>1. t = env.pace - (r + 1) /\ t # 0
        BY <2>1, <3>1, <3>4, <3>5, SMT DEF t
      <4>2. y.envTimer = env.pace - r1 /\ y.volume = Shaped(env, n + 1)
        BY <2>3, <3>2, <3>3, <3>4, <3>5, <4>1
      <4> QED
        BY <4>2 DEF Follows, r1
    <3>6. CASE r + 1 = env.pace
      <4>1. t = 0
        BY <2>1, <3>1, <3>4, <3>6, SMT DEF t
      <4>2. y.envTimer = env.pace - r1
        BY <2>1, <2>3, <3>2, <3>6, <4>1, SMT
      <4>3. v = Shaped(env, n + 1)
        BY <1>1, <1>3, <3>1, <3>2, <3>3, <3>4, <3>6, SMT DEF v, Louder, Quieter
      <4>4. y.volume = Shaped(env, n + 1)
        BY <2>3, <4>1, <4>3
      <4> QED
        BY <4>2, <4>4 DEF Follows, r1
    <3> QED
      BY <2>1, <3>1, <3>5, <3>6, SMT
  <2> QED
    BY <1>7, <2>3, <2>4 DEF env, y
<1> QED
  BY <1>6, <1>7

\* clock_sweep: the frequency stays in its eleven bits.
LEMMA SweepClock ==
    ASSUME PsgTypeOK, SweepClocked
    PROVE  /\ freq' \in 0..MaxFreq
           /\ sweeper' \in [on: BOOLEAN, timer: 0..(MaxPace + 1), shadow: 0..MaxFreq]
<1> DEFINE d == sweeper.shadow \div sweep.divisor
           tm == IF ~Sweeps1 THEN sweeper.timer
                 ELSE IF SweepDue THEN sweep.pace ELSE sweeper.timer - 1
           sh == IF Moves /\ ~Silences THEN Swept ELSE sweeper.shadow
<1>1. MaxFreq \in Nat /\ MaxPace \in Nat
  BY Constants
<1>2. sweep.pace \in 0..MaxPace /\ sweep.divisor \in Nat \ {0}
  <2>1. sweep \in Sweep
    BY Constants DEF PsgTypeOK
  <2> QED
    BY <2>1 DEF Sweep
<1>3. sweeper.on \in BOOLEAN /\ sweeper.timer \in 0..(MaxPace + 1) /\ sweeper.shadow \in 0..MaxFreq
  BY DEF PsgTypeOK
<1>4. d \in 0..sweeper.shadow
  <2>1. sweeper.shadow \in Nat
    BY <1>1, <1>3, SMT
  <2>2. d \in Nat /\ sweeper.shadow % sweep.divisor \in 0..(sweep.divisor - 1)
        /\ sweeper.shadow = sweep.divisor * d + (sweeper.shadow % sweep.divisor)
    BY <1>2, <2>1, DivMod
  <2> HIDE DEF d
  <2>3. sweep.divisor * d >= d
    BY <1>2, <2>2, SMT
  <2> QED
    BY <1>2, <2>1, <2>2, <2>3, SMT
<1> HIDE DEF d
<1>5. Swept = IF sweep.down THEN sweeper.shadow - d ELSE sweeper.shadow + d
  BY DEF Swept, d
<1>6. ~Silences /\ Moves => Swept \in 0..MaxFreq
  BY <1>1, <1>3, <1>4, <1>5, SMT DEF Silences
<1>7. sh \in 0..MaxFreq
  BY <1>3, <1>6
<1>8. tm \in 0..(MaxPace + 1)
  BY <1>1, <1>2, <1>3, SMT DEF SweepDue
<1>9. freq' \in 0..MaxFreq
  BY <1>6 DEF SweepClocked, PsgTypeOK
<1>10. sweeper' = [sweeper EXCEPT !.timer = tm, !.shadow = sh]
  BY DEF SweepClocked
<1> HIDE DEF tm, sh
<1>11. sweeper' \in [on: BOOLEAN, timer: 0..(MaxPace + 1), shadow: 0..MaxFreq]
  BY <1>3, <1>7, <1>8, <1>10 DEF PsgTypeOK
<1> QED
  BY <1>9, <1>11

-----------------------------------------------------------------------------
(***************************************************************************)
(* The inductive invariant: a channel's volume alone does not say when the *)
(* envelope moves it next, its envelope timer must be in step as well.     *)
(***************************************************************************)
Following == \A c \in steady : Follows(chan[c], regs[c].env, age[c])

IInv == PsgTypeOK /\ SoundingHasTime /\ Following

LEMMA InitIInv == PsgInit => IInv
<1> SUFFICES ASSUME PsgInit PROVE IInv
  OBVIOUS
<1>1. /\ MaxVolume \in Nat /\ MaxPace \in Nat /\ MaxFreq \in Nat /\ AgeBound \in Nat
      /\ TicksPerStep \in Nat \ {0} /\ 0 \in Lengths
      /\ \A c \in Channels : Longest[c] \in Nat \ {0}
  BY Constants
<1>2. /\ 0 \in 0..MaxVolume /\ 0 \in 0..MaxPace /\ 0 \in 0..MaxFreq /\ 0 \in 0..AgeBound
      /\ 0 \in 0..(TicksPerStep - 1) /\ 0 \in 0..7 /\ 0 \in 0..(MaxPace + 1)
      /\ \A c \in Channels : 0 \in 0..Longest[c]
  BY <1>1, SMT
<1>3. regs \in [Channels -> Registers]
  BY <1>1 DEF PsgInit, Registers
<1>4. DOMAIN chan = Channels /\ \A c \in Channels : chan[c] \in Channel(c) /\ ~chan[c].on
  BY <1>2 DEF PsgInit, Channel
<1>5. sweeper \in [on: BOOLEAN, timer: 0..(MaxPace + 1), shadow: 0..MaxFreq]
  BY <1>2 DEF PsgInit
<1>6. PsgTypeOK
  BY <1>2, <1>3, <1>4, <1>5 DEF PsgInit, PsgTypeOK
<1> QED
  BY <1>4, <1>6 DEF PsgInit, IInv, SoundingHasTime, Following

\* A reset leaves nothing of the state before it.
LEMMA ResetStep == PsgReset => IInv'
<1> SUFFICES ASSUME PsgReset PROVE IInv'
  OBVIOUS
<1>1. /\ MaxVolume \in Nat /\ MaxPace \in Nat /\ MaxFreq \in Nat /\ AgeBound \in Nat
      /\ TicksPerStep \in Nat \ {0} /\ 0 \in Lengths
      /\ \A c \in Channels : Longest[c] \in Nat \ {0}
  BY Constants
<1>2. /\ 0 \in 0..MaxVolume /\ 0 \in 0..MaxPace /\ 0 \in 0..MaxFreq /\ 0 \in 0..AgeBound
      /\ 0 \in 0..(TicksPerStep - 1) /\ 0 \in 0..7 /\ 0 \in 0..(MaxPace + 1)
      /\ \A c \in Channels : 0 \in 0..Longest[c]
  BY <1>1, SMT
<1>3. regs' \in [Channels -> Registers]
  BY <1>1 DEF PsgReset, Registers
<1>4. DOMAIN chan' = Channels /\ \A c \in Channels : chan'[c] \in Channel(c) /\ ~chan'[c].on
  BY <1>2 DEF PsgReset, Channel
<1>5. sweeper' \in [on: BOOLEAN, timer: 0..(MaxPace + 1), shadow: 0..MaxFreq]
  BY <1>2 DEF PsgReset
<1>6. PsgTypeOK'
  BY <1>2, <1>3, <1>4, <1>5 DEF PsgReset, PsgTypeOK, Channel
<1> QED
  BY <1>4, <1>6 DEF PsgReset, IInv, SoundingHasTime, Following

\* A write of a length register: the channel's envelope is followed no longer.
LEMMA SetLengthStep ==
    ASSUME IInv, NEW c \in Channels, NEW len \in Lengths,
           NEW env \in Envelopes \cup {NoEnvelope}, SetLength(c, len, env)
    PROVE  IInv'
<1> DEFINE e == IF c \in Enveloped THEN env ELSE NoEnvelope
<1>1. e \in Envelopes \cup {NoEnvelope}
  OBVIOUS
<1>2. regs' = [regs EXCEPT ![c].len = len, ![c].env = e]
  BY DEF SetLength
<1> HIDE DEF e
<1>3. regs \in [Channels -> Registers]
  BY DEF IInv, PsgTypeOK
<1>4. regs' \in [Channels -> Registers]
  BY <1>1, <1>2, <1>3 DEF Registers
<1>5. \A d \in Channels \ {c} : regs'[d] = regs[d]
  BY <1>2, <1>3
<1>6. /\ steady' = steady \ {c} /\ chan' = chan /\ age' = age
      /\ UNCHANGED <<enabled, ticks, step, freq, sweep, sweeper>>
  BY DEF SetLength, seqVars, sweepVars
<1>7. PsgTypeOK'
  BY <1>4, <1>6 DEF IInv, PsgTypeOK, Enveloped, Channel
<1>8. SoundingHasTime'
  BY <1>6 DEF IInv, SoundingHasTime
<1>9. Following'
  <2> SUFFICES ASSUME NEW d \in steady \ {c} PROVE Follows(chan[d], regs'[d].env, age[d])
    BY <1>6 DEF Following, Follows, Shaped
  <2>1. d \in Channels \ {c}
    BY DEF IInv, PsgTypeOK, Enveloped
  <2> QED
    BY <1>5, <2>1 DEF IInv, Following
<1> QED
  BY <1>7, <1>8, <1>9 DEF IInv

\* trigger_ch1, ..., trigger_ch4: an envelope is followed from the trigger on.
LEMMA Triggered ==
    ASSUME IInv, NEW c \in Channels, NEW f \in 0..MaxFreq, Trigger(c, f)
    PROVE  /\ DOMAIN chan' = Channels /\ \A d \in Channels : chan'[d] \in Channel(d)
           /\ \A d \in Channels : chan'[d].on => chan'[d].left > 0
           /\ sweeper' \in [on: BOOLEAN, timer: 0..(MaxPace + 1), shadow: 0..MaxFreq]
           /\ steady' \subseteq Enveloped /\ age' \in [Channels -> 0..AgeBound]
           /\ \A d \in steady' : Follows(chan'[d], regs[d].env, age'[d])
<1> DEFINE env == regs[c].env
           x == [on |-> TRUE, left |-> Longest[c] - regs[c].len,
                 volume   |-> IF c \in Enveloped THEN env.start ELSE 0,
                 envTimer |-> IF c \in Enveloped THEN env.pace ELSE 0]
<1>1. /\ MaxVolume \in Nat /\ MaxPace \in Nat /\ AgeBound \in Nat
      /\ Longest[c] \in Nat \ {0} /\ regs[c].len \in 0..(Longest[c] - 1)
      /\ env \in Envelope /\ sweep \in Sweep
  BY Constants DEF IInv, PsgTypeOK, Registers
<1>2. env.start \in 0..MaxVolume /\ env.pace \in 0..MaxPace /\ sweep.pace \in 0..MaxPace
  BY <1>1 DEF Envelope, Sweep
<1>3. x \in Channel(c) /\ x.left > 0
  <2>1. Longest[c] - regs[c].len \in 0..Longest[c] /\ Longest[c] - regs[c].len > 0
    BY <1>1, SMT
  <2>2. 0 \in 0..MaxVolume /\ 0 \in 0..MaxPace
    BY <1>1, SMT
  <2> QED
    BY <1>2, <2>1, <2>2 DEF Channel
<1>4. c \in Enveloped => Follows(x, env, 0)
  <2> SUFFICES ASSUME c \in Enveloped PROVE Follows(x, env, 0)
    OBVIOUS
  <2> HIDE DEF env
  <2>1. x.volume = env.start /\ x.envTimer = env.pace
    OBVIOUS
  <2>2. CASE env.pace = 0
    BY <2>1, <2>2 DEF Follows, Shaped
  <2>3. CASE env.pace # 0
    <3>1. env.pace \in Nat \ {0}
      BY <1>1, <1>2, <2>3, SMT
    <3>2. 0 % env.pace = 0 /\ 0 \div env.pace = 0
      BY <3>1, SMT
    <3>3. Shaped(env, 0) = env.start
      BY <1>1, <1>2, <2>3, <3>2, SMT DEF Shaped
    <3>4. env.pace = env.pace - (0 % env.pace)
      BY <3>1, <3>2, SMT
    <3> QED
      BY <2>1, <3>3, <3>4 DEF Follows
  <2> QED
    BY <2>2, <2>3
<1>5. chan' = [chan EXCEPT ![c] = x]
  BY DEF Trigger
<1> HIDE DEF x
<1>6. /\ DOMAIN chan' = Channels /\ chan'[c] = x
      /\ \A d \in Channels \ {c} : chan'[d] = chan[d]
  BY <1>5 DEF IInv, PsgTypeOK
<1>7. /\ \A d \in Channels : chan'[d] \in Channel(d)
      /\ \A d \in Channels : chan'[d].on => chan'[d].left > 0
  BY <1>3, <1>6 DEF IInv, PsgTypeOK, SoundingHasTime
<1>8. sweeper' \in [on: BOOLEAN, timer: 0..(MaxPace + 1), shadow: 0..MaxFreq]
  <2> DEFINE tm == IF sweep.pace = 0 THEN MaxPace + 1 ELSE sweep.pace
             on == sweep.pace # 0 \/ sweep.divisor # 1
  <2>1. tm \in 0..(MaxPace + 1) /\ on \in BOOLEAN
    BY <1>1, <1>2, SMT
  <2>2. sweeper' = IF c # 1 THEN sweeper ELSE [on |-> on, timer |-> tm, shadow |-> f]
    BY DEF Trigger
  <2> HIDE DEF tm, on
  <2> QED
    BY <2>1, <2>2 DEF IInv, PsgTypeOK
<1>9. /\ steady' = steady \cup ({c} \cap Enveloped) /\ steady' \subseteq Enveloped
      /\ age' = [age EXCEPT ![c] = 0] /\ age' \in [Channels -> 0..AgeBound]
  <2>1. 0 \in 0..AgeBound
    BY <1>1, SMT
  <2> QED
    BY <2>1 DEF Trigger, IInv, PsgTypeOK
<1>10. ASSUME NEW d \in steady' PROVE Follows(chan'[d], regs[d].env, age'[d])
  <2>1. d \in Enveloped /\ d \in Channels
    BY <1>9 DEF Enveloped
  <2>2. CASE d = c
    <3>1. age'[d] = 0 /\ chan'[d] = x
      BY <1>6, <1>9, <2>1, <2>2 DEF IInv, PsgTypeOK
    <3> QED
      BY <1>4, <2>1, <2>2, <3>1
  <2>3. CASE d # c
    <3>1. age'[d] = age[d] /\ chan'[d] = chan[d] /\ d \in steady
      BY <1>6, <1>9, <2>1, <2>3 DEF IInv, PsgTypeOK
    <3> QED
      BY <3>1 DEF IInv, Following
  <2> QED
    BY <2>2, <2>3
<1> QED
  BY <1>6, <1>7, <1>8, <1>9, <1>10

\* A write of a control register, which may trigger.
LEMMA SetControlStep ==
    ASSUME IInv, NEW c \in Channels, NEW f \in 0..MaxFreq,
           NEW timed \in BOOLEAN, NEW trigger \in BOOLEAN, SetControl(c, f, timed, trigger)
    PROVE  IInv'
<1>1. /\ regs' = [regs EXCEPT ![c].timed = timed, ![c].trigger = trigger]
      /\ regs \in [Channels -> Registers]
  BY DEF SetControl, IInv, PsgTypeOK
<1>2. regs' \in [Channels -> Registers] /\ \A d \in Channels : regs'[d].env = regs[d].env
  BY <1>1 DEF Registers
<1>3. freq' \in 0..MaxFreq /\ UNCHANGED <<enabled, ticks, step, sweep>>
  BY DEF SetControl, seqVars, IInv, PsgTypeOK
<1>4. /\ DOMAIN chan' = Channels /\ \A d \in Channels : chan'[d] \in Channel(d)
      /\ \A d \in Channels : chan'[d].on => chan'[d].left > 0
      /\ sweeper' \in [on: BOOLEAN, timer: 0..(MaxPace + 1), shadow: 0..MaxFreq]
      /\ steady' \subseteq Enveloped /\ age' \in [Channels -> 0..AgeBound]
      /\ \A d \in steady' : Follows(chan'[d], regs[d].env, age'[d])
  <2>1. CASE trigger
    BY <2>1, Triggered DEF SetControl
  <2>2. CASE ~trigger
    BY <2>2 DEF SetControl, history, IInv, PsgTypeOK, SoundingHasTime, Following
  <2> QED
    BY <2>1, <2>2
<1>5. PsgTypeOK'
  BY <1>2, <1>3, <1>4 DEF IInv, PsgTypeOK, Channel, Enveloped
<1>6. SoundingHasTime'
  BY <1>4 DEF SoundingHasTime
<1>7. ASSUME NEW d \in steady' PROVE Follows(chan'[d], regs'[d].env, age'[d])
  <2>1. regs'[d].env = regs[d].env
    BY <1>2, <1>4 DEF Enveloped
  <2> QED
    BY <1>4, <2>1
<1>8. Following'
  BY <1>7 DEF Following, Follows, Shaped
<1> QED
  BY <1>5, <1>6, <1>8 DEF IInv

\* Channels that are only switched off: StopWave and WriteMaster.
LEMMA SwitchingOff ==
    ASSUME IInv, UNCHANGED <<ticks, step, regs, freq, sweep, sweeper, steady, age>>,
           enabled' \in BOOLEAN, NEW off \in SUBSET Channels,
           DOMAIN chan' = Channels,
           \A d \in Channels : chan'[d] = IF d \in off THEN [chan[d] EXCEPT !.on = FALSE] ELSE chan[d]
    PROVE  IInv'
<1>1. ASSUME NEW d \in Channels
      PROVE  /\ chan'[d] \in Channel(d)
             /\ chan'[d].on => chan[d].on
             /\ chan'[d].left = chan[d].left /\ chan'[d].volume = chan[d].volume
             /\ chan'[d].envTimer = chan[d].envTimer
  BY DEF IInv, PsgTypeOK, Channel
<1>2. PsgTypeOK'
  BY <1>1 DEF IInv, PsgTypeOK, Channel, Enveloped
<1>3. SoundingHasTime'
  BY <1>1 DEF IInv, SoundingHasTime
<1>4. ASSUME NEW d \in steady PROVE Follows(chan'[d], regs[d].env, age[d])
  <2>1. d \in Channels
    BY DEF IInv, PsgTypeOK, Enveloped
  <2> QED
    BY <1>1, <2>1 DEF IInv, Following, Follows
<1>5. Following'
  BY <1>4 DEF Following, Follows, Shaped
<1> QED
  BY <1>2, <1>3, <1>5 DEF IInv

\* One step of the frame sequencer.
LEMMA SequencerStep ==
    ASSUME IInv, StepChannels, FollowEnvelopes
    PROVE  /\ DOMAIN chan' = Channels /\ \A c \in Channels : chan'[c] \in Channel(c)
           /\ \A c \in Channels : chan'[c].on => chan'[c].left > 0
           /\ steady' \subseteq Enveloped /\ age' \in [Channels -> 0..AgeBound]
           /\ \A c \in steady' : Follows(chan'[c], regs[c].env, age'[c])
<1> DEFINE L(c) == IF NextStep % 2 = 0 THEN LengthClocked(c, chan[c]) ELSE chan[c]
           E(c) == IF NextStep = 7 THEN EnvelopeClocked(c, L(c)) ELSE L(c)
           Cut(c) == NextStep \in {2, 6} /\ c = 1 /\ Silences
           Hears(c) == NextStep = 7 /\ HearsEnvelope(c, chan[c])
<1>1. DOMAIN chan' = Channels
      /\ \A c \in Channels : chan'[c] = [E(c) EXCEPT !.on = E(c).on /\ ~Cut(c)]
  BY DEF StepChannels
<1>2. AgeBound \in Nat /\ age \in [Channels -> 0..AgeBound] /\ steady \subseteq Enveloped
  BY Constants DEF IInv, PsgTypeOK
<1>3. /\ age' = [c \in Channels |-> IF Hears(c) /\ c \in Enveloped /\ age[c] < AgeBound
                                    THEN age[c] + 1 ELSE age[c]]
      /\ steady' = steady \ {c \in Enveloped : Hears(c) /\ age[c] = AgeBound}
  BY DEF FollowEnvelopes
<1>4. age' \in [Channels -> 0..AgeBound]
  <2>1. \A c \in Channels : age[c] \in 0..AgeBound
                            /\ (age[c] < AgeBound => age[c] + 1 \in 0..AgeBound)
    BY <1>2, SMT
  <2> QED
    BY <1>3, <2>1
<1>5. ASSUME NEW c \in Channels
      PROVE  /\ L(c) \in Channel(c) /\ (L(c).on => L(c).left > 0)
             /\ L(c).volume = chan[c].volume /\ L(c).envTimer = chan[c].envTimer
             /\ NextStep = 7 => L(c) = chan[c]
  <2>1. chan[c] \in Channel(c) /\ (chan[c].on => chan[c].left > 0)
    BY DEF IInv, PsgTypeOK, SoundingHasTime
  <2>2. NextStep = 7 => NextStep % 2 # 0
    BY SMT
  <2> QED
    BY <2>1, <2>2, LengthClock
<1> HIDE DEF L
<1>6. ASSUME NEW c \in Channels
      PROVE  /\ E(c) \in Channel(c) /\ (E(c).on => E(c).left > 0)
             /\ ~Hears(c) => E(c).volume = chan[c].volume /\ E(c).envTimer = chan[c].envTimer
             /\ \A n \in Nat : Hears(c) /\ Follows(chan[c], regs[c].env, n)
                                 => Follows(E(c), regs[c].env, n + 1)
  <2>1. CASE NextStep = 7
    <3>1. /\ E(c) \in Channel(c) /\ E(c).on = L(c).on /\ E(c).left = L(c).left
          /\ ~HearsEnvelope(c, L(c)) => E(c) = L(c)
          /\ \A n \in Nat : HearsEnvelope(c, L(c)) /\ Follows(L(c), regs[c].env, n)
                              => Follows(E(c), regs[c].env, n + 1)
      BY <1>5, <2>1, EnvelopeClock DEF IInv
    <3> HIDE DEF E
    <3> QED
      BY <1>5, <2>1, <3>1
  <2>2. CASE NextStep # 7
    BY <1>5, <2>2
  <2> QED
    BY <2>1, <2>2
<1> HIDE DEF E
<1>7. ASSUME NEW c \in Channels
      PROVE  /\ chan'[c] \in Channel(c) /\ (chan'[c].on => chan'[c].left > 0)
             /\ chan'[c].volume = E(c).volume /\ chan'[c].envTimer = E(c).envTimer
  <2> DEFINE z == E(c).on /\ ~Cut(c)
  <2>1. z \in BOOLEAN /\ (z => E(c).on)
    <3>1. E(c).on \in BOOLEAN
      BY <1>6 DEF Channel
    <3> QED
      BY <3>1
  <2>2. chan'[c] = [E(c) EXCEPT !.on = z]
    BY <1>1
  <2> HIDE DEF z
  <2> QED
    BY <1>6, <2>1, <2>2 DEF Channel
<1>8. ASSUME NEW c \in steady' PROVE Follows(chan'[c], regs[c].env, age'[c])
  <2>1. c \in steady /\ c \in Channels /\ c \in Enveloped /\ age[c] \in Nat
    BY <1>2, <1>3, SMT DEF Enveloped
  <2>2. Follows(chan[c], regs[c].env, age[c])
    BY <2>1 DEF IInv, Following
  <2>3. CASE Hears(c)
    <3>1. age[c] < AgeBound
      <4>1. age[c] # AgeBound /\ age[c] \in 0..AgeBound
        BY <1>2, <1>3, <2>1, <2>3
      <4> QED
        BY <1>2, <4>1, SMT
    <3>2. age'[c] = age[c] + 1
      BY <1>3, <2>1, <2>3, <3>1
    <3>3. Follows(E(c), regs[c].env, age[c] + 1)
      BY <1>6, <2>1, <2>2, <2>3
    <3> QED
      BY <1>7, <2>1, <3>2, <3>3 DEF Follows
  <2>4. CASE ~Hears(c)
    <3>1. age'[c] = age[c]
      BY <1>3, <2>1, <2>4
    <3> QED
      BY <1>6, <1>7, <2>1, <2>2, <2>4, <3>1 DEF Follows
  <2> QED
    BY <2>3, <2>4
<1> QED
  BY <1>1, <1>2, <1>3, <1>4, <1>7, <1>8

LEMMA SampleStep == ASSUME IInv, Sample PROVE IInv'
<1>1. UNCHANGED <<enabled, regs, sweep>>
  BY DEF Sample
<1>2. ticks' \in 0..(TicksPerStep - 1) /\ step' \in 0..7
  <2>1. TicksPerStep \in Nat \ {0} /\ ticks \in 0..(TicksPerStep - 1) /\ step \in 0..7
    BY Constants DEF IInv, PsgTypeOK
  <2>2. NextStep \in 0..7 /\ 0 \in 0..(TicksPerStep - 1)
    BY <2>1, SMT DEF NextStep
  <2>3. ticks + 1 < TicksPerStep => ticks + 1 \in 0..(TicksPerStep - 1)
    BY <2>1, SMT
  <2> QED
    BY <2>1, <2>2, <2>3 DEF Sample
<1>3. /\ freq' \in 0..MaxFreq
      /\ sweeper' \in [on: BOOLEAN, timer: 0..(MaxPace + 1), shadow: 0..MaxFreq]
  <2>1. CASE SweepClocked
    BY <2>1, SweepClock DEF IInv
  <2>2. CASE UNCHANGED <<freq, sweeper>>
    BY <2>2 DEF IInv, PsgTypeOK
  <2> QED
    BY <2>1, <2>2 DEF Sample
<1>4. /\ DOMAIN chan' = Channels /\ \A c \in Channels : chan'[c] \in Channel(c)
      /\ \A c \in Channels : chan'[c].on => chan'[c].left > 0
      /\ steady' \subseteq Enveloped /\ age' \in [Channels -> 0..AgeBound]
      /\ \A c \in steady' : Follows(chan'[c], regs[c].env, age'[c])
  <2>1. CASE ticks + 1 < TicksPerStep
    BY <2>1 DEF Sample, history, IInv, PsgTypeOK, SoundingHasTime, Following
  <2>2. CASE ~(ticks + 1 < TicksPerStep)
    BY <2>2, SequencerStep DEF Sample
  <2> QED
    BY <2>1, <2>2
<1>5. PsgTypeOK'
  BY <1>1, <1>2, <1>3, <1>4 DEF IInv, PsgTypeOK, Channel, Enveloped
<1>6. SoundingHasTime'
  BY <1>4 DEF SoundingHasTime
<1>7. Following'
  BY <1>1, <1>4 DEF Following, Follows, Shaped
<1> QED
  BY <1>5, <1>6, <1>7 DEF IInv

\* IInv holds forever.
LEMMA Invariance == PsgSpec => []IInv
<1>1. IInv /\ [PsgNext]_psgVars => IInv'
  <2> SUFFICES ASSUME IInv, [PsgNext]_psgVars PROVE IInv'
    OBVIOUS
  <2>1. ASSUME NEW c \in Channels, NEW len \in Lengths, NEW env \in Envelopes,
               WriteLength(c, len, env)
        PROVE  IInv'
    BY <2>1, SetLengthStep DEF WriteLength
  <2>2. ASSUME NEW c \in Channels, NEW len \in Lengths, WriteLengthByte(c, len) PROVE IInv'
    BY <2>2, SetLengthStep DEF WriteLengthByte
  <2>3. ASSUME NEW c \in Channels, NEW env \in Envelopes, WriteEnvelopeByte(c, env)
        PROVE  IInv'
    <3>1. regs[c].len \in Lengths /\ 0 \in Lengths
      BY Constants DEF IInv, PsgTypeOK, Registers
    <3>2. PICK len \in Lengths : SetLength(c, len, env)
      BY <2>3, <3>1 DEF WriteEnvelopeByte
    <3> QED
      BY <3>2, SetLengthStep
  <2>4. ASSUME NEW c \in Channels, NEW f \in Freqs, NEW timed \in BOOLEAN,
               NEW trigger \in BOOLEAN, WriteControl(c, f, timed, trigger)
        PROVE  IInv'
    BY <2>4, SetControlStep, Constants DEF WriteControl
  <2>5. ASSUME NEW c \in Channels, NEW f \in Freqs, WriteControlByte(c, f) PROVE IInv'
    <3>1. regs[c].timed \in BOOLEAN /\ regs[c].trigger \in BOOLEAN
      BY DEF IInv, PsgTypeOK, Registers
    <3> QED
      BY <2>5, <3>1, SetControlStep, Constants DEF WriteControlByte
  <2>6. ASSUME NEW s \in Sweeps, WriteSweep(s) PROVE IInv'
    BY <2>6 DEF WriteSweep, seqVars, history, IInv, PsgTypeOK, SoundingHasTime, Following,
                Follows, Shaped, Channel, Enveloped
  <2>7. ASSUME 3 \in Channels, StopWave PROVE IInv'
    <3>1. DOMAIN chan' = Channels
          /\ \A d \in Channels : chan'[d] = IF d \in {3} THEN [chan[d] EXCEPT !.on = FALSE]
                                            ELSE chan[d]
      BY <2>7 DEF StopWave, IInv, PsgTypeOK
    <3>2. enabled' \in BOOLEAN
      BY <2>7 DEF StopWave, IInv, PsgTypeOK
    <3> QED
      BY <2>7, <3>1, <3>2, SwitchingOff, ZenonT(60) DEF StopWave, seqVars, sweepVars, history
  <2>8. ASSUME NEW on \in BOOLEAN, WriteMaster(on) PROVE IInv'
    <3> DEFINE off == IF enabled /\ ~on THEN Channels ELSE {}
    <3>1. DOMAIN chan' = Channels
          /\ \A d \in Channels : chan'[d] = IF d \in off THEN [chan[d] EXCEPT !.on = FALSE]
                                            ELSE chan[d]
      <4>1. CASE enabled /\ ~on
        BY <2>8, <4>1 DEF WriteMaster
      <4>2. CASE ~(enabled /\ ~on)
        <5>1. ASSUME NEW d \in Channels PROVE [chan[d] EXCEPT !.on = chan[d].on] = chan[d]
          BY DEF IInv, PsgTypeOK, Channel
        <5>2. ASSUME NEW d \in Channels PROVE (chan[d].on /\ ~(enabled /\ ~on)) = chan[d].on
          <6>1. chan[d].on \in BOOLEAN
            BY DEF IInv, PsgTypeOK, Channel
          <6> QED
            BY <4>2, <6>1
        <5>3. DOMAIN chan' = Channels /\ \A d \in Channels :
                chan'[d] = [chan[d] EXCEPT !.on = chan[d].on /\ ~(enabled /\ ~on)]
          BY <2>8 DEF WriteMaster
        <5> QED
          BY <4>2, <5>1, <5>2, <5>3
      <4> QED
        BY <4>1, <4>2
    <3>2. enabled' \in BOOLEAN /\ off \in SUBSET Channels
      BY <2>8 DEF WriteMaster
    <3> HIDE DEF off
    <3> QED
      BY <2>8, <3>1, <3>2, SwitchingOff DEF WriteMaster, seqVars, sweepVars, history
  <2>9. CASE Sample
    BY <2>9, SampleStep
  <2>10. CASE UNCHANGED psgVars
    BY <2>10 DEF psgVars, IInv, PsgTypeOK, SoundingHasTime, Following, Follows, Shaped,
                 Channel, Enveloped
  <2>11. CASE PsgReset
    BY <2>11, ResetStep
  <2> QED
    BY <2>1, <2>2, <2>3, <2>4, <2>5, <2>6, <2>7, <2>8, <2>9, <2>10, <2>11 DEF PsgNext, Guest
<1> QED
  BY <1>1, InitIInv, PTL DEF PsgSpec

-----------------------------------------------------------------------------
(***************************************************************************)
(* Theorems.                                                               *)
(***************************************************************************)
\* Counters, volumes, timers and the frequency stay in the range of their bits.
THEOREM PsgTypeCorrect == PsgSpec => []PsgTypeOK
BY Invariance, PTL DEF IInv

\* No channel sounds on a length counter that has run out.
THEOREM TimeLeft == PsgSpec => []SoundingHasTime
BY Invariance, PTL DEF IInv

\* Every envelope moves exactly once every `pace` clocks from its trigger on.
THEOREM PaceKept == PsgSpec => []EnvelopeKeepsPace
<1>1. IInv => EnvelopeKeepsPace
  BY DEF IInv, Following, Follows, EnvelopeKeepsPace
<1> QED
  BY <1>1, Invariance, PTL
===============================================================================
