---------------------------- MODULE Fetch_proofs ----------------------------
(***************************************************************************)
(* Proofs about Fetch, for memories of every size and every program that   *)
(* keeps to the processor's rules: the types, that a program runs in       *)
(* order (ProgramOrder), that calls return behind themselves, and that a   *)
(* fetch waits only for what the instruction before it did not cover.      *)
(***************************************************************************)
EXTENDS Fetch, Numbers, SequenceTheorems, TLAPS

-----------------------------------------------------------------------------
(***************************************************************************)
(* Addresses.                                                              *)
(***************************************************************************)
LEMMA SizeIsWords == Size \in Nat \ {0} /\ \E q \in Nat \ {0} : Size = 4 * q
<1>1. Size \in Nat \ {0} /\ Size % 4 = 0
  BY FetchAssumption
<1>2. Size = 4 * (Size \div 4) + (Size % 4) /\ Size \div 4 \in Nat
  BY <1>1, DivMod
<1>3. Size = 4 * (Size \div 4) /\ Size \div 4 # 0
  BY <1>1, <1>2, SMT
<1> QED
  BY <1>1, <1>2, <1>3

LEMMA PlusIsAddress ==
    ASSUME NEW a \in Int, NEW k \in Int
    PROVE  Plus(a, k) \in Address
<1>1. a + k \in Int
  OBVIOUS
<1> QED
  BY <1>1, SizeIsWords, IntDivMod DEF Plus, Address

LEMMA AddressIsInt == Address \subseteq Int /\ 0 \in Address
BY SizeIsWords, SMT DEF Address

\* Moves add up, wrapping or not.
LEMMA PlusPlus ==
    ASSUME NEW a \in Int, NEW j \in Int, NEW k \in Int
    PROVE  Plus(Plus(a, j), k) = Plus(a, j + k)
<1>1. a + j \in Int /\ (a + j) + k = a + (j + k)
  BY SMT
<1>2. (((a + j) % Size) + k) % Size = ((a + j) + k) % Size
  BY <1>1, SizeIsWords, IntModAdd
<1> QED
  BY <1>1, <1>2 DEF Plus

LEMMA PlusNothing ==
    ASSUME NEW a \in Address
    PROVE  Plus(a, 0) = a
<1>1. a + 0 = a /\ a \in 0..(Size - 1) /\ Size * 0 + a = a
  BY SizeIsWords, SMT DEF Address
<1> QED
  BY <1>1, SizeIsWords, ModShift DEF Plus

\* Wrapping keeps the alignment, since memory is whole words.
LEMMA PlusIsAligned ==
    ASSUME NEW a \in Int, NEW k \in Int, NEW th \in BOOLEAN, (a + k) % Width(th) = 0
    PROVE  Plus(a, k) % Width(th) = 0
<1>1. PICK q \in Nat \ {0} : Size = 4 * q
  BY SizeIsWords
<1> DEFINE d == (a + k) \div Size
           r == (a + k) % Size
<1>2. d \in Int /\ r \in 0..(Size - 1) /\ a + k = Size * d + r
  <2>1. a + k \in Int
    OBVIOUS
  <2> QED
    BY <2>1, SizeIsWords, IntDivMod, Zenon
<1> DEFINE e == q * d
<1> HIDE DEF d, r
<1>3. e \in Int /\ r \in Int /\ a + k = 4 * e + r
  <2>1. (4 * q) * d = 4 * (q * d)
    BY <1>1, <1>2, SMT
  <2> QED
    BY <1>1, <1>2, <2>1, SMT
<1> HIDE DEF e
<1>4. CASE th
  <2>1. (a + k) % 2 = 0
    BY <1>4 DEF Width
  <2>2. r % 2 = 0
    BY <2>1, <1>2, <1>3, SMT
  <2> QED
    BY <2>2, <1>4 DEF Width, Plus, r
<1>5. CASE ~th
  <2>1. (a + k) % 4 = 0
    BY <1>5 DEF Width
  <2>2. r % 4 = 0
    BY <2>1, <1>2, <1>3, SMT
  <2> QED
    BY <2>2, <1>5 DEF Width, Plus, r
<1> QED
  BY <1>4, <1>5

LEMMA SumIsAligned ==
    ASSUME NEW th \in BOOLEAN, NEW a \in Int, NEW k \in Int,
           a % Width(th) = 0, k % Width(th) = 0
    PROVE  Plus(a, k) % Width(th) = 0
<1>1. (a + k) % Width(th) = 0
  BY SMT DEF Width
<1> QED
  BY <1>1, PlusIsAligned

LEMMA AlignedIsAddress ==
    ASSUME NEW a \in Address, NEW th \in BOOLEAN
    PROVE  /\ Aligned(a, th) \in Address
           /\ Aligned(a, th) % Width(th) = 0
           /\ a % Width(th) = 0 => Aligned(a, th) = a
<1>1. a \in Nat /\ a < Size
  BY SizeIsWords, SMT DEF Address
<1>2. /\ Aligned(a, th) \in Nat /\ Aligned(a, th) <= a
      /\ Aligned(a, th) % Width(th) = 0
      /\ a % Width(th) = 0 => Aligned(a, th) = a
  BY <1>1, SMT DEF Aligned, Width
<1> QED
  BY <1>1, <1>2, SizeIsWords, SMT DEF Address

LEMMA WidthFacts ==
    ASSUME NEW th \in BOOLEAN
    PROVE  /\ Width(th) \in Int /\ Ahead(th) = 2 * Width(th) /\ Ahead(th) \in Int
           /\ Width(th) % Width(th) = 0 /\ (-Width(th)) % Width(th) = 0
           /\ Ahead(th) % Width(th) = 0 /\ (-Ahead(th)) % Width(th) = 0
BY SMT DEF Width, Ahead

-----------------------------------------------------------------------------
(***************************************************************************)
(* The pipeline.                                                           *)
(***************************************************************************)
\* r15 is two instructions ahead of the one that comes next, whether the pipeline
\* is full or about to be filled.
LEMMA PipelineAhead ==
    ASSUME TypeOK
    PROVE  /\ Here \in Address /\ Here % Width(thumb) = 0
           /\ FlushPipeline \in Address /\ FlushPipeline % Width(thumb) = 0
           /\ \A k \in Int : Plus(FlushPipeline, k) = Plus(Here, Ahead(thumb) + k)
           /\ NextInstr \in Address /\ NextInstr % Width(thumb) = 0
<1>1. r15 \in Int /\ thumb \in BOOLEAN /\ r15 % Width(thumb) = 0 /\ r15 \in Address
  BY AddressIsInt DEF TypeOK
<1>2. /\ Width(thumb) \in Int /\ Ahead(thumb) \in Int /\ -Ahead(thumb) \in Int
      /\ Width(thumb) % Width(thumb) = 0
      /\ Ahead(thumb) % Width(thumb) = 0 /\ (-Ahead(thumb)) % Width(thumb) = 0
  BY <1>1, WidthFacts, SMT
<1>3. FlushPipeline \in Address /\ FlushPipeline % Width(thumb) = 0
  BY <1>1, <1>2, PlusIsAddress, SumIsAligned DEF FlushPipeline
<1>4. FlushPipeline \in Int
  BY <1>3, AddressIsInt
<1>5. Here \in Address /\ Here % Width(thumb) = 0 /\ Here \in Int
  BY <1>2, <1>3, <1>4, <1>1, PlusIsAddress, SumIsAligned, AddressIsInt DEF Here
<1>6. ASSUME NEW k \in Int
      PROVE  Plus(FlushPipeline, k) = Plus(Here, Ahead(thumb) + k)
  <2>1. Ahead(thumb) + k \in Int /\ -Ahead(thumb) + (Ahead(thumb) + k) = k
    BY <1>2, SMT
  <2> QED
    BY <2>1, <1>2, <1>4, PlusPlus DEF Here
<1>7. NextInstr \in Address /\ NextInstr % Width(thumb) = 0
  BY <1>1, <1>2, <1>5, PlusIsAddress, SumIsAligned DEF NextInstr
<1> QED
  BY <1>3, <1>5, <1>6, <1>7

\* After an instruction that keeps the pipeline full comes the next in order.
LEMMA InSequenceGoesOn ==
    ASSUME TypeOK, NEW c, NEW a, NEW w, InSequence(c, a, w), thumb' = thumb
    PROVE  /\ r15' \in Address /\ valid' \in BOOLEAN /\ r15' % Width(thumb') = 0
           /\ Here' = NextInstr
<1>1. thumb \in BOOLEAN /\ FlushPipeline \in Address /\ FlushPipeline % Width(thumb) = 0
  BY PipelineAhead DEF TypeOK
<1>2. /\ Width(thumb) \in Int /\ Ahead(thumb) = 2 * Width(thumb)
      /\ Width(thumb) % Width(thumb) = 0 /\ FlushPipeline \in Int
  BY <1>1, WidthFacts, AddressIsInt
<1>3. r15' = Plus(FlushPipeline, Width(thumb)) /\ valid' = TRUE
  BY DEF InSequence
<1>4. r15' \in Address /\ r15' % Width(thumb) = 0
  BY <1>1, <1>2, <1>3, PlusIsAddress, SumIsAligned
<1>5. Here' = Plus(r15', -Ahead(thumb))
  BY <1>3 DEF Here, FlushPipeline
<1>6. /\ -Ahead(thumb) \in Int /\ Width(thumb) + (-Ahead(thumb)) = -Width(thumb)
      /\ -Width(thumb) \in Int /\ Ahead(thumb) + (-Width(thumb)) = Width(thumb)
  BY <1>2, SMT
<1>7. Here' = Plus(FlushPipeline, -Width(thumb))
  BY <1>2, <1>3, <1>5, <1>6, PlusPlus
<1>8. Here' = Plus(Here, Width(thumb))
  BY <1>6, <1>7, PipelineAhead
<1> QED
  BY <1>3, <1>4, <1>8 DEF NextInstr

\* After a jump comes its target.
LEMMA JumpArrives ==
    ASSUME r15' \in Address, valid' = FALSE, thumb' \in BOOLEAN
    PROVE  Here' = r15'
<1>1. Here' = Plus(Plus(r15', Ahead(thumb')), -Ahead(thumb'))
  BY DEF Here, FlushPipeline
<1>2. /\ Ahead(thumb') \in Int /\ -Ahead(thumb') \in Int
      /\ Ahead(thumb') + (-Ahead(thumb')) = 0 /\ r15' \in Int
  BY WidthFacts, AddressIsInt, SMT
<1>3. Here' = Plus(r15', 0)
  BY <1>1, <1>2, PlusPlus
<1> QED
  BY <1>3, PlusNothing

-----------------------------------------------------------------------------
(***************************************************************************)
(* The inductive invariant.                                                *)
(***************************************************************************)
\* Exceptions nest at most twice, an interrupt over a software interrupt, and the
\* contexts they saved are ones that an instruction set can run.
SavedOK(m) == Saved(m).pc \in Address /\ Saved(m).pc % Width(Saved(m).thumb) = 0

Nested ==
    /\ mode = "svc" => spsr["svc"].mode = "usr" /\ SavedOK("svc")
    /\ mode = "irq" =>
         /\ masked /\ ~spsr["irq"].masked /\ SavedOK("irq")
         /\ \/ spsr["irq"].mode = "usr"
            \/ spsr["irq"].mode = "svc" /\ spsr["svc"].mode = "usr" /\ SavedOK("svc")

\* The first half of a Thumb call leaves an even address.
HalfIsEven == call # None /\ call.kind = "half" => call.to.pc \in Address /\ call.to.pc % 2 = 0

IInv == TypeOK /\ Nested /\ HalfIsEven /\ CallsReturn

LEMMA Constants ==
    /\ \A m \in Modes : \A c \in Code[m] :
         c.pc \in Address /\ c.thumb \in BOOLEAN /\ c.pc % Width(c.thumb) = 0
    /\ SwiVector \in Address /\ SwiVector % 4 = 0 /\ IrqVector \in Address /\ IrqVector % 4 = 0
    /\ \A k \in LowHalves : k \in Int /\ k % 2 = 0
    /\ Operands \subseteq Address
BY FetchAssumption DEF Modes, Words

LEMMA InitIInv == Init => IInv
<1> SUFFICES ASSUME Init PROVE IInv
  OBVIOUS
<1>1. TypeOK
  BY AddressIsInt, Constants DEF Init, TypeOK, Modes, Psr
<1> QED
  BY <1>1 DEF Init, IInv, Nested, HalfIsEven, CallsReturn

-----------------------------------------------------------------------------
(***************************************************************************)
(* What instructions and exceptions do to the types, to the contexts       *)
(* suspended, and to the order of the program.                             *)
(***************************************************************************)
\* The state in which r15 and the registers are addresses.
LEMMA Typed ==
    ASSUME TypeOK
    PROVE  /\ thumb \in BOOLEAN /\ masked \in BOOLEAN /\ mode \in Modes
           /\ \A m \in Modes : lr[m] \in Address
           /\ \A m \in Modes \ {"usr"} : /\ spsr[m].mode \in Modes
                                         /\ spsr[m].thumb \in BOOLEAN
                                         /\ spsr[m].masked \in BOOLEAN
BY DEF TypeOK, Psr

\* An instruction that stays in its mode leaves the suspended contexts alone.
LEMMA NothingSuspended ==
    ASSUME IInv, mode' = mode, spsr' = spsr, mode = "irq" => masked' = masked,
           \A m \in Modes \ {"usr"} : lr'[m] = lr[m]
    PROVE  Nested' /\ Suspended' = Suspended
<1>1. mode \in Modes
  BY DEF IInv, TypeOK
<1>2. \A m \in {"svc", "irq"} : Saved(m)' = Saved(m)
  BY DEF Saved, Modes
<1>3. \A m \in {"svc", "irq"} : SavedOK(m)' <=> SavedOK(m)
  BY <1>2 DEF SavedOK
<1>4. Nested'
  BY <1>3 DEF IInv, Nested
<1>5. mode # "usr" => SavedBelow(mode)' = SavedBelow(mode)
  <2>1. ASSUME mode # "usr" PROVE spsr[mode].mode \in {"usr", "svc"}
    BY <2>1, <1>1 DEF IInv, Nested, Modes
  <2> QED
    BY <1>2, <2>1 DEF SavedBelow
<1>6. mode # "usr" => Saved(mode)' = Saved(mode)
  BY <1>1, <1>2 DEF Modes
<1> QED
  BY <1>4, <1>5, <1>6 DEF Suspended

\* The two modules agree on what follows an instruction, and on alignment.
LEMMA OrderAgrees ==
    /\ Order!NextOf(Context(Here, thumb)) = Context(NextInstr, thumb)
    /\ \A th : Order!Width(th) = Width(th)
    /\ \A k : Order!After(Context(Here, thumb), k) = Context(Plus(Here, k), thumb)
    /\ \A c : c.pc \in Address /\ c.thumb \in BOOLEAN /\ c.pc % Width(c.thumb) = 0
               /\ c = Context(c.pc, c.thumb) => c \in Order!Context
<1>1. \A th : Order!Width(th) = Width(th)
  BY DEF Order!Width, Width
<1>2. \A k : Order!After(Context(Here, thumb), k) = Context(Plus(Here, k), thumb)
  BY DEF Order!After, Context, Plus
<1>3. Context(Here, thumb).thumb = thumb
  BY DEF Context
<1>4. Order!NextOf(Context(Here, thumb)) = Context(NextInstr, thumb)
  BY <1>1, <1>2, <1>3 DEF Order!NextOf, NextInstr
<1>5. ASSUME NEW c, c.pc \in Address, c.thumb \in BOOLEAN, c.pc % Width(c.thumb) = 0,
             c = Context(c.pc, c.thumb)
      PROVE  c \in Order!Context
  BY <1>1, <1>5 DEF Order!Context, Context, Address
<1> QED
  BY <1>1, <1>2, <1>4, <1>5

\* An instruction in sequence.
LEMMA Advances ==
    ASSUME IInv, NEW c, NEW a, NEW w, InSequence(c, a, w), thumb' = thumb,
           Suspended' = Suspended
    PROVE  Order!Advance
<1>1. Here' = NextInstr /\ thumb \in BOOLEAN
  BY InSequenceGoesOn DEF IInv, TypeOK
<1>2. Order!NextOf(Context(Here, thumb)) = Context(NextInstr, thumb)
  BY OrderAgrees
<1> QED
  BY <1>1, <1>2 DEF Order!Advance, Context

\* A jump arrives where it aims.
LEMMA JumpsInOrder ==
    ASSUME NEW t \in Address, Jumps(t), thumb' \in BOOLEAN, t % Width(thumb') = 0
    PROVE  /\ r15' \in Address /\ valid' \in BOOLEAN /\ r15' % Width(thumb') = 0
           /\ Context(Here, thumb)' = Context(t, thumb')
<1>1. r15' = t /\ valid' = FALSE
  BY DEF Jumps
<1>2. Here' = t
  BY <1>1, JumpArrives
<1> QED
  BY <1>1, <1>2 DEF Context

\* The types of the rest when only r15 and the pipeline have changed, and perhaps
\* I or the link register of the program.
LEMMA StaysTyped ==
    ASSUME IInv, r15' \in Address, valid' \in BOOLEAN, thumb' \in BOOLEAN, masked' \in BOOLEAN,
           r15' % Width(thumb') = 0, mode' = mode, spsr' = spsr,
           lr' = lr \/ \E x \in Address : lr' = [lr EXCEPT !["usr"] = x]
    PROVE  TypeOK'
BY DEF IInv, TypeOK, Modes

LEMMA OtherSteps ==
    ASSUME IInv, Other
    PROVE  IInv' /\ Order!Advance
<1>1. PICK c, a, w : InSequence(c, a, w)
  BY DEF Other
<1>2. UNCHANGED <<thumb, masked, mode, lr, spsr, call>>
  BY DEF Other, SameState
<1>3. TypeOK /\ thumb \in BOOLEAN /\ masked \in BOOLEAN
  BY DEF IInv, TypeOK
<1>4. r15' \in Address /\ valid' \in BOOLEAN /\ r15' % Width(thumb') = 0
  BY <1>1, <1>2, <1>3, InSequenceGoesOn
<1>5. TypeOK'
  BY <1>2, <1>3, <1>4, StaysTyped
<1>6. Nested' /\ Suspended' = Suspended
  BY <1>2, NothingSuspended
<1>7. HalfIsEven' /\ CallsReturn'
  BY <1>2 DEF IInv, HalfIsEven, CallsReturn, Aligned, Width, Context
<1>8. Order!Advance
  BY <1>1, <1>2, <1>6, Advances
<1> QED
  BY <1>5, <1>6, <1>7, <1>8 DEF IInv

\* A jump that stays in its mode and instruction set.
LEMMA JumpSteps ==
    ASSUME IInv, NEW t \in Address, Jumps(t), thumb' \in BOOLEAN, t % Width(thumb') = 0,
           UNCHANGED <<masked, mode, lr, spsr, call>>
    PROVE  IInv' /\ Suspended' = Suspended /\ Context(Here, thumb)' = Context(t, thumb')
<1>1. Nested' /\ Suspended' = Suspended
  BY NothingSuspended
<1>2. /\ r15' \in Address /\ valid' \in BOOLEAN /\ r15' % Width(thumb') = 0
      /\ Context(Here, thumb)' = Context(t, thumb')
  BY JumpsInOrder
<1>3. TypeOK'
  BY <1>2, StaysTyped DEF IInv, TypeOK
<1>4. HalfIsEven' /\ CallsReturn'
  BY DEF IInv, HalfIsEven, CallsReturn, Aligned, Width, Context
<1> QED
  BY <1>1, <1>2, <1>3, <1>4 DEF IInv

\* A branch is relative to the instruction it is, not to where the pipeline stands.
LEMMA BranchTargetIs ==
    ASSUME IInv, NEW k \in Offsets
    PROVE  /\ BranchTarget(k) \in Address /\ BranchTarget(k) % Width(thumb) = 0
           /\ BranchTarget(k) = Plus(Here, Ahead(thumb) + k)
           /\ Order!After(Context(Here, thumb), 2 * Order!Width(Context(Here, thumb).thumb) + k)
                = Context(BranchTarget(k), thumb)
<1>1. /\ thumb \in BOOLEAN /\ k \in Int /\ k % Width(thumb) = 0 /\ FlushPipeline \in Int
      /\ FlushPipeline % Width(thumb) = 0
  BY PipelineAhead, AddressIsInt DEF IInv, TypeOK, Offsets
<1>2. BranchTarget(k) \in Address /\ BranchTarget(k) % Width(thumb) = 0
  BY <1>1, PlusIsAddress, SumIsAligned DEF BranchTarget
<1>3. BranchTarget(k) = Plus(Here, Ahead(thumb) + k)
  BY <1>1, PipelineAhead DEF BranchTarget, IInv
<1>4. 2 * Order!Width(Context(Here, thumb).thumb) = Ahead(thumb)
  BY OrderAgrees DEF Context, Ahead
<1>5. Order!After(Context(Here, thumb), Ahead(thumb) + k) = Context(Plus(Here, Ahead(thumb) + k), thumb)
  BY OrderAgrees
<1> QED
  BY <1>2, <1>3, <1>4, <1>5

LEMMA BranchSteps ==
    ASSUME IInv, NEW k \in Offsets, Branch(k)
    PROVE  IInv' /\ Order!Branch(k)
<1>1. Jumps(BranchTarget(k)) /\ UNCHANGED <<thumb, masked, mode, lr, spsr, call>>
  BY DEF Branch, SameState
<1>2. thumb' \in BOOLEAN /\ BranchTarget(k) \in Address /\ BranchTarget(k) % Width(thumb') = 0
  BY <1>1, BranchTargetIs DEF IInv, TypeOK
<1>3. /\ IInv' /\ Suspended' = Suspended
      /\ Context(Here, thumb)' = Context(BranchTarget(k), thumb')
  BY <1>1, <1>2, JumpSteps
<1>4. Order!Branch(k)
  BY <1>1, <1>3, BranchTargetIs DEF Order!Branch
<1> QED
  BY <1>3, <1>4

\* The abstract program aligns an address as the code does.
LEMMA GotoIs ==
    ASSUME NEW a, NEW th, Suspended' = Suspended,
           Context(Here, thumb)' = Context(Aligned(a, th), th)
    PROVE  Order!Goto(a, th)
BY OrderAgrees DEF Order!Goto, Context, Aligned

LEMMA LoadPcSteps ==
    ASSUME IInv, NEW a \in Address, LoadPc(a)
    PROVE  IInv' /\ Order!Goto(a, thumb)
<1>1. Jumps(Aligned(a, thumb)) /\ UNCHANGED <<thumb, masked, mode, lr, spsr, call>>
  BY DEF LoadPc, SameState
<1>2. thumb \in BOOLEAN /\ Aligned(a, thumb) \in Address /\ Aligned(a, thumb) % Width(thumb) = 0
  BY AlignedIsAddress DEF IInv, TypeOK
<1>3. /\ IInv' /\ Suspended' = Suspended
      /\ Context(Here, thumb)' = Context(Aligned(a, thumb), thumb)
  BY <1>1, <1>2, JumpSteps
<1> QED
  BY <1>3, GotoIs

LEMMA BxSteps ==
    ASSUME IInv, NEW a \in Address, Bx(a)
    PROVE  IInv' /\ Order!Goto(a, a % 2 = 1)
<1>1. thumb' = (a % 2 = 1) /\ thumb' \in BOOLEAN
  BY DEF Bx
<1>2. Aligned(a, thumb') \in Address /\ Aligned(a, thumb') % Width(thumb') = 0
  BY <1>1, AlignedIsAddress
<1>3. Jumps(Aligned(a, thumb')) /\ UNCHANGED <<masked, mode, lr, spsr, call>>
  BY <1>1 DEF Bx
<1>4. /\ IInv' /\ Suspended' = Suspended
      /\ Context(Here, thumb)' = Context(Aligned(a, thumb'), thumb')
  BY <1>1, <1>2, <1>3, JumpSteps
<1> QED
  BY <1>1, <1>4, GotoIs

\* Address arithmetic of links and returns.
LEMMA LinkFacts ==
    ASSUME IInv
    PROVE  /\ ~thumb => /\ Plus(FlushPipeline, -4) = NextInstr
                        /\ NextInstr % 4 = 0 /\ Aligned(NextInstr, FALSE) = NextInstr
           /\ thumb => /\ Plus(FlushPipeline, -2) = NextInstr
                       /\ NextInstr % 2 = 0 /\ ThumbLink = NextInstr + 1
                       /\ ThumbLink \in Address /\ ThumbLink % 2 = 1
                       /\ Aligned(ThumbLink, TRUE) = NextInstr
<1>1. /\ thumb \in BOOLEAN /\ NextInstr \in Address /\ NextInstr % Width(thumb) = 0
      /\ \A k \in Int : Plus(FlushPipeline, k) = Plus(Here, Ahead(thumb) + k)
  BY PipelineAhead DEF IInv, TypeOK
<1>2. ASSUME ~thumb
      PROVE  /\ Plus(FlushPipeline, -4) = NextInstr
             /\ NextInstr % 4 = 0 /\ Aligned(NextInstr, FALSE) = NextInstr
  <2>1. -4 \in Int /\ Ahead(thumb) + (-4) = Width(thumb) /\ NextInstr % 4 = 0
    BY <1>1, <1>2, SMT DEF Ahead, Width
  <2>2. Plus(FlushPipeline, -4) = NextInstr
    BY <1>1, <2>1 DEF NextInstr
  <2>3. Aligned(NextInstr, FALSE) = NextInstr
    BY <1>1, <2>1, AlignedIsAddress DEF Width
  <2> QED
    BY <2>1, <2>2, <2>3
<1>3. ASSUME thumb
      PROVE  /\ Plus(FlushPipeline, -2) = NextInstr
             /\ NextInstr % 2 = 0 /\ ThumbLink = NextInstr + 1
             /\ ThumbLink \in Address /\ ThumbLink % 2 = 1
             /\ Aligned(ThumbLink, TRUE) = NextInstr
  <2>1. -2 \in Int /\ Ahead(thumb) + (-2) = Width(thumb) /\ NextInstr % 2 = 0
    BY <1>1, <1>3, SMT DEF Ahead, Width
  <2>2. Plus(FlushPipeline, -2) = NextInstr
    BY <1>1, <2>1 DEF NextInstr
  <2>3. ThumbLink = NextInstr + 1
    BY <2>2 DEF ThumbLink
  <2>4. NextInstr \in Nat /\ NextInstr < Size
    BY <1>1, SizeIsWords, SMT DEF Address
  <2>5. PICK q \in Nat \ {0} : Size = 4 * q
    BY SizeIsWords
  <2>6. NextInstr + 1 < Size /\ (NextInstr + 1) % 2 = 1
    BY <2>1, <2>4, <2>5, SMT
  <2>7. ThumbLink \in Address /\ ThumbLink % 2 = 1
    BY <2>3, <2>4, <2>6, SizeIsWords, SMT DEF Address
  <2>8. Aligned(ThumbLink, TRUE) = NextInstr
    BY <2>3, <2>4, <2>7, SMT DEF Aligned, Width
  <2> QED
    BY <2>1, <2>2, <2>3, <2>7, <2>8
<1> QED
  BY <1>2, <1>3

\* A call jumps; its link is behind it.
LEMMA CallSteps ==
    ASSUME IInv, mode = "usr", NEW t \in Address, Jumps(t), t % Width(thumb) = 0,
           NEW link \in Address, lr' = [lr EXCEPT !["usr"] = link],
           call' = [kind |-> "return", to |-> Context(NextInstr, thumb)],
           NextInstr = Aligned(link, link % 2 = 1), thumb <=> link % 2 = 1,
           UNCHANGED <<thumb, masked, mode, spsr>>
    PROVE  IInv' /\ Suspended' = Suspended /\ Context(Here, thumb)' = Context(t, thumb)
<1>1. thumb \in BOOLEAN /\ masked \in BOOLEAN /\ lr \in [Modes -> Address] /\ TypeOK
  BY DEF IInv, TypeOK
<1>2. \A m \in Modes \ {"usr"} : lr'[m] = lr[m]
  BY <1>1
<1>3. Nested' /\ Suspended' = Suspended
  BY <1>2, NothingSuspended
<1>4. /\ r15' \in Address /\ valid' \in BOOLEAN /\ r15' % Width(thumb') = 0
      /\ Context(Here, thumb)' = Context(t, thumb')
  BY <1>1, JumpsInOrder
<1>5. TypeOK'
  BY <1>1, <1>4, StaysTyped
<1>6. lr'["usr"] = link
  BY <1>1 DEF Modes
<1>7. HalfIsEven' /\ CallsReturn'
  BY <1>1, <1>6 DEF HalfIsEven, CallsReturn, Context, Aligned, Width
<1> QED
  BY <1>3, <1>4, <1>5, <1>7 DEF IInv

LEMMA ArmBranchLinkSteps ==
    ASSUME IInv, NEW k \in Offsets, ArmBranchLink(k)
    PROVE  IInv' /\ Order!Branch(k)
<1>1. /\ ~thumb /\ mode = "usr" /\ UNCHANGED <<thumb, masked, mode, spsr>>
      /\ Jumps(BranchTarget(k))
      /\ lr' = [lr EXCEPT !["usr"] = Plus(FlushPipeline, -4)]
      /\ call' = [kind |-> "return", to |-> Context(NextInstr, FALSE)]
  BY DEF ArmBranchLink
<1>2. BranchTarget(k) \in Address /\ BranchTarget(k) % Width(thumb) = 0
  BY BranchTargetIs
<1>3. /\ Plus(FlushPipeline, -4) = NextInstr /\ NextInstr \in Address
      /\ NextInstr % 4 = 0 /\ Aligned(NextInstr, FALSE) = NextInstr
  BY <1>1, LinkFacts, PipelineAhead DEF IInv
<1>4. ~(NextInstr % 2 = 1)
  BY <1>3, AddressIsInt, SMT
<1>5. thumb = FALSE /\ (NextInstr % 2 = 1) = FALSE
  BY <1>1, <1>4 DEF IInv, TypeOK
<1>6. /\ IInv' /\ Suspended' = Suspended
      /\ Context(Here, thumb)' = Context(BranchTarget(k), thumb)
  BY <1>1, <1>2, <1>3, <1>4, <1>5, CallSteps
<1>7. Order!Branch(k)
  BY <1>6, BranchTargetIs DEF Order!Branch
<1> QED
  BY <1>6, <1>7

LEMMA ThumbLongBranchLowSteps ==
    ASSUME IInv, NEW low \in LowHalves, ThumbLongBranchLow(low)
    PROVE  IInv' /\ Order!Goto(Plus(call.to.pc, low), TRUE)
<1>1. /\ thumb /\ mode = "usr" /\ UNCHANGED <<thumb, masked, mode, spsr>>
      /\ Jumps(Plus(lr["usr"], low))
      /\ call # None /\ call.kind = "half"
      /\ lr' = [lr EXCEPT !["usr"] = ThumbLink]
      /\ call' = [kind |-> "return", to |-> Context(NextInstr, TRUE)]
  BY DEF ThumbLongBranchLow
<1>2. thumb = TRUE
  BY <1>1 DEF IInv, TypeOK
<1>3. /\ lr["usr"] = call.to.pc
      /\ lr["usr"] \in Int /\ lr["usr"] % 2 = 0 /\ low \in Int /\ low % 2 = 0
  BY <1>1, AddressIsInt, Constants DEF IInv, HalfIsEven, CallsReturn
<1> DEFINE t == Plus(lr["usr"], low)
<1>4. t \in Address /\ t % Width(thumb) = 0 /\ t % Width(TRUE) = 0
  BY <1>2, <1>3, PlusIsAddress, SumIsAligned DEF Width
<1>5. Aligned(t, TRUE) = t
  BY <1>4, AlignedIsAddress
<1>6. /\ ThumbLink \in Address /\ ThumbLink % 2 = 1
      /\ Aligned(ThumbLink, TRUE) = NextInstr
  BY <1>1, LinkFacts
<1>7. (ThumbLink % 2 = 1) = TRUE
  BY <1>6
<1>8. Jumps(t) /\ t = Plus(call.to.pc, low)
  BY <1>1, <1>3
<1> HIDE DEF t
<1>9. IInv' /\ Suspended' = Suspended /\ Context(Here, thumb)' = Context(t, thumb)
  BY <1>1, <1>2, <1>4, <1>6, <1>7, <1>8, CallSteps
<1>10. Context(Here, thumb)' = Context(Aligned(t, TRUE), TRUE)
  BY <1>2, <1>5, <1>9
<1>11. Order!Goto(t, TRUE)
  BY <1>9, <1>10, GotoIs
<1> QED
  BY <1>8, <1>9, <1>11

LEMMA ThumbLongBranchHighSteps ==
    ASSUME IInv, NEW k \in Offsets, ThumbLongBranchHigh(k)
    PROVE  IInv' /\ Order!Advance
<1> DEFINE t == BranchTarget(k)
<1>1. /\ InSequence(1, <<>>, waits) /\ mode = "usr" /\ thumb
      /\ UNCHANGED <<thumb, masked, mode, spsr>>
      /\ lr' = [lr EXCEPT !["usr"] = t]
      /\ call' = [kind |-> "half", to |-> Context(Plus(Here, Ahead(thumb) + k), TRUE)]
  BY DEF ThumbLongBranchHigh
<1>2. /\ t \in Address /\ t % 2 = 0 /\ t = Plus(Here, Ahead(thumb) + k)
  BY <1>1, BranchTargetIs DEF Width
<1> HIDE DEF t
<1>3. thumb \in BOOLEAN /\ masked \in BOOLEAN /\ lr \in [Modes -> Address] /\ TypeOK
  BY DEF IInv, TypeOK
<1>4. r15' \in Address /\ valid' \in BOOLEAN /\ r15' % Width(thumb') = 0
  BY <1>1, <1>3, InSequenceGoesOn
<1>5. TypeOK'
  BY <1>1, <1>2, <1>3, <1>4, StaysTyped
<1>6. \A m \in Modes \ {"usr"} : lr'[m] = lr[m]
  BY <1>1, <1>3
<1>7. Nested' /\ Suspended' = Suspended
  BY <1>1, <1>6, NothingSuspended
<1>8. lr'["usr"] = t /\ call' = [kind |-> "half", to |-> Context(t, TRUE)]
  BY <1>1, <1>2, <1>3 DEF Modes
<1>9. HalfIsEven' /\ CallsReturn'
  BY <1>2, <1>8 DEF HalfIsEven, CallsReturn, Context
<1>10. Order!Advance
  BY <1>1, <1>7, Advances
<1> QED
  BY <1>5, <1>7, <1>9, <1>10 DEF IInv

LEMMA MaskInterruptsSteps ==
    ASSUME IInv, MaskInterrupts
    PROVE  IInv' /\ Order!Advance
<1>1. /\ InSequence(1, <<>>, waits) /\ mode = "svc" /\ masked' \in BOOLEAN
      /\ UNCHANGED <<thumb, mode, lr, spsr, call>>
  BY DEF MaskInterrupts
<1>2. thumb \in BOOLEAN /\ TypeOK
  BY DEF IInv, TypeOK
<1>3. r15' \in Address /\ valid' \in BOOLEAN /\ r15' % Width(thumb') = 0
  BY <1>1, <1>2, InSequenceGoesOn
<1>4. TypeOK'
  BY <1>1, <1>2, <1>3, StaysTyped
<1>5. Nested' /\ Suspended' = Suspended
  BY <1>1, NothingSuspended
<1>6. HalfIsEven' /\ CallsReturn'
  BY <1>1 DEF IInv, HalfIsEven, CallsReturn, Context, Aligned, Width
<1>7. Order!Advance
  BY <1>1, <1>5, Advances
<1> QED
  BY <1>4, <1>5, <1>6, <1>7 DEF IInv

\* What every exception does.
LEMMA Entered ==
    ASSUME IInv, NEW m \in {"svc", "irq"}, NEW ret \in Address, NEW vector \in {SwiVector, IrqVector},
           Enter(m, ret, vector)
    PROVE  /\ TypeOK' /\ HalfIsEven' /\ CallsReturn'
           /\ Here' = vector /\ thumb' = FALSE /\ masked' = TRUE /\ mode' = m
           /\ lr'[m] = ret /\ spsr'[m] = [mode |-> mode, thumb |-> thumb, masked |-> masked]
           /\ \A k \in {"svc", "irq"} \ {m} : lr'[k] = lr[k] /\ spsr'[k] = spsr[k]
<1>1. /\ thumb \in BOOLEAN /\ masked \in BOOLEAN /\ mode \in Modes
      /\ lr \in [Modes -> Address] /\ spsr \in [Modes \ {"usr"} -> Psr]
  BY DEF IInv, TypeOK
<1>2. m \in Modes /\ m # "usr"
  BY DEF Modes
<1>3. /\ spsr' = [spsr EXCEPT ![m] = [mode |-> mode, thumb |-> thumb, masked |-> masked]]
      /\ lr' = [lr EXCEPT ![m] = ret]
      /\ mode' = m /\ thumb' = FALSE /\ masked' = TRUE
      /\ r15' = vector /\ valid' = FALSE /\ call' = call
  BY DEF Enter
<1>4. vector \in Address /\ vector % 4 = 0
  BY Constants
<1>5. Here' = vector
  BY <1>3, <1>4, JumpArrives
<1>6. [mode |-> mode, thumb |-> thumb, masked |-> masked] \in Psr
  BY <1>1 DEF Psr
<1>7. TypeOK'
  BY <1>1, <1>2, <1>3, <1>4, <1>6 DEF TypeOK, Width
<1>8. lr'["usr"] = lr["usr"]
  BY <1>1, <1>2, <1>3 DEF Modes
<1>9. HalfIsEven' /\ CallsReturn'
  BY <1>3, <1>8 DEF IInv, HalfIsEven, CallsReturn, Context, Aligned, Width
<1> QED
  BY <1>1, <1>2, <1>3, <1>5, <1>7, <1>9 DEF Modes

LEMMA SoftwareInterruptSteps ==
    ASSUME IInv, SoftwareInterrupt
    PROVE  IInv' /\ Order!SoftwareInterrupt
<1>1. /\ thumb \in BOOLEAN /\ NextInstr \in Address /\ NextInstr % Width(thumb) = 0
      /\ Plus(FlushPipeline, -Width(thumb)) = NextInstr
  <2>1. TypeOK /\ thumb \in BOOLEAN
    BY DEF IInv, TypeOK
  <2>2. -Width(thumb) \in Int /\ Ahead(thumb) + (-Width(thumb)) = Width(thumb)
    BY <2>1, SMT DEF Ahead, Width
  <2>3. Plus(FlushPipeline, -Width(thumb)) = Plus(Here, Ahead(thumb) + (-Width(thumb)))
    BY <2>1, <2>2, PipelineAhead
  <2> QED
    BY <2>1, <2>2, <2>3, PipelineAhead DEF NextInstr
<1>2. mode = "usr" /\ Enter("svc", NextInstr, SwiVector)
  BY <1>1 DEF SoftwareInterrupt
<1>3. /\ TypeOK' /\ HalfIsEven' /\ CallsReturn'
      /\ Here' = SwiVector /\ thumb' = FALSE /\ mode' = "svc"
      /\ lr'["svc"] = NextInstr
      /\ spsr'["svc"].mode = "usr" /\ spsr'["svc"].thumb = thumb
  <2>1. "svc" \in {"svc", "irq"} /\ SwiVector \in {SwiVector, IrqVector}
    OBVIOUS
  <2>2. /\ TypeOK' /\ HalfIsEven' /\ CallsReturn'
        /\ Here' = SwiVector /\ thumb' = FALSE /\ mode' = "svc" /\ lr'["svc"] = NextInstr
        /\ spsr'["svc"] = [mode |-> mode, thumb |-> thumb, masked |-> masked]
    BY <1>1, <1>2, <2>1, Entered, Zenon
  <2> QED
    BY <1>2, <2>2
<1>4. Saved("svc")' = Context(NextInstr, thumb)
  BY <1>1, <1>3, PlusNothing DEF Saved
<1>5. SavedOK("svc")'
  BY <1>1, <1>4 DEF SavedOK, Context
<1>6. Nested'
  BY <1>3, <1>5 DEF Nested
<1>7. Suspended = <<>> /\ Suspended' = <<Context(NextInstr, thumb)>>
  BY <1>2, <1>3, <1>4 DEF Suspended, SavedBelow
<1>8. Order!NextOf(Context(Here, thumb)) = Context(NextInstr, thumb)
  BY OrderAgrees
<1>9. Context(Here, thumb)' = [pc |-> SwiVector, thumb |-> FALSE]
  BY <1>3 DEF Context
<1>10. Order!SoftwareInterrupt
  <2>1. Suspended' = Append(Suspended, Order!NextOf(Context(Here, thumb)))
    BY <1>7, <1>8
  <2> QED
    BY <2>1, <1>9 DEF Order!SoftwareInterrupt, Order!Enter
<1> QED
  BY <1>3, <1>6, <1>10 DEF IInv

LEMMA CheckIrqSteps ==
    ASSUME IInv, CheckIrq
    PROVE  IInv' /\ Order!Interrupt
<1> DEFINE ret == IrqReturn(thumb)
<1>1. /\ thumb \in BOOLEAN /\ TypeOK
      /\ Here \in Address /\ Here % Width(thumb) = 0 /\ Here \in Int
  BY PipelineAhead, AddressIsInt DEF IInv, TypeOK
<1>2. ret \in Address /\ Plus(ret, -4) = Here
  <2>1. CASE thumb
    <3>1. ret = FlushPipeline /\ ret \in Address
      BY <1>1, <2>1, PipelineAhead DEF IrqReturn
    <3>2. -4 \in Int /\ Ahead(thumb) + (-4) = 0
      BY <2>1, SMT DEF Ahead, Width
    <3>3. Plus(ret, -4) = Plus(Here, 0)
      BY <1>1, <3>1, <3>2, PipelineAhead
    <3> QED
      BY <1>1, <3>1, <3>3, PlusNothing
  <2>2. CASE ~thumb
    <3>1. ret = Plus(FlushPipeline, -4) /\ FlushPipeline \in Int
      BY <1>1, <2>2, PipelineAhead, AddressIsInt DEF IrqReturn
    <3>2. -4 \in Int /\ -8 \in Int /\ -4 + (-4) = -8 /\ Ahead(thumb) + (-8) = 0
      BY <2>2, SMT DEF Ahead, Width
    <3>3. ret \in Address
      BY <3>1, <3>2, PlusIsAddress
    <3>4. Plus(ret, -4) = Plus(FlushPipeline, -8)
      BY <3>1, <3>2, PlusPlus
    <3>5. Plus(FlushPipeline, -8) = Plus(Here, 0)
      BY <1>1, <3>2, PipelineAhead
    <3> QED
      BY <1>1, <3>3, <3>4, <3>5, PlusNothing
  <2> QED
    BY <1>1, <2>1, <2>2
<1> HIDE DEF ret
<1>3. ~masked /\ Enter("irq", ret, IrqVector)
  BY DEF CheckIrq, ret
<1>4. mode \in {"usr", "svc"} /\ masked = FALSE
  BY <1>3 DEF IInv, Nested, TypeOK, Modes
<1>5. /\ TypeOK' /\ HalfIsEven' /\ CallsReturn'
      /\ Here' = IrqVector /\ thumb' = FALSE /\ masked' = TRUE /\ mode' = "irq"
      /\ lr'["irq"] = ret /\ lr'["svc"] = lr["svc"] /\ spsr'["svc"] = spsr["svc"]
      /\ spsr'["irq"].mode = mode /\ spsr'["irq"].thumb = thumb /\ spsr'["irq"].masked = FALSE
  <2>1. /\ "irq" \in {"svc", "irq"} /\ IrqVector \in {SwiVector, IrqVector}
        /\ "svc" \in {"svc", "irq"} \ {"irq"}
    OBVIOUS
  <2>2. /\ TypeOK' /\ HalfIsEven' /\ CallsReturn'
        /\ Here' = IrqVector /\ thumb' = FALSE /\ masked' = TRUE /\ mode' = "irq"
        /\ lr'["irq"] = ret /\ lr'["svc"] = lr["svc"] /\ spsr'["svc"] = spsr["svc"]
        /\ spsr'["irq"] = [mode |-> mode, thumb |-> thumb, masked |-> masked]
    BY <1>2, <1>3, <2>1, Entered, Zenon
  <2> QED
    BY <1>4, <2>2
<1>6. Saved("irq")' = Context(Here, thumb) /\ Saved("svc")' = Saved("svc")
  BY <1>2, <1>5 DEF Saved
<1>7. SavedOK("irq")' /\ (SavedOK("svc")' <=> SavedOK("svc"))
  BY <1>1, <1>6 DEF SavedOK, Context
<1>8. Nested'
  BY <1>4, <1>5, <1>7 DEF IInv, Nested
<1>9. Suspended' = Append(Suspended, Context(Here, thumb))
  <2>1. CASE mode = "usr"
    BY <2>1, <1>5, <1>6 DEF Suspended, SavedBelow
  <2>2. CASE mode = "svc"
    <3>1. spsr["svc"].mode = "usr"
      BY <2>2 DEF IInv, Nested
    <3>2. SavedBelow("irq")' = <<Saved("svc")>>
      BY <2>2, <1>5, <1>6 DEF SavedBelow
    <3>3. Suspended = <<Saved("svc")>>
      BY <2>2, <3>1 DEF Suspended, SavedBelow
    <3> QED
      BY <3>2, <3>3, <1>5, <1>6 DEF Suspended
  <2> QED
    BY <1>4, <2>1, <2>2
<1>10. Context(Here, thumb)' = [pc |-> IrqVector, thumb |-> FALSE]
  BY <1>5 DEF Context
<1>11. Order!Interrupt
  BY <1>9, <1>10 DEF Order!Interrupt, Order!Enter
<1> QED
  BY <1>5, <1>8, <1>11 DEF IInv

\* What was appended last is on top.
LEMMA TopOfStack ==
    ASSUME NEW S, NEW s \in Seq(S), NEW x \in S
    PROVE  /\ Append(s, x) # <<>>
           /\ Order!Last(Append(s, x)) = x
           /\ Order!Front(Append(s, x)) = s
<1> DEFINE a == Append(s, x)
           n == Len(s)
<1>1. /\ n \in Nat /\ a \in Seq(S) /\ a # <<>> /\ Len(a) = n + 1
      /\ \A i \in 1..n : a[i] = s[i] /\ s[i] \in S
      /\ a[n + 1] = x
  BY AppendProperties, LenProperties
<1> HIDE DEF a
<1>2. Order!Last(a) = x
  BY <1>1 DEF Order!Last
<1>3. Order!Front(a) = SubSeq(a, 1, n)
  BY <1>1 DEF Order!Front
<1>4. /\ SubSeq(a, 1, n) \in Seq(S) /\ Len(SubSeq(a, 1, n)) = n
      /\ \A i \in 1..n : SubSeq(a, 1, n)[i] = s[i]
  <2>1. 1 \in Int /\ n \in Int /\ \A i \in 1..n : a[i] \in S
    BY <1>1
  <2>2. /\ SubSeq(a, 1, n) \in Seq(S)
        /\ Len(SubSeq(a, 1, n)) = IF 1 <= n THEN n - 1 + 1 ELSE 0
        /\ \A i \in 1..(n - 1 + 1) : SubSeq(a, 1, n)[i] = a[1 + i - 1]
    BY <2>1, SubSeqProperties
  <2>3. n - 1 + 1 = n /\ \A i \in 1..n : 1 + i - 1 = i
    BY <1>1, SMT
  <2> QED
    BY <1>1, <2>2, <2>3
<1>5. SubSeq(a, 1, n) = s
  BY <1>4, SeqEqual
<1> QED
  BY <1>1, <1>2, <1>3, <1>5 DEF a

LEMMA SingletonStack == \A x : Append(<<>>, x) = <<x>>
OBVIOUS

\* A handler returns to what it came before: the SPSR says how the address is
\* aligned, and it was aligned so when it was saved.
LEMMA ReturnSteps ==
    ASSUME IInv, ReturnFromException
    PROVE  IInv' /\ Order!Resume
<1> DEFINE ret == IF mode = "irq" THEN Plus(lr[mode], -4) ELSE lr[mode]
           th == spsr[mode].thumb
<1>1. mode \in {"svc", "irq"} /\ mode \in Modes \ {"usr"}
  BY DEF ReturnFromException, IInv, TypeOK, Modes
<1>2. /\ lr[mode] \in Address /\ th \in BOOLEAN
      /\ spsr[mode].masked \in BOOLEAN /\ spsr[mode].mode \in Modes
  BY <1>1, Typed DEF IInv
<1>3. Saved(mode) = Context(ret, th)
  BY <1>1, <1>2, PlusNothing DEF Saved
<1>4. ret \in Address /\ ret % Width(th) = 0
  BY <1>1, <1>3 DEF IInv, Nested, SavedOK, Context
<1>5. Aligned(ret, th) = ret
  BY <1>2, <1>4, AlignedIsAddress
<1>6. /\ Jumps(ret) /\ thumb' = th /\ mode' = spsr[mode].mode
      /\ masked' = spsr[mode].masked /\ UNCHANGED <<lr, spsr, call>>
  BY <1>5 DEF ReturnFromException
<1> HIDE DEF ret, th
<1>7. r15' = ret /\ valid' = FALSE
  BY <1>6 DEF Jumps
<1>8. Here' = ret
  BY <1>2, <1>4, <1>6, <1>7, JumpArrives
<1>9. TypeOK'
  BY <1>2, <1>4, <1>6, <1>7 DEF IInv, TypeOK
<1>10. HalfIsEven' /\ CallsReturn'
  BY <1>6 DEF IInv, HalfIsEven, CallsReturn, Context, Aligned, Width
<1>11. Saved("svc")' = Saved("svc") /\ (SavedOK("svc")' <=> SavedOK("svc"))
  BY <1>6 DEF Saved, SavedOK, Context, Plus
<1>12. /\ mode' \in {"usr", "svc"}
       /\ mode' = "svc" => mode = "irq" /\ spsr["svc"].mode = "usr" /\ SavedOK("svc")
  BY <1>1, <1>6 DEF IInv, Nested
<1>13. Nested'
  BY <1>6, <1>11, <1>12 DEF Nested
<1>14. Suspended = Append(Suspended', Context(ret, th))
  <2>1. CASE mode' = "usr"
    BY <2>1, <1>1, <1>3, <1>6 DEF Suspended, SavedBelow
  <2>2. CASE mode' = "svc"
    <3>1. Suspended' = <<Saved("svc")>>
      <4>1. Suspended' = Append(SavedBelow("svc")', Saved("svc")')
        BY <2>2 DEF Suspended
      <4>2. SavedBelow("svc")' = <<>>
        BY <2>2, <1>6, <1>12 DEF SavedBelow
      <4> QED
        BY <4>1, <4>2, <1>11, SingletonStack, Zenon
    <3>2. Suspended = Append(<<Saved("svc")>>, Saved("irq"))
      BY <2>2, <1>6, <1>12 DEF Suspended, SavedBelow
    <3> QED
      BY <3>1, <3>2, <1>3, <1>12, <2>2
  <2> QED
    BY <1>12, <2>1, <2>2
<1>15. Suspended' = <<>> \/ Suspended' = <<Saved("svc")>>
  <2>1. CASE mode' = "usr"
    BY <2>1 DEF Suspended
  <2>2. CASE mode' = "svc"
    <3>1. Suspended' = Append(SavedBelow("svc")', Saved("svc")')
      BY <2>2 DEF Suspended
    <3>2. SavedBelow("svc")' = <<>>
      BY <2>2, <1>6, <1>12 DEF SavedBelow
    <3> QED
      BY <3>1, <3>2, <1>11, SingletonStack, Zenon
  <2> QED
    BY <1>12, <2>1, <2>2
<1>16. /\ Suspended # <<>>
       /\ Order!Last(Suspended) = Context(ret, th)
       /\ Order!Front(Suspended) = Suspended'
  <2> DEFINE S == {Saved("svc"), Context(ret, th)}
  <2>1. <<>> \in Seq(S) /\ <<Saved("svc")>> \in Seq(S)
    OBVIOUS
  <2>2. Suspended' \in Seq(S)
    BY <2>1, <1>15, Zenon
  <2>3. Context(ret, th) \in S
    OBVIOUS
  <2> QED
    BY <2>2, <2>3, <1>14, TopOfStack, Zenon
<1>17. Context(Here, thumb)' = Context(ret, th)
  BY <1>6, <1>8 DEF Context
<1>18. Order!Resume
  BY <1>16, <1>17 DEF Order!Resume
<1> QED
  BY <1>9, <1>10, <1>13, <1>18 DEF IInv

-----------------------------------------------------------------------------
(***************************************************************************)
(* Types, calls and order.                                                 *)
(***************************************************************************)
\* Each step of the CPU is its own step of the program.
LEMMA OwnSteps == IInv => IsItsOwnStep
<1> SUFFICES ASSUME IInv PROVE IsItsOwnStep
  OBVIOUS
<1>1. Operands \subseteq Address
  BY Constants
<1> QED
  BY <1>1, OtherSteps, MaskInterruptsSteps, ThumbLongBranchHighSteps, BranchSteps,
     ArmBranchLinkSteps, LoadPcSteps, BxSteps, ThumbLongBranchLowSteps,
     SoftwareInterruptSteps, CheckIrqSteps, ReturnSteps
  DEF IsItsOwnStep

\* Where a jump can go.
LEMMA GotoIsStep ==
    ASSUME NEW a \in Address, NEW th \in BOOLEAN, Order!Goto(a, th)
    PROVE  Order!Next
<1> DEFINE c == Context(Aligned(a, th), th)
<1>1. Aligned(a, th) \in Address /\ Aligned(a, th) % Width(th) = 0
  BY AlignedIsAddress
<1>2. Aligned(Aligned(a, th), th) = Aligned(a, th)
  BY <1>1, AlignedIsAddress
<1>3. c.pc = Aligned(a, th) /\ c.thumb = th /\ c = Context(c.pc, c.thumb)
  BY DEF Context
<1>4. c \in Order!Context
  BY <1>1, <1>3, OrderAgrees
<1>5. Order!Goto(c.pc, c.thumb)
  BY <1>2, <1>3, OrderAgrees DEF Order!Goto, Aligned
<1> HIDE DEF c
<1> QED
  BY <1>4, <1>5 DEF Order!Next

LEMMA StepIInv ==
    ASSUME IInv, [Next]_vars
    PROVE  IInv' /\ [Order!Next]_(Order!vars)
<1>1. CASE Next
  <2>1. CASE Other \/ MaskInterrupts
    BY <2>1, OtherSteps, MaskInterruptsSteps DEF Order!Next
  <2>2. CASE \E k \in Offsets : Branch(k) \/ ArmBranchLink(k) \/ ThumbLongBranchHigh(k)
    <3>1. PICK k \in Offsets : Branch(k) \/ ArmBranchLink(k) \/ ThumbLongBranchHigh(k)
      BY <2>2
    <3>2. IInv' /\ (Order!Branch(k) \/ Order!Advance)
      BY <3>1, BranchSteps, ArmBranchLinkSteps, ThumbLongBranchHighSteps
    <3>3. k \in 0..(Size - 1)
      BY DEF Offsets, Address
    <3> QED
      BY <3>2, <3>3 DEF Order!Next
  <2>3. CASE \E a \in Operands : LoadPc(a) \/ Bx(a)
    <3>1. PICK a \in Operands : LoadPc(a) \/ Bx(a)
      BY <2>3
    <3>2. a \in Address /\ thumb \in BOOLEAN /\ (a % 2 = 1) \in BOOLEAN
      BY Constants DEF IInv, TypeOK
    <3>3. IInv' /\ (Order!Goto(a, thumb) \/ Order!Goto(a, a % 2 = 1))
      BY <3>1, <3>2, LoadPcSteps, BxSteps
    <3> QED
      BY <3>2, <3>3, GotoIsStep
  <2>4. CASE \E low \in LowHalves : ThumbLongBranchLow(low)
    <3>1. PICK low \in LowHalves : ThumbLongBranchLow(low)
      BY <2>4
    <3>2. IInv' /\ Order!Goto(Plus(call.to.pc, low), TRUE)
      BY <3>1, ThumbLongBranchLowSteps
    <3>3. call.to.pc \in Int /\ low \in Int
      BY <3>1, Constants, AddressIsInt DEF ThumbLongBranchLow, IInv, HalfIsEven
    <3>4. Plus(call.to.pc, low) \in Address
      BY <3>3, PlusIsAddress
    <3> QED
      BY <3>2, <3>4, GotoIsStep
  <2>5. CASE SoftwareInterrupt
    BY <2>5, SoftwareInterruptSteps DEF Order!Next
  <2>6. CASE CheckIrq
    BY <2>6, CheckIrqSteps DEF Order!Next
  <2>7. CASE ReturnFromException
    BY <2>7, ReturnSteps DEF Order!Next
  <2> QED
    BY <1>1, <2>1, <2>2, <2>3, <2>4, <2>5, <2>6, <2>7 DEF Next, Instruction
<1>2. CASE UNCHANGED vars
  <2>1. UNCHANGED <<r15, valid, thumb, masked, mode, lr, spsr, call>>
    BY <1>2 DEF vars, cpu
  <2>2. TypeOK' /\ HalfIsEven' /\ CallsReturn'
    BY <2>1 DEF IInv, TypeOK, HalfIsEven, CallsReturn, Context, Aligned, Width
  <2>3. Nested' /\ Suspended' = Suspended
    BY <2>1, NothingSuspended
  <2>4. Context(Here, thumb)' = Context(Here, thumb)
    BY <2>1 DEF Context, Here, FlushPipeline, Plus, Ahead, Width
  <2> QED
    BY <2>2, <2>3, <2>4 DEF IInv, Order!vars
<1> QED
  BY <1>1, <1>2

LEMMA Invariance == Spec => []IInv
<1>1. Init => IInv
  BY InitIInv
<1>2. IInv /\ [Next]_vars => IInv'
  BY StepIInv
<1> QED
  BY <1>1, <1>2, PTL DEF Spec

\* The registers hold addresses, and r15 one that the instruction set can run.
THEOREM TypeCorrect == Spec => []TypeOK
<1>1. IInv => TypeOK
  BY DEF IInv
<1> QED
  BY <1>1, Invariance, PTL

\* A call, of either instruction set, returns behind itself, also when exceptions
\* come between the two halves of a Thumb call or before the return.
THEOREM CallsComeBack == Spec => []CallsReturn
<1>1. IInv => CallsReturn
  BY DEF IInv
<1> QED
  BY <1>1, Invariance, PTL

\* The pipeline, exceptions and returns implement a program order: flushes that
\* come late and offsets that depend on the state never lose an instruction, run
\* one twice, or resume in the wrong instruction set.  Each step is the one of the
\* program that it should be: jumps go where they say, a software interrupt
\* suspends what follows it, an interrupt what it came before.
THEOREM InOrder == Spec => RunsInOrder
<1>1. Init => Context(Here, thumb) \in Order!Context /\ Suspended = <<>>
  <2> SUFFICES ASSUME Init PROVE Context(Here, thumb) \in Order!Context /\ Suspended = <<>>
    OBVIOUS
  <2>1. Here \in Address /\ Here % Width(thumb) = 0 /\ thumb \in BOOLEAN
    BY InitIInv, PipelineAhead DEF IInv, TypeOK
  <2>2. Context(Here, thumb) \in Order!Context
    BY <2>1 DEF Context, Order!Context, Order!Width, Width, Address
  <2> QED
    BY <2>2 DEF Init, Suspended
<1>2. IInv /\ [Next]_vars => [Order!Next]_(Order!vars) /\ [IsItsOwnStep]_vars
  BY StepIInv, OwnSteps
<1> QED
  BY <1>1, <1>2, Invariance, PTL DEF Spec, RunsInOrder, Order!Spec

-----------------------------------------------------------------------------
(***************************************************************************)
(* Stalls.                                                                 *)
(***************************************************************************)
WaitSetting ==
    [n: [Areas -> Nat \ {0}], s: [Areas -> Nat \ {0}], prefetch: BOOLEAN, written: BOOLEAN]

WaitSum == [data: Nat, write: Nat, accessed: BOOLEAN, next: SUBSET Int]

LEMMA SettingsTyped == PowerOnWaits \in WaitSetting /\ Settings \subseteq WaitSetting
<1>1. PowerOnWaits \in WaitSetting
  BY DEF PowerOnWaits, WaitSetting, Areas
<1>2. ASSUME NEW first \in [Areas -> 0..3], NEW second \in [Areas -> 0..1], NEW prefetch \in BOOLEAN
      PROVE  UpdateWaitcnt(first, second, prefetch) \in WaitSetting
  <2>1. \A k \in 0..3 : 1 + FirstAccess[k + 1] \in Nat \ {0}
    BY SMT DEF FirstAccess
  <2>2. \A a \in Areas : \A k \in 0..1 : 1 + SecondAccess[a][k + 1] \in Nat \ {0}
    BY SMT DEF SecondAccess, Areas
  <2>3. [a \in Areas |-> 1 + FirstAccess[first[a] + 1]] \in [Areas -> Nat \ {0}]
    BY <2>1
  <2>4. [a \in Areas |-> 1 + SecondAccess[a][second[a] + 1]] \in [Areas -> Nat \ {0}]
    BY <2>2
  <2> QED
    BY <2>3, <2>4 DEF UpdateWaitcnt, WaitSetting
<1> QED
  BY <1>1, <1>2, FetchAssumption

LEMMA SumFields ==
    ASSUME NEW sum \in WaitSum
    PROVE  sum.data \in Nat /\ sum.write \in Nat
BY DEF WaitSum

LEMMA SumWithData ==
    ASSUME NEW sum \in WaitSum, NEW d \in Nat, NEW nx \in SUBSET Int
    PROVE  [sum EXCEPT !.data = d, !.accessed = TRUE, !.next = nx] \in WaitSum
BY DEF WaitSum

LEMMA SumWithWrite ==
    ASSUME NEW sum \in WaitSum, NEW d \in Nat, NEW nx \in SUBSET Int
    PROVE  [sum EXCEPT !.write = d, !.next = nx] \in WaitSum
BY DEF WaitSum

LEMMA SumWithNext ==
    ASSUME NEW sum \in WaitSum, NEW nx \in SUBSET Int
    PROVE  [sum EXCEPT !.next = nx] \in WaitSum
BY DEF WaitSum

LEMMA AddWaitTyped ==
    ASSUME NEW w \in WaitSetting, NEW sum \in WaitSum, NEW a \in Access
    PROVE  AddWait(w, sum, a) \in WaitSum
<1>1. a.addr \in Int /\ a.wide \in BOOLEAN
  BY AddressIsInt DEF Access
<1>2. {a.addr + 2, a.addr + 4} \in SUBSET Int
  <2>1. a.addr + 2 \in Int /\ a.addr + 4 \in Int
    BY <1>1
  <2> QED
    BY <2>1
<1>3. {} \in SUBSET Int
  OBVIOUS
<1> DEFINE ewram == IF a.wide THEN 5 ELSE 2
<1>4. sum.data \in Nat /\ sum.write \in Nat
  BY SumFields
<1>5. sum.data + ewram \in Nat /\ sum.write + ewram \in Nat
  BY <1>4
<1>6. CASE a.store
  <2>1. AddWait(w, sum, a) = IF a.region = "ewram"
          THEN [sum EXCEPT !.write = sum.write + ewram, !.next = {}] ELSE sum
    BY <1>6 DEF AddWait, AddWriteWait
  <2>2. [sum EXCEPT !.write = sum.write + ewram, !.next = {}] \in WaitSum
    BY <1>3, <1>5, SumWithWrite
  <2> QED
    BY <2>1, <2>2
<1>7. CASE ~a.store /\ InRom(a.region)
  <2>1. w.n[a.region] \in Nat \ {0} /\ w.s[a.region] \in Nat \ {0}
    BY <1>7 DEF InRom, WaitSetting
  <2> DEFINE first == IF a.addr \in sum.next THEN w.s[a.region] ELSE w.n[a.region]
             more == IF a.wide THEN w.s[a.region] ELSE 0
  <2>2. first \in Nat \ {0} /\ more \in Nat
    BY <2>1
  <2>3. AddWait(w, sum, a) = [sum EXCEPT !.data = sum.data + first + more - 1, !.accessed = TRUE,
                                         !.next = {a.addr + 2, a.addr + 4}]
    BY <1>7 DEF AddWait, AddDataWait
  <2> HIDE DEF first, more
  <2>4. sum.data + first + more - 1 \in Nat
    BY <2>2, <1>4
  <2>5. [sum EXCEPT !.data = sum.data + first + more - 1, !.accessed = TRUE,
                    !.next = {a.addr + 2, a.addr + 4}] \in WaitSum
    BY <2>4, <1>2, SumWithData
  <2> QED
    BY <2>3, <2>5, Zenon
<1>8. CASE ~a.store /\ ~InRom(a.region)
  <2>1. AddWait(w, sum, a) = IF a.region = "ewram"
          THEN [sum EXCEPT !.data = sum.data + ewram, !.accessed = TRUE, !.next = {}]
          ELSE [sum EXCEPT !.next = {}]
    BY <1>8 DEF AddWait, AddDataWait
  <2>2. [sum EXCEPT !.data = sum.data + ewram, !.accessed = TRUE, !.next = {}] \in WaitSum
    BY <1>3, <1>5, SumWithData
  <2>3. [sum EXCEPT !.next = {}] \in WaitSum
    BY <1>3, SumWithNext
  <2> QED
    BY <2>1, <2>2, <2>3
<1> QED
  BY <1>6, <1>7, <1>8

\* The sum is defined for every sequence of accesses, and each of its partial sums
\* is one.
LEMMA WaitsTyped ==
    ASSUME NEW w \in WaitSetting, NEW accesses \in Seq(Access)
    PROVE  Waits(w, accesses) \in WaitSum
<1> DEFINE n == Len(accesses)
           Sum(g, i) == IF i = 0 THEN NoWaits ELSE AddWait(w, g[i - 1], accesses[i])
           sum == CHOOSE g : g = [i \in 0..n |-> Sum(g, i)]
           step == [i \in 1..n |-> [s \in WaitSum |-> AddWait(w, s, accesses[i])]]
<1>1. NoWaits \in WaitSum
  BY DEF NoWaits, WaitSum
<1>2. n \in Nat /\ \A i \in 1..n : accesses[i] \in Access
  BY LenProperties
<1>3. Waits(w, accesses) = sum[n]
  BY DEF Waits
<1>4. \A i \in 1..n : \A s \in WaitSum : AddWait(w, s, accesses[i]) \in WaitSum
  BY <1>2, AddWaitTyped
<1>5. PICK f \in [0..n -> WaitSum] : f[0] = NoWaits /\ \A i \in 1..n : f[i] = step[i][f[i - 1]]
  <2>1. step \in [1..n -> [WaitSum -> WaitSum]]
    BY <1>4
  <2>2. n \in Nat
    BY <1>2
  <2> HIDE DEF step, n
  <2>3. PICK f : f \in Recursions(n, WaitSum, NoWaits, step)
    BY <1>1, <2>1, <2>2, RecursionExists, Zenon
  <2> QED
    BY <2>3 DEF Recursions
<1>6. \A i \in 0..n : f[i] = Sum(f, i)
  <2>1. ASSUME NEW i \in 1..n PROVE f[i] = AddWait(w, f[i - 1], accesses[i]) /\ i # 0
    <3>1. f[i - 1] \in WaitSum
      BY <1>2, <1>5
    <3> QED
      BY <1>5, <3>1
  <2>2. \A i \in 0..n : i = 0 \/ i \in 1..n
    BY <1>2, SMT
  <2> QED
    BY <1>5, <2>1, <2>2
<1>7. f = [i \in 0..n |-> Sum(f, i)]
  BY <1>5, <1>6
<1>8. sum = [i \in 0..n |-> Sum(sum, i)]
  BY <1>7
<1>9. \A i \in 0..n : sum[i] = Sum(sum, i)
  BY <1>8
<1> HIDE DEF sum, n
<1> DEFINE S == [i \in 0..n |-> WaitSum]
<1>10. sum[0] \in S[0]
  BY <1>1, <1>2, <1>9
<1>11. ASSUME NEW i \in 1..n, sum[i - 1] \in S[i - 1]
       PROVE  sum[i] \in S[i]
  <2>1. i \in 0..n /\ i - 1 \in 0..n /\ i # 0
    BY <1>2, SMT
  <2>2. sum[i] = AddWait(w, sum[i - 1], accesses[i])
    BY <1>9, <2>1
  <2> QED
    BY <1>4, <1>11, <2>1, <2>2
<1>12. sum[n] \in S[n]
  <2> HIDE DEF S
  <2>1. \A i \in 1..n : sum[i - 1] \in S[i - 1] => sum[i] \in S[i]
    BY <1>11
  <2>2. \A i \in 0..n : sum[i] \in S[i]
    BY <1>2, <1>10, <2>1, RecursionStays, Zenon
  <2> QED
    BY <1>2, <2>2
<1> QED
  BY <1>2, <1>3, <1>12

LEMMA WorkTyped ==
    ASSUME NEW w \in WaitSetting, NEW c \in Nat, NEW a \in Seq(Access),
           NEW region \in Areas \cup {"bios", "ewram", "iwram"}, NEW th \in BOOLEAN
    PROVE  Work(w, c, a, region, th, FALSE, region) \in Nat
<1>1. Waits(w, a).data \in Nat /\ Waits(w, a).write \in Nat
  BY WaitsTyped, SumFields
<1>2. CodeFetchExtra(w, region, th) \in Nat
  <2>1. CASE InRom(region)
    <3>1. w.n[region] \in Nat \ {0} /\ w.s[region] \in Nat \ {0}
      BY <2>1 DEF InRom, WaitSetting
    <3>2. CodeFetchExtra(w, region, th) = IF w.prefetch THEN 0
            ELSE (w.s[region] - 1) + (IF th THEN 0 ELSE w.n[region] - 1)
      <4>1. region # "ewram"
        BY <2>1 DEF InRom, Areas
      <4> QED
        BY <2>1, <4>1 DEF CodeFetchExtra
    <3> QED
      BY <3>1, <3>2, SMTT(40)
  <2>2. CASE ~InRom(region)
    BY <2>2 DEF CodeFetchExtra, InRom, Areas
  <2> QED
    BY <2>1, <2>2
<1> DEFINE sum == Waits(w, a)
           fetch == IF sum.accessed \/ sum.write > 0 THEN CodeFetchExtra(w, region, th) ELSE 0
<1>3. Work(w, c, a, region, th, FALSE, region) = c + sum.data + sum.write + fetch
  BY DEF Work
<1>4. fetch \in Nat
  BY <1>2
<1> HIDE DEF fetch, sum
<1>5. sum.data \in Nat /\ sum.write \in Nat
  BY <1>1 DEF sum
<1>6. c + sum.data + sum.write + fetch \in Nat
  BY <1>4, <1>5
<1> QED
  BY <1>3, <1>6, Zenon

\* What a fetch goes by: prev counts the work of the instruction just before in
\* program order, or there is none such; then the step before branched, or took
\* an interrupt, whose vector is in the BIOS and fetches at once.
WorkKnown ==
    /\ waits \in WaitSetting
    /\ \/ prev = Branched /\ last = None
       \/ prev \in Nat /\ prev = spent /\ last = Context(Here, thumb)
       \/ prev \in Nat \cup {Branched} /\ last = None /\ Map[Here] = "bios"

LEMMA InitWorkKnown == Init => WorkKnown
BY SettingsTyped DEF Init, WorkKnown

LEMMA InSequenceWorkKnown ==
    ASSUME TypeOK, WorkKnown, NEW c \in Nat, NEW a \in Seq(Access), NEW w \in WaitSetting,
           InSequence(c, a, w), thumb' = thumb
    PROVE  WorkKnown'
<1>1. Here' = NextInstr
  BY InSequenceGoesOn
<1>2. Here \in Address /\ thumb \in BOOLEAN
  BY PipelineAhead DEF TypeOK
<1>3. Map[Here] \in Areas \cup {"bios", "ewram", "iwram"}
  BY <1>2, FetchAssumption
<1>4. Work(w, c, a, Map[Here], thumb, FALSE, Map[Here]) \in Nat
  BY <1>2, <1>3, WorkTyped
<1>5. /\ waits' = w /\ last' = Context(NextInstr, thumb)
      /\ prev' = Work(w, c, a, Map[Here], thumb, FALSE, Map[Here]) /\ spent' = prev'
  BY DEF InSequence
<1>6. last' = Context(Here, thumb)'
  BY <1>1, <1>5 DEF Context
<1> QED
  BY <1>4, <1>5, <1>6 DEF WorkKnown

LEMMA JumpWorkKnown ==
    ASSUME WorkKnown, prev' = Branched, last' = None, UNCHANGED waits
    PROVE  WorkKnown'
BY DEF WorkKnown

LEMMA CheckIrqWorkKnown ==
    ASSUME WorkKnown, CheckIrq
    PROVE  WorkKnown'
<1>1. /\ r15' = IrqVector /\ valid' = FALSE /\ thumb' = FALSE
      /\ UNCHANGED <<prev, waits>> /\ last' = None
  BY DEF CheckIrq, Enter
<1>2. Here' = IrqVector
  BY <1>1, Constants, JumpArrives
<1>3. Map[Here'] = "bios"
  BY <1>2, FetchAssumption
<1> QED
  BY <1>1, <1>3 DEF WorkKnown

LEMMA StepWorkKnown ==
    ASSUME TypeOK, WorkKnown, [Next]_vars
    PROVE  WorkKnown'
<1>1. /\ waits \in WaitSetting /\ Settings \subseteq WaitSetting
      /\ Cycles \subseteq Nat /\ Accesses \subseteq Seq(Access)
      /\ 1 \in Nat /\ 2 \in Nat /\ <<>> \in Seq(Access)
  BY SettingsTyped, FetchAssumption DEF WorkKnown
<1>2. CASE Other
  <2>1. thumb' = thumb
    BY <1>2 DEF Other, SameState
  <2>2. ASSUME NEW c \in Cycles, NEW a \in Accesses, InSequence(c, a, waits) PROVE WorkKnown'
    BY <1>1, <2>1, <2>2, InSequenceWorkKnown
  <2>3. ASSUME NEW w \in Settings, InSequence(2, <<>>, w) PROVE WorkKnown'
    BY <1>1, <2>1, <2>3, InSequenceWorkKnown
  <2> QED
    BY <1>2, <2>2, <2>3 DEF Other
<1>3. CASE (\E k \in Offsets : ThumbLongBranchHigh(k)) \/ MaskInterrupts
  <2>1. InSequence(1, <<>>, waits) /\ thumb' = thumb
    BY <1>3 DEF ThumbLongBranchHigh, MaskInterrupts
  <2> QED
    BY <1>1, <2>1, InSequenceWorkKnown
<1>4. CASE \/ \E k \in Offsets : Branch(k) \/ ArmBranchLink(k)
           \/ \E a \in Operands : LoadPc(a) \/ Bx(a)
           \/ \E low \in LowHalves : ThumbLongBranchLow(low)
           \/ ReturnFromException
  <2>1. prev' = Branched /\ last' = None /\ UNCHANGED waits
    BY <1>4 DEF Branch, LoadPc, Bx, ArmBranchLink, ThumbLongBranchLow, ReturnFromException, Jumps
  <2> QED
    BY <2>1, JumpWorkKnown
<1>5. CASE SoftwareInterrupt
  BY <1>5, JumpWorkKnown DEF SoftwareInterrupt, Enter
<1>6. CASE CheckIrq
  BY <1>6, CheckIrqWorkKnown
<1>7. CASE UNCHANGED vars
  <2>1. UNCHANGED <<r15, valid, thumb, waits, prev, spent, last>>
    BY <1>7 DEF vars, cpu
  <2>2. Here' = Here /\ Context(Here, thumb)' = Context(Here, thumb)
    BY <2>1 DEF Context, Here, FlushPipeline, Plus, Ahead, Width
  <2> QED
    BY <2>1, <2>2 DEF WorkKnown
<1> QED
  BY <1>2, <1>3, <1>4, <1>5, <1>6, <1>7 DEF Next, Instruction

LEMMA WorkKnownStalls ==
    ASSUME TypeOK, WorkKnown
    PROVE  StallIsTheRest
<1> DEFINE region == Map[Here]
           fetch == FetchTime(waits, region, thumb)
<1>1. None # Context(Here, thumb)
  <2>1. Here \in Address /\ thumb \in BOOLEAN
    BY PipelineAhead DEF TypeOK
  <2> QED
    BY <2>1, FetchAssumption DEF Context
<1>2. CASE ~Slow(waits, region)
  BY <1>2 DEF StallIsTheRest, PipelineStall
<1>3. CASE last = None /\ (prev = Branched \/ region = "bios")
  <2>1. region = "bios" => ~Slow(waits, region)
    BY DEF Slow, InRom, Areas
  <2> QED
    BY <1>1, <1>3, <2>1 DEF StallIsTheRest, PipelineStall
<1>4. CASE Slow(waits, region) /\ prev \in Nat /\ prev = spent /\ last = Context(Here, thumb)
  <2>1. fetch \in Nat
    <3>1. waits.s[region] \in Nat
      BY <1>4 DEF WorkKnown, WaitSetting, Slow, InRom
    <3> QED
      BY <3>1 DEF FetchTime
  <2>2. PipelineStall(waits, prev, region, thumb) = IF prev < fetch THEN fetch - prev ELSE 0
    <3>1. prev # Branched
      BY <1>4 DEF Branched
    <3> QED
      BY <1>4, <3>1 DEF PipelineStall
  <2>3. StallIsTheRest <=> PipelineStall(waits, prev, region, thumb)
                             = IF fetch - spent > 0 THEN fetch - spent ELSE 0
    BY <1>4 DEF StallIsTheRest
  <2> HIDE DEF fetch
  <2> QED
    BY <1>4, <2>1, <2>2, <2>3
<1> QED
  BY <1>2, <1>3, <1>4 DEF WorkKnown

\* A fetch in sequence waits for what the work of the instruction just before, in
\* program order, has not covered: the work of any other instruction, from before a
\* jump or an interrupt, is never set off against it.
THEOREM StallsAreTheRest == Spec => []StallIsTheRest
<1>1. Init => WorkKnown
  BY InitWorkKnown
<1>2. TypeOK /\ WorkKnown /\ [Next]_vars => WorkKnown'
  BY StepWorkKnown
<1>3. TypeOK /\ WorkKnown => StallIsTheRest
  BY WorkKnownStalls
<1> QED
  BY <1>1, <1>2, <1>3, TypeCorrect, PTL DEF Spec

=============================================================================
