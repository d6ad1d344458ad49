----------------------------- MODULE Cpu_proofs -------------------------------
(***************************************************************************)
(* Proofs about the CPU.  First CpuModes, for any set of modes and registers: *)
(* the types, that switching modes changes no physical register, and that  *)
(* the copies implement one RegisterFile.  Then Alu, for words of every    *)
(* width: numbers of any length add and subtract exactly, the conditions   *)
(* tell how they compare, and shifts are as many shifts by one bit.        *)
(***************************************************************************)
EXTENDS CpuModes, Alu, Numbers

-----------------------------------------------------------------------------
(***************************************************************************)
(* The operators.                                                          *)
(***************************************************************************)
\* What the proofs use of the constants.
LEMMA Names ==
    /\ \A m \in Modes : Group(m) \in Groups
    /\ \A g \in Groups : g \in Modes /\ Group(g) = g
    /\ {"usr", "fiq", "irq", "svc"} \subseteq Groups
    /\ \A r \in Low : r \notin Banked /\ r \in Regs
    /\ \A r \in Banked : r \notin Low /\ r \in Regs
    /\ \A r \in Regs : r \in Low \/ r \in Banked
    /\ "lr" \in Regs /\ Zero \in Values /\ Top \in Values
<1>1. {"usr", "fiq", "irq", "svc"} \subseteq Modes
  BY ModesAssumption
<1>2. /\ \A m \in Modes : Group(m) \in Groups
      /\ \A g \in Groups : \E m \in Modes : g = Group(m)
  BY DEF Groups
<1>3. \A m \in Modes : Group(m) \in Modes /\ Group(Group(m)) = Group(m)
  BY <1>1 DEF Group
<1>4. \A g \in {"usr", "fiq", "irq", "svc"} : Group(g) = g
  BY DEF Group
<1>5. {"usr", "fiq", "irq", "svc"} \subseteq Groups
  BY <1>1, <1>2, <1>4
<1>6. \A r \in Low : r \notin Banked
  BY ModesAssumption
<1> QED
  BY <1>2, <1>3, <1>5, <1>6, ModesAssumption DEF Regs

\* Overwriting registers with values leaves registers.
LEMMA OverwrittenRegs ==
    ASSUME NEW regs \in [Regs -> Values], NEW R, NEW w \in [R -> Values]
    PROVE  Overwritten(regs, w) \in [Regs -> Values]
BY DEF Overwritten

\* switch_mode in full: what each part of the cpu is after it.
LEMMA SwitchedFields ==
    ASSUME NEW c \in Cpu, NEW m \in Modes, c.psr.mode # m
    PROVE  LET g == Group(c.psr.mode)
               h == Group(m)
               s == Switched(c, m)
           IN  /\ s \in Cpu /\ s.psr.mode = m /\ s.psr.masked = c.psr.masked
               /\ \A r \in Banked : s.regs[r] = IF h = g THEN c.regs[r] ELSE c.bank[h][r]
               /\ \A r \in Low :
                    s.regs[r] = IF h = "fiq" THEN IF g = "fiq" THEN c.regs[r] ELSE c.fiqLow[r]
                                ELSE IF g = "fiq" THEN c.usrLow[r] ELSE c.regs[r]
               /\ \A k \in Groups, r \in Banked :
                    s.bank[k][r] = IF k = g THEN c.regs[r] ELSE c.bank[k][r]
               /\ \A r \in Low :
                    /\ h = "fiq" /\ g # "fiq" => s.usrLow[r] = c.regs[r]
                    /\ g = "fiq" => s.usrLow[r] = c.usrLow[r] /\ s.fiqLow[r] = c.regs[r]
                    /\ g # "fiq" => s.fiqLow[r] = c.fiqLow[r]
<1> DEFINE g == Group(c.psr.mode)
           h == Group(m)
           b == [c.bank EXCEPT ![g] = Only(c.regs, Banked)]
           u == IF g = "usr" THEN Only(c.regs, Low) ELSE c.usrLow
           f == IF g = "fiq" THEN Only(c.regs, Low) ELSE c.fiqLow
           s == Saved(c, g)
           l == LowAfter(s, g, h)
           n == Overwritten(Overwritten(c.regs, b[h]), l)
           u2 == IF g # "fiq" /\ h = "fiq" THEN Only(c.regs, Low) ELSE u
           p == [c.psr EXCEPT !.mode = m]
<1>1. /\ c.regs \in [Regs -> Values] /\ c.psr \in Psr
      /\ c.bank \in [Groups -> [Banked -> Values]]
      /\ c.usrLow \in [Low -> Values] /\ c.fiqLow \in [Low -> Values]
      /\ g \in Groups /\ h \in Groups
  <2>1. c.psr \in Psr
    BY DEF Cpu
  <2>2. c.psr.mode \in Modes
    BY <2>1 DEF Psr
  <2> QED
    BY <2>1, <2>2, Names DEF Cpu
<1>2. /\ Only(c.regs, Banked) \in [Banked -> Values]
      /\ Only(c.regs, Low) \in [Low -> Values]
      /\ \A r \in Banked : Only(c.regs, Banked)[r] = c.regs[r]
      /\ \A r \in Low : Only(c.regs, Low)[r] = c.regs[r]
  BY <1>1, Names DEF Only
<1>3. /\ b \in [Groups -> [Banked -> Values]]
      /\ u \in [Low -> Values] /\ f \in [Low -> Values] /\ u2 \in [Low -> Values]
  BY <1>1, <1>2
<1>4. s = [c EXCEPT !.bank = b, !.usrLow = u, !.fiqLow = f]
  BY <1>1 DEF Saved, Cpu
<1> HIDE DEF b, u, f, s
<1>5. /\ s.regs = c.regs /\ s.psr = c.psr /\ s.bank = b /\ s.usrLow = u /\ s.fiqLow = f
      /\ s \in Cpu
  BY <1>1, <1>3, <1>4 DEF Cpu
<1>6. l = IF h = "fiq" THEN f ELSE IF g = "fiq" THEN u ELSE Only(c.regs, Low)
  BY <1>5 DEF LowAfter
<1>7. l \in [Low -> Values]
  BY <1>2, <1>3, <1>6
<1>8. b[h] \in [Banked -> Values]
  BY <1>1, <1>3
<1> HIDE DEF l
<1>9. n \in [Regs -> Values]
  BY <1>1, <1>7, <1>8, OverwrittenRegs
<1>10. Switched(c, m) = [s EXCEPT !.regs = n, !.usrLow = u2, !.psr = p]
  BY <1>5 DEF Switched, l, s, Cpu
<1>11. p \in Psr /\ p.mode = m /\ p.masked = c.psr.masked
  BY <1>1 DEF Psr
<1>12. /\ \A r \in Banked : n[r] = b[h][r]
       /\ \A r \in Low : n[r] = l[r]
  BY <1>1, <1>7, <1>8, Names DEF Overwritten
<1> HIDE DEF n, u2, p
<1>13. /\ Switched(c, m) \in Cpu
       /\ Switched(c, m).regs = n /\ Switched(c, m).psr = p
       /\ Switched(c, m).bank = b /\ Switched(c, m).usrLow = u2
       /\ Switched(c, m).fiqLow = f
  BY <1>3, <1>5, <1>9, <1>10, <1>11 DEF Cpu
<1>14. \A k \in Groups, r \in Banked : b[k][r] = IF k = g THEN c.regs[r] ELSE c.bank[k][r]
  BY <1>1, <1>2 DEF b
<1>15. \A r \in Low : /\ u2[r] = IF g # "fiq" /\ h = "fiq" THEN c.regs[r] ELSE u[r]
                      /\ f[r] = IF g = "fiq" THEN c.regs[r] ELSE c.fiqLow[r]
                      /\ g = "fiq" => u[r] = c.usrLow[r]
  BY <1>2 DEF u2, u, f
<1> HIDE DEF g, h
<1>16. \A r \in Banked : n[r] = IF h = g THEN c.regs[r] ELSE c.bank[h][r]
  BY <1>1, <1>12, <1>14
<1>17. \A r \in Low :
         n[r] = IF h = "fiq" THEN IF g = "fiq" THEN c.regs[r] ELSE c.fiqLow[r]
                ELSE IF g = "fiq" THEN c.usrLow[r] ELSE c.regs[r]
  BY <1>2, <1>6, <1>12, <1>15
<1> QED
  BY <1>11, <1>13, <1>14, <1>15, <1>16, <1>17 DEF g, h

\* A change of mode changes no physical register (Cpu::switch_mode).
LEMMA SwitchKeepsFile ==
    ASSUME NEW c \in Cpu, NEW m \in Modes
    PROVE  /\ Switched(c, m) \in Cpu
           /\ Switched(c, m).psr.mode = m
           /\ Switched(c, m).psr.masked = c.psr.masked
           /\ \A g \in Groups, r \in Regs : View(Switched(c, m), g, r) = View(c, g, r)
<1>1. CASE c.psr.mode = m
  BY <1>1 DEF Switched
<1>2. CASE c.psr.mode # m
  <2> DEFINE s == Switched(c, m)
             k == Group(c.psr.mode)
             h == Group(m)
  <2>1. /\ s \in Cpu /\ s.psr.mode = m /\ s.psr.masked = c.psr.masked
        /\ \A r \in Banked : s.regs[r] = IF h = k THEN c.regs[r] ELSE c.bank[h][r]
        /\ \A r \in Low :
             s.regs[r] = IF h = "fiq" THEN IF k = "fiq" THEN c.regs[r] ELSE c.fiqLow[r]
                         ELSE IF k = "fiq" THEN c.usrLow[r] ELSE c.regs[r]
        /\ \A j \in Groups, r \in Banked :
             s.bank[j][r] = IF j = k THEN c.regs[r] ELSE c.bank[j][r]
        /\ \A r \in Low :
             /\ h = "fiq" /\ k # "fiq" => s.usrLow[r] = c.regs[r]
             /\ k = "fiq" => s.usrLow[r] = c.usrLow[r] /\ s.fiqLow[r] = c.regs[r]
             /\ k # "fiq" => s.fiqLow[r] = c.fiqLow[r]
    BY <1>2, SwitchedFields
  <2> HIDE DEF s, k, h
  <2>2. Group(s.psr.mode) = h /\ Group(c.psr.mode) = k
    BY <2>1 DEF h, k
  <2>3. ASSUME NEW g \in Groups, NEW r \in Regs
        PROVE  View(s, g, r) = View(c, g, r)
    <3>1. CASE r \in Banked
      <4>1. View(s, g, r) = IF g = h THEN s.regs[r] ELSE s.bank[g][r]
        BY <2>2, <3>1 DEF View
      <4>2. View(c, g, r) = IF g = k THEN c.regs[r] ELSE c.bank[g][r]
        BY <2>2, <3>1 DEF View
      <4> QED
        BY <2>1, <3>1, <4>1, <4>2
    <3>2. CASE r \in Low
      <4>1. r \notin Banked
        BY <3>2, Names
      <4>2. View(s, g, r) = IF (g = "fiq") <=> (h = "fiq") THEN s.regs[r]
                            ELSE IF g = "fiq" THEN s.fiqLow[r] ELSE s.usrLow[r]
        BY <2>2, <4>1 DEF View
      <4>3. View(c, g, r) = IF (g = "fiq") <=> (k = "fiq") THEN c.regs[r]
                            ELSE IF g = "fiq" THEN c.fiqLow[r] ELSE c.usrLow[r]
        BY <2>2, <4>1 DEF View
      <4>4. CASE h = "fiq"
        BY <2>1, <3>2, <4>2, <4>3, <4>4
      <4>5. CASE h # "fiq"
        BY <2>1, <3>2, <4>2, <4>3, <4>5
      <4> QED
        BY <4>4, <4>5
    <3> QED
      BY <3>1, <3>2, Names
  <2> QED
    BY <2>1, <2>3 DEF s
<1> QED
  BY <1>1, <1>2

\* Writing registers changes those of the mode it happens in.
LEMMA WriteKeepsOthers ==
    ASSUME NEW c \in Cpu, NEW R, NEW w \in [R -> Values]
    PROVE  /\ WithRegs(c, w) \in Cpu
           /\ WithRegs(c, w).psr = c.psr
           /\ \A g \in Groups, r \in Regs :
                \/ View(WithRegs(c, w), g, r) = View(c, g, r)
                \/ r \in R /\ Phys(g, r) = Phys(Group(c.psr.mode), r)
<1> DEFINE n == Overwritten(c.regs, w)
           k == Group(c.psr.mode)
           d == WithRegs(c, w)
<1>1. c.regs \in [Regs -> Values]
  BY DEF Cpu
<1>2. n \in [Regs -> Values]
  BY <1>1, OverwrittenRegs
<1>3. \A r \in Regs : r \in R \/ n[r] = c.regs[r]
  BY <1>1 DEF Overwritten
<1> HIDE DEF n
<1>4. d \in Cpu /\ d.regs = n /\ d.psr = c.psr /\ d.bank = c.bank
      /\ d.usrLow = c.usrLow /\ d.fiqLow = c.fiqLow
  BY <1>2 DEF WithRegs, Cpu, n
<1> HIDE DEF d
<1>5. ASSUME NEW g \in Groups, NEW r \in Regs
      PROVE  View(d, g, r) = View(c, g, r) \/ (r \in R /\ Phys(g, r) = Phys(k, r))
  <2>1. CASE r \in Banked
    BY <1>3, <1>4, <2>1 DEF View
  <2>2. CASE r \in Low
    BY <1>3, <1>4, <2>2, Names DEF View, Phys
  <2> QED
    BY <2>1, <2>2, Names
<1> QED
  BY <1>4, <1>5 DEF d

\* Setting the CPSR to a value of the same mode changes no register.
LEMMA PsrKeepsFile ==
    ASSUME NEW c \in Cpu, NEW p \in Psr, p.mode = c.psr.mode
    PROVE  /\ WithPsr(c, p) \in Cpu
           /\ WithPsr(c, p).psr = p
           /\ \A g \in Groups, r \in Regs : View(WithPsr(c, p), g, r) = View(c, g, r)
<1>1. /\ WithPsr(c, p) \in Cpu /\ WithPsr(c, p).psr = p
      /\ WithPsr(c, p).regs = c.regs /\ WithPsr(c, p).bank = c.bank
      /\ WithPsr(c, p).usrLow = c.usrLow /\ WithPsr(c, p).fiqLow = c.fiqLow
  BY DEF WithPsr, Cpu
<1> QED
  BY <1>1 DEF View

\* The file of a cpu holds its views.
LEMMA FileHoldsViews ==
    ASSUME NEW c \in Cpu
    PROVE  /\ FileOf(c) \in [File!Physical -> Values]
           /\ \A g \in Groups, r \in Regs : /\ Phys(g, r) \in File!Physical
                                            /\ FileOf(c)[Phys(g, r)] = View(c, g, r)
<1>1. File!Physical = {Phys(g, r) : g \in Groups, r \in Regs}
  BY DEF File!Physical, File!Phys, File!Regs, Phys, Regs
<1>2. ASSUME NEW g \in Groups, NEW r \in Regs
      PROVE  /\ View(c, g, r) \in Values
             /\ View(c, Phys(g, r)[1], Phys(g, r)[2]) = View(c, g, r)
  <2>1. /\ c.regs \in [Regs -> Values] /\ c.bank \in [Groups -> [Banked -> Values]]
        /\ c.usrLow \in [Low -> Values] /\ c.fiqLow \in [Low -> Values]
    BY DEF Cpu
  <2>2. View(c, g, r) \in Values
    BY <2>1, Names DEF View
  <2>3. CASE r \in Low /\ g # "fiq"
    <3>1. Phys(g, r)[1] = "usr" /\ Phys(g, r)[2] = r /\ r \notin Banked
      BY <2>3, Names DEF Phys
    <3> QED
      BY <2>2, <2>3, <3>1 DEF View
  <2>4. CASE ~(r \in Low /\ g # "fiq")
    <3>1. Phys(g, r)[1] = g /\ Phys(g, r)[2] = r
      BY <2>4 DEF Phys
    <3> QED
      BY <2>2, <3>1
  <2> QED
    BY <2>3, <2>4
<1>3. \A p \in File!Physical : FileOf(c)[p] = View(c, p[1], p[2])
  BY <1>1 DEF FileOf
<1>4. \A p \in File!Physical : FileOf(c)[p] \in Values
  BY <1>1, <1>2, <1>3
<1>5. FileOf(c) \in [File!Physical -> Values]
  <2>1. FileOf(c) = [p \in File!Physical |-> View(c, p[1], p[2])]
    BY <1>1 DEF FileOf
  <2>2. \A p \in File!Physical : View(c, p[1], p[2]) \in Values
    BY <1>3, <1>4
  <2> QED
    BY <2>1, <2>2
<1> QED
  BY <1>1, <1>2, <1>3, <1>5

\* From views to the file: what OnlyWrites of RegisterFile asks for.
LEMMA Frame ==
    ASSUME NEW c \in Cpu, NEW d \in Cpu, NEW P,
           \A g \in Groups, r \in Regs : View(d, g, r) = View(c, g, r) \/ Phys(g, r) \in P
    PROVE  /\ FileOf(d) \in [File!Physical -> Values]
           /\ \A p \in File!Physical \ P : FileOf(d)[p] = FileOf(c)[p]
<1>1. File!Physical = {Phys(g, r) : g \in Groups, r \in Regs}
  BY DEF File!Physical, File!Phys, File!Regs, Phys, Regs
<1>2. ASSUME NEW p \in File!Physical \ P PROVE FileOf(d)[p] = FileOf(c)[p]
  <2>1. PICK g \in Groups, r \in Regs : p = Phys(g, r)
    BY <1>1
  <2>2. View(d, g, r) = View(c, g, r)
    BY <2>1
  <2> QED
    BY <2>1, <2>2, FileHoldsViews
<1> QED
  BY <1>2, FileHoldsViews

-----------------------------------------------------------------------------
(***************************************************************************)
(* Each action: the cpu stays a Cpu, and which physical registers change.  *)
(***************************************************************************)
\* Physical registers of a group.
Own(g) == {Phys(g, r) : r \in Regs}

\* An exception changes the r14 of the mode it enters only.
LEMMA ExceptionWritesLr ==
    ASSUME TypeOK, NEW g \in {"irq", "svc"}, NEW ret \in Values, TakeException(g, ret)
    PROVE  /\ cpu' \in Cpu /\ spsr' \in [Exceptions -> Psr \cup {NoPsr}]
           /\ cpu'.psr = [mode |-> g, masked |-> TRUE]
           /\ \A k \in Groups, r \in Regs :
                View(cpu', k, r) = View(cpu, k, r) \/ Phys(k, r) \in {Phys(g, "lr")}
<1> DEFINE a == Switched(cpu, g)
           w == [r \in {"lr"} |-> ret]
           b == WithRegs(a, w)
           p == [mode |-> g, masked |-> TRUE]
           d == WithPsr(b, p)
<1>1. g \in Modes /\ g \in Groups /\ Group(g) = g /\ cpu \in Cpu /\ cpu.psr \in Psr
  BY Names DEF TypeOK, Cpu
<1>2. /\ a \in Cpu /\ a.psr.mode = g
      /\ \A k \in Groups, r \in Regs : View(a, k, r) = View(cpu, k, r)
  BY <1>1, SwitchKeepsFile
<1>3. w \in [{"lr"} -> Values]
  OBVIOUS
<1> HIDE DEF a, w
<1>4. /\ b \in Cpu /\ b.psr = a.psr
      /\ \A k \in Groups, r \in Regs :
           \/ View(b, k, r) = View(a, k, r)
           \/ r \in {"lr"} /\ Phys(k, r) = Phys(Group(a.psr.mode), r)
  BY <1>2, <1>3, WriteKeepsOthers
<1>5. p \in Psr /\ p.mode = g
  BY <1>1 DEF Psr
<1> HIDE DEF b, p
<1>6. /\ d \in Cpu /\ d.psr = p
      /\ \A k \in Groups, r \in Regs : View(d, k, r) = View(b, k, r)
  BY <1>2, <1>4, <1>5, PsrKeepsFile
<1>7. cpu' = d
  BY DEF TakeException, a, b, w, p
<1>8. spsr' \in [Exceptions -> Psr \cup {NoPsr}]
  BY <1>1 DEF TakeException, TypeOK
<1> HIDE DEF d
<1>9. ASSUME NEW k \in Groups, NEW r \in Regs
      PROVE  View(d, k, r) = View(cpu, k, r) \/ Phys(k, r) \in {Phys(g, "lr")}
  BY <1>1, <1>2, <1>4, <1>6
<1> QED
  BY <1>6, <1>7, <1>8, <1>9 DEF p

\* Switching to the mode of a PSR and setting it changes no register.
LEMMA EnterKeepsFile ==
    ASSUME NEW c \in Cpu, NEW p \in Psr
    PROVE  LET d == WithPsr(Switched(c, p.mode), p)
           IN  /\ d \in Cpu /\ d.psr = p
               /\ \A g \in Groups, r \in Regs : View(d, g, r) = View(c, g, r)
<1> DEFINE a == Switched(c, p.mode)
<1>1. p.mode \in Modes
  BY DEF Psr
<1>2. /\ a \in Cpu /\ a.psr.mode = p.mode
      /\ \A g \in Groups, r \in Regs : View(a, g, r) = View(c, g, r)
  BY <1>1, SwitchKeepsFile
<1> HIDE DEF a
<1>3. /\ WithPsr(a, p) \in Cpu /\ WithPsr(a, p).psr = p
      /\ \A g \in Groups, r \in Regs : View(WithPsr(a, p), g, r) = View(a, g, r)
  BY <1>2, PsrKeepsFile
<1> QED
  BY <1>2, <1>3 DEF a

\* What a program returns to is a PSR.
LEMMA ReturnsToPsr ==
    ASSUME TypeOK, MayReturn
    PROVE  GetSpsr \in Psr
<1>1. cpu.psr \in Psr
  BY DEF TypeOK, Cpu
<1>2. Here \in Groups
  BY <1>1, Names DEF Here, Psr
<1>3. CASE Here = "usr"
  BY <1>1, <1>3 DEF GetSpsr
<1>4. CASE Here # "usr"
  <2>1. Here \in Exceptions
    BY <1>2, <1>4 DEF Exceptions
  <2> QED
    BY <1>4, <2>1 DEF GetSpsr, TypeOK, MayReturn
<1> QED
  BY <1>3, <1>4

\* What instructions load are registers' values.
LEMMA LoadsAreWrites ==
    /\ \A w \in Loads : \E R : w \in [R -> Values]
    /\ \A w \in Backs : w \in [{} -> Values] \/ \E r \in Regs : w \in [{r} -> Values]
<1>1. \A w \in Loads : \E R : w \in [R -> Values]
  BY DEF Loads
<1>2. ASSUME NEW w \in Backs
      PROVE  w \in [{} -> Values] \/ \E r \in Regs : w \in [{r} -> Values]
  <2>1. PICK R \in {{}} \cup {{r} : r \in Regs} : w \in [R -> Values]
    BY DEF Backs
  <2> QED
    BY <2>1
<1> QED
  BY <1>1, <1>2

\* A block load that returns changes registers of the mode it leaves, and one
\* of the mode it enters.
LEMMA ReturnByLoadWrites ==
    ASSUME TypeOK, NEW w \in Loads, NEW back \in Backs, ReturnByLoad(w, back)
    PROVE  /\ cpu' \in Cpu /\ cpu'.psr = GetSpsr
           /\ \E r \in Regs : \A g \in Groups, x \in Regs :
                \/ View(cpu', g, x) = View(cpu, g, x)
                \/ Phys(g, x) \in Own(Here) \cup {Phys(Group(cpu'.psr.mode), r)}
<1> DEFINE a == WithRegs(cpu, w)
           p == GetSpsr
           b == WithPsr(Switched(a, p.mode), p)
           d == WithRegs(b, back)
<1>1. cpu \in Cpu /\ p \in Psr
  BY ReturnsToPsr DEF TypeOK, ReturnByLoad
<1>2. PICK R : w \in [R -> Values]
  BY LoadsAreWrites
<1>3. PICK r \in Regs : \/ back \in [{} -> Values]
                        \/ back \in [{r} -> Values]
  BY LoadsAreWrites, Names
<1>4. PICK S : back \in [S -> Values] /\ S \subseteq {r}
  BY <1>3
<1>5. cpu' = d
  BY DEF ReturnByLoad
<1> HIDE DEF p
<1>6. /\ a \in Cpu
      /\ \A g \in Groups, x \in Regs :
           \/ View(a, g, x) = View(cpu, g, x)
           \/ x \in R /\ Phys(g, x) = Phys(Group(cpu.psr.mode), x)
  BY <1>1, <1>2, WriteKeepsOthers
<1> HIDE DEF a
<1>7. /\ b \in Cpu /\ b.psr = p
      /\ \A g \in Groups, x \in Regs : View(b, g, x) = View(a, g, x)
  BY <1>1, <1>6, EnterKeepsFile
<1> HIDE DEF b
<1>8. /\ d \in Cpu /\ d.psr = b.psr
      /\ \A g \in Groups, x \in Regs :
           \/ View(d, g, x) = View(b, g, x)
           \/ x \in S /\ Phys(g, x) = Phys(Group(b.psr.mode), x)
  BY <1>4, <1>7, WriteKeepsOthers
<1> HIDE DEF d
<1>9. ASSUME NEW g \in Groups, NEW x \in Regs
      PROVE  \/ View(d, g, x) = View(cpu, g, x)
             \/ Phys(g, x) \in Own(Here) \cup {Phys(Group(d.psr.mode), r)}
  <2>1. CASE View(d, g, x) = View(b, g, x)
    BY <1>6, <1>7, <2>1 DEF Own, Here
  <2>2. CASE x \in S /\ Phys(g, x) = Phys(Group(b.psr.mode), x)
    BY <1>4, <1>8, <2>2
  <2> QED
    BY <1>8, <2>1, <2>2
<1> QED
  BY <1>5, <1>7, <1>8, <1>9 DEF p

\* A transfer of user registers changes user registers only, and no PSR.
LEMMA UserBlockWrites ==
    ASSUME TypeOK, NEW w \in Loads
    PROVE  /\ UserBlock(w) \in Cpu /\ UserBlock(w).psr = cpu.psr
           /\ \A g \in Groups, x \in Regs :
                View(UserBlock(w), g, x) = View(cpu, g, x) \/ Phys(g, x) \in Own("usr")
<1> DEFINE a == Switched(cpu, "usr")
           b == WithRegs(a, w)
           d == Switched(b, cpu.psr.mode)
<1>1. cpu \in Cpu /\ cpu.psr \in Psr /\ cpu.psr.mode \in Modes /\ "usr" \in Modes
  BY Names DEF TypeOK, Cpu, Psr
<1>2. PICK R : w \in [R -> Values]
  BY LoadsAreWrites
<1>3. /\ a \in Cpu /\ a.psr.mode = "usr" /\ a.psr.masked = cpu.psr.masked
      /\ \A g \in Groups, x \in Regs : View(a, g, x) = View(cpu, g, x)
  BY <1>1, SwitchKeepsFile
<1> HIDE DEF a
<1>4. /\ b \in Cpu /\ b.psr = a.psr
      /\ \A g \in Groups, x \in Regs :
           \/ View(b, g, x) = View(a, g, x)
           \/ x \in R /\ Phys(g, x) = Phys(Group(a.psr.mode), x)
  BY <1>2, <1>3, WriteKeepsOthers
<1> HIDE DEF b
<1>5. /\ d \in Cpu /\ d.psr.mode = cpu.psr.mode /\ d.psr.masked = b.psr.masked
      /\ \A g \in Groups, x \in Regs : View(d, g, x) = View(b, g, x)
  BY <1>1, <1>4, SwitchKeepsFile
<1>6. UserBlock(w) = d
  BY DEF UserBlock, a, b
<1> HIDE DEF d
<1>7. d.psr = cpu.psr
  <2>1. d.psr \in Psr
    BY <1>5 DEF Cpu
  <2> QED
    BY <1>1, <1>3, <1>4, <1>5, <2>1 DEF Psr
<1>8. Group("usr") = "usr"
  BY Names
<1>9. ASSUME NEW g \in Groups, NEW x \in Regs
      PROVE  View(d, g, x) = View(cpu, g, x) \/ Phys(g, x) \in Own("usr")
  BY <1>3, <1>4, <1>5, <1>8 DEF Own
<1> QED
  BY <1>5, <1>6, <1>7, <1>9

-----------------------------------------------------------------------------
(***************************************************************************)
(* Type correctness.                                                       *)
(***************************************************************************)
\* Cpu::new and Cpu::reset make a Cpu, in supervisor mode.
LEMMA PowerOnIsCpu == PowerOn \in Cpu /\ Group(PowerOn.psr.mode) = "svc"
<1> DEFINE regs == [r \in Regs |-> IF r = "sp" THEN Top ELSE Zero]
           psr == [mode |-> "svc", masked |-> TRUE]
           bank == [g \in Groups |-> [r \in Banked |->
                     IF r = "sp" /\ g \in {"usr", "irq", "svc"} THEN Top ELSE Zero]]
           low == [r \in Low |-> Zero]
<1>1. regs \in [Regs -> Values] /\ bank \in [Groups -> [Banked -> Values]]
      /\ low \in [Low -> Values]
  BY Names
<1>2. psr \in Psr /\ psr.mode = "svc" /\ Group("svc") = "svc"
  BY Names DEF Psr
<1> HIDE DEF regs, psr, bank, low
<1>3. PowerOn = [regs |-> regs, psr |-> psr, bank |-> bank, usrLow |-> low, fiqLow |-> low]
  BY DEF PowerOn, regs, psr, bank, low
<1> QED
  BY <1>1, <1>2, <1>3 DEF Cpu

\* Every register holds a value and every PSR names an existing mode.
THEOREM TypeCorrect == Spec => []TypeOK
<1>1. Init => TypeOK
  BY PowerOnIsCpu DEF Init, TypeOK
<1>2. TypeOK /\ [Next]_vars => TypeOK'
  <2> SUFFICES ASSUME TypeOK, [Next]_vars PROVE TypeOK'
    OBVIOUS
  <2>1. ASSUME NEW ret \in Values, TakeIrq(ret) \/ SoftwareInterrupt(ret) PROVE TypeOK'
    BY <2>1, ExceptionWritesLr DEF TakeIrq, SoftwareInterrupt, TypeOK
  <2>2. CASE ReturnByMove
    <3>1. GetSpsr \in Psr /\ cpu \in Cpu
      BY <2>2, ReturnsToPsr DEF ReturnByMove, TypeOK
    <3>2. WithPsr(Switched(cpu, GetSpsr.mode), GetSpsr) \in Cpu
      BY <3>1, EnterKeepsFile
    <3> QED
      BY <2>2, <3>2 DEF ReturnByMove, TypeOK
  <2>3. ASSUME NEW w \in Loads, TransferUserRegs(w) PROVE TypeOK'
    BY <2>3, UserBlockWrites DEF TransferUserRegs, TypeOK
  <2>4. ASSUME NEW w \in Loads, Execute(w) PROVE TypeOK'
    <3>1. PICK R : w \in [R -> Values]
      BY LoadsAreWrites
    <3>2. WithRegs(cpu, w) \in Cpu
      BY <3>1, WriteKeepsOthers DEF TypeOK
    <3> QED
      BY <2>4, <3>2 DEF Execute, TypeOK
  <2>5. ASSUME NEW w \in Loads, NEW back \in Backs, ReturnByLoad(w, back) PROVE TypeOK'
    <3>1. cpu' \in Cpu
      BY <2>5, ReturnByLoadWrites
    <3> QED
      BY <2>5, <3>1 DEF ReturnByLoad, TypeOK
  <2>6. ASSUME NEW p \in GuestPsrs, MsrCpsr(p) PROVE TypeOK'
    <3>1. p \in Psr
      BY PsrAssumption
    <3>2. WithPsr(Switched(cpu, p.mode), p) \in Cpu
      BY <3>1, EnterKeepsFile DEF TypeOK
    <3> QED
      BY <2>6, <3>2 DEF MsrCpsr, TypeOK
  <2>7. ASSUME NEW p \in GuestPsrs, MsrSpsr(p) PROVE TypeOK'
    BY <2>7, PsrAssumption DEF MsrSpsr, TypeOK
  <2>8. CASE Reset
    BY <2>8, PowerOnIsCpu DEF Reset, TypeOK
  <2>9. CASE UNCHANGED vars
    BY <2>9 DEF vars, TypeOK
  <2> QED
    BY <2>1, <2>2, <2>3, <2>4, <2>5, <2>6, <2>7, <2>8, <2>9 DEF Next
<1> QED
  BY <1>1, <1>2, PTL DEF Spec

-----------------------------------------------------------------------------
(***************************************************************************)
(* User mode.                                                              *)
(***************************************************************************)
\* arm_psr_transfer and the returns keep a user program in user mode; only
\* check_irq, software_interrupt and a reset take it out.
THEOREM UserIsConfined == Spec => UserLeavesByException
<1> DEFINE A == cpu.psr.mode = "usr" /\ cpu'.psr.mode # "usr" =>
                  \/ cpu' = PowerOn
                  \/ /\ cpu'.psr.mode \in {"irq", "svc"} /\ cpu'.psr.masked
                     /\ spsr'[cpu'.psr.mode] = cpu.psr
<1>1. TypeOK /\ [Next]_vars => [A]_vars
  <2> SUFFICES ASSUME TypeOK, Next, cpu.psr.mode = "usr", cpu'.psr.mode # "usr"
               PROVE  \/ cpu' = PowerOn
                      \/ /\ cpu'.psr.mode \in {"irq", "svc"} /\ cpu'.psr.masked
                         /\ spsr'[cpu'.psr.mode] = cpu.psr
    OBVIOUS
  <2>0. Here = "usr" /\ GetSpsr = cpu.psr /\ cpu \in Cpu
    BY DEF Here, Group, GetSpsr, TypeOK
  <2>1. ASSUME NEW g \in {"irq", "svc"}, NEW ret \in Values, TakeException(g, ret)
        PROVE  /\ cpu'.psr.mode \in {"irq", "svc"} /\ cpu'.psr.masked
               /\ spsr'[cpu'.psr.mode] = cpu.psr
    <3>1. cpu'.psr = [mode |-> g, masked |-> TRUE]
      BY <2>1, ExceptionWritesLr
    <3>2. g \in Exceptions
      BY Names DEF Exceptions
    <3>3. spsr'[g] = cpu.psr
      BY <2>1, <3>2 DEF TakeException, TypeOK
    <3> QED
      BY <3>1, <3>3
  <2>2. ASSUME ReturnByMove PROVE FALSE
    <3>1. cpu'.psr = cpu.psr
      <4>1. GetSpsr \in Psr
        BY <2>2, ReturnsToPsr DEF ReturnByMove
      <4>2. WithPsr(Switched(cpu, GetSpsr.mode), GetSpsr).psr = GetSpsr
        BY <2>0, <4>1, EnterKeepsFile
      <4> QED
        BY <2>0, <2>2, <4>2 DEF ReturnByMove
    <3> QED
      BY <3>1
  <2>3. ASSUME NEW w \in Loads, TransferUserRegs(w) PROVE FALSE
    BY <2>3, UserBlockWrites DEF TransferUserRegs
  <2>4. ASSUME NEW w \in Loads, Execute(w) PROVE FALSE
    <3>1. PICK R : w \in [R -> Values]
      BY LoadsAreWrites
    <3>2. WithRegs(cpu, w).psr = cpu.psr
      BY <2>0, <3>1, WriteKeepsOthers
    <3> QED
      BY <2>4, <3>2 DEF Execute
  <2>5. ASSUME NEW w \in Loads, NEW back \in Backs, ReturnByLoad(w, back) PROVE FALSE
    <3>1. cpu'.psr = GetSpsr
      BY <2>5, ReturnByLoadWrites
    <3> QED
      BY <2>0, <3>1
  <2>6. \A p : ~MsrCpsr(p)
    BY DEF MsrCpsr, Privileged
  <2>7. \A p : ~MsrSpsr(p)
    BY DEF MsrSpsr, Privileged
  <2>8. Reset => cpu' = PowerOn
    BY DEF Reset
  <2> QED
    BY <2>1, <2>2, <2>3, <2>4, <2>5, <2>6, <2>7, <2>8
    DEF Next, TakeIrq, SoftwareInterrupt
<1> QED
  BY <1>1, TypeCorrect, PTL DEF Spec, UserLeavesByException

-----------------------------------------------------------------------------
(***************************************************************************)
(* Refinement.                                                             *)
(***************************************************************************)
\* OnlyWrites of RegisterFile, of the cpu.
LEMMA OnlyWritesOf ==
    ASSUME cpu \in Cpu, cpu' \in Cpu, NEW P,
           \A g \in Groups, r \in Regs : View(cpu', g, r) = View(cpu, g, r) \/ Phys(g, r) \in P
    PROVE  File!OnlyWrites(P)
<1>1. /\ FileOf(cpu') \in [File!Physical -> Values]
      /\ \A p \in File!Physical \ P : FileOf(cpu')[p] = FileOf(cpu)[p]
  BY Frame
<1> QED
  BY <1>1 DEF File!OnlyWrites

\* A step that changes no register is a File!Enter, or a stuttering step.
LEMMA SilentEnter ==
    ASSUME cpu \in Cpu, cpu' \in Cpu,
           \A g \in Groups, r \in Regs : View(cpu', g, r) = View(cpu, g, r)
    PROVE  File!Enter
<1>1. Here' \in Groups
  BY Names DEF Here, Cpu, Psr
<1>2. File!OnlyWrites({File!Phys(Here', "lr")})
  BY OnlyWritesOf
<1> QED
  BY <1>1, <1>2 DEF File!Enter

\* switch_mode and the actions built on it implement one file of banked
\* registers.
THEOREM Refinement == Spec => BanksAreOneFile
<1>1. Init => File!Init
  BY PowerOnIsCpu DEF Init, File!Init, Here
<1>2. TypeOK /\ TypeOK' /\ [Next]_vars => [File!Next]_(File!vars)
  <2> SUFFICES ASSUME TypeOK, TypeOK', [Next]_vars PROVE [File!Next]_(File!vars)
    OBVIOUS
  <2>0. /\ cpu \in Cpu /\ cpu' \in Cpu /\ Here \in Groups /\ Here' \in Groups
        /\ Here' = Group(cpu'.psr.mode)
        /\ \A g, r : File!Phys(g, r) = Phys(g, r)
        /\ \A g : File!Owned(g) = Own(g)
    BY Names DEF TypeOK, Cpu, Psr, Here, File!Phys, Phys, File!Owned, Own, File!Regs, Regs
  <2>1. ASSUME NEW ret \in Values, TakeIrq(ret) \/ SoftwareInterrupt(ret) PROVE File!Enter
    <3>1. PICK g \in {"irq", "svc"} : TakeException(g, ret)
      BY <2>1 DEF TakeIrq, SoftwareInterrupt
    <3>2. /\ cpu'.psr = [mode |-> g, masked |-> TRUE]
          /\ \A k \in Groups, r \in Regs :
               View(cpu', k, r) = View(cpu, k, r) \/ Phys(k, r) \in {Phys(g, "lr")}
      BY <3>1, ExceptionWritesLr
    <3>3. Here' = g
      BY <2>0, <3>2, Names
    <3>4. File!OnlyWrites({Phys(g, "lr")})
      BY <2>0, <3>2, OnlyWritesOf
    <3> QED
      BY <2>0, <3>3, <3>4 DEF File!Enter
  <2>2. CASE ReturnByMove
    <3>1. GetSpsr \in Psr
      BY <2>2, ReturnsToPsr DEF ReturnByMove
    <3>2. \A g \in Groups, r \in Regs : View(cpu', g, r) = View(cpu, g, r)
      BY <2>0, <2>2, <3>1, EnterKeepsFile DEF ReturnByMove
    <3> QED
      BY <2>0, <3>2, SilentEnter DEF File!Next
  <2>3. ASSUME NEW w \in Loads, TransferUserRegs(w) PROVE File!Execute
    <3>1. /\ cpu'.psr = cpu.psr
          /\ \A g \in Groups, r \in Regs :
               View(cpu', g, r) = View(cpu, g, r) \/ Phys(g, r) \in Own("usr")
      BY <2>3, UserBlockWrites DEF TransferUserRegs
    <3>2. Here' = Here
      BY <3>1 DEF Here
    <3>3. File!OnlyWrites(Own("usr"))
      BY <2>0, <3>1, OnlyWritesOf
    <3> QED
      BY <2>0, <3>2, <3>3 DEF File!Execute
  <2>4. ASSUME NEW w \in Loads, Execute(w) PROVE File!Execute
    <3>1. PICK R : w \in [R -> Values]
      BY LoadsAreWrites
    <3>2. /\ cpu'.psr = cpu.psr
          /\ \A g \in Groups, r \in Regs :
               \/ View(cpu', g, r) = View(cpu, g, r)
               \/ r \in R /\ Phys(g, r) = Phys(Here, r)
      BY <2>0, <2>4, <3>1, WriteKeepsOthers DEF Execute, Here
    <3>3. Here' = Here
      BY <3>2 DEF Here
    <3>4. \A g \in Groups, r \in Regs :
            View(cpu', g, r) = View(cpu, g, r) \/ Phys(g, r) \in Own(Here)
      BY <3>2 DEF Own
    <3>5. File!OnlyWrites(Own(Here))
      BY <2>0, <3>4, OnlyWritesOf
    <3> QED
      BY <2>0, <3>3, <3>5 DEF File!Execute
  <2>5. ASSUME NEW w \in Loads, NEW back \in Backs, ReturnByLoad(w, back)
        PROVE  File!LoadAndEnter
    <3>1. PICK r \in Regs : \A g \in Groups, x \in Regs :
            \/ View(cpu', g, x) = View(cpu, g, x)
            \/ Phys(g, x) \in Own(Here) \cup {Phys(Group(cpu'.psr.mode), r)}
      BY <2>5, ReturnByLoadWrites
    <3>2. File!OnlyWrites(Own(Here) \cup {Phys(Here', r)})
      BY <2>0, <3>1, OnlyWritesOf
    <3>3. r \in File!Regs
      BY DEF File!Regs, Regs
    <3> QED
      BY <2>0, <3>2, <3>3 DEF File!LoadAndEnter
  <2>6. ASSUME NEW p \in GuestPsrs, MsrCpsr(p) PROVE File!Enter
    <3>1. p \in Psr
      BY PsrAssumption
    <3>2. \A g \in Groups, r \in Regs : View(cpu', g, r) = View(cpu, g, r)
      BY <2>0, <2>6, <3>1, EnterKeepsFile DEF MsrCpsr
    <3> QED
      BY <2>0, <3>2, SilentEnter
  <2>7. ASSUME NEW p \in GuestPsrs, MsrSpsr(p) PROVE UNCHANGED File!vars
    BY <2>7 DEF MsrSpsr, File!vars, Here
  <2>8. CASE Reset
    BY <2>8, PowerOnIsCpu DEF Reset, File!Reset, File!Next, Here
  <2>9. CASE UNCHANGED vars
    BY <2>9 DEF vars, File!vars, Here
  <2> QED
    BY <2>1, <2>2, <2>3, <2>4, <2>5, <2>6, <2>7, <2>8, <2>9 DEF Next, File!Next
<1> QED
  BY <1>1, <1>2, TypeCorrect, PTL DEF Spec, BanksAreOneFile, File!Spec

-----------------------------------------------------------------------------
(***************************************************************************)
(* Alu                                                                     *)
(***************************************************************************)
-----------------------------------------------------------------------------
(***************************************************************************)
(* One word.                                                               *)
(***************************************************************************)
\* What the proofs use of the constants.
LEMMA Constants ==
    /\ Half \in Nat \ {0} /\ Modulus \in Nat \ {0} /\ Modulus = 2 * Half
    /\ \A x \in Word : x \in Int /\ 0 <= x /\ x < Modulus
    /\ 0 \in Word
BY ShifterAssumption, SMT DEF Modulus, Word

\* Remainders close to the divisor.
LEMMA NearMod ==
    ASSUME NEW k \in Int, NEW M \in Nat \ {0}, -M <= k, k < 2 * M
    PROVE  k % M = IF k < 0 THEN k + M ELSE IF k < M THEN k ELSE k - M
BY SMT

LEMMA FlagsAreBoolean ==
    ASSUME NEW f \in Flags
    PROVE  f.n \in BOOLEAN /\ f.z \in BOOLEAN /\ f.c \in BOOLEAN /\ f.v \in BOOLEAN
BY DEF Flags

\* The result and the flags of an arithmetic instruction.
LEMMA OutcomeIs ==
    ASSUME NEW f \in Flags, NEW r, NEW c \in BOOLEAN, NEW v \in BOOLEAN
    PROVE  /\ Outcome(f, r, c, v).result = r /\ Outcome(f, r, c, v).flags \in Flags
           /\ Outcome(f, r, c, v).flags.n <=> Sign(r)
           /\ Outcome(f, r, c, v).flags.z <=> r = 0
           /\ Outcome(f, r, c, v).flags.c <=> c
           /\ Outcome(f, r, c, v).flags.v <=> v
<1> DEFINE n == Sign(r)
           z == r = 0
           nz == [f EXCEPT !.n = n, !.z = z]
           all == [nz EXCEPT !.c = c, !.v = v]
<1>1. n \in BOOLEAN /\ z \in BOOLEAN
  BY DEF Sign
<1>2. Outcome(f, r, c, v).flags = all /\ Outcome(f, r, c, v).result = r
  BY DEF Outcome, SetNZ
<1> HIDE DEF n, z
<1>3. nz \in Flags /\ nz.n = n /\ nz.z = z
  BY <1>1 DEF Flags
<1> HIDE DEF nz
<1>4. all \in Flags /\ all.n = nz.n /\ all.z = nz.z /\ all.c = c /\ all.v = v
  BY <1>3 DEF Flags
<1> HIDE DEF all
<1> QED
  BY <1>2, <1>3, <1>4 DEF n, z

\* Signs and overflow of a difference with borrow.
LEMMA SignedDifference ==
    ASSUME NEW a \in Word, NEW b \in Word, NEW c \in {0, 1}, NEW r \in Word,
           r = IF a - b - 1 + c < 0 THEN a - b - 1 + c + Modulus ELSE a - b - 1 + c
    PROVE  LET d == Signed(a) - Signed(b) - (1 - c)
               v == Sign(a) # Sign(b) /\ Sign(a) # Sign(r)
           IN  /\ v <=> ~(-Half <= d /\ d < Half)
               /\ (Sign(r) # v) <=> d < 0
<1>1. /\ Half \in Nat \ {0} /\ Modulus = 2 * Half
      /\ a \in Int /\ 0 <= a /\ a < Modulus /\ b \in Int /\ 0 <= b /\ b < Modulus
      /\ r \in Int /\ 0 <= r /\ r < Modulus
  BY Constants
<1>2. CASE Sign(a) /\ Sign(b)
  BY <1>1, <1>2, SMT DEF Sign, Signed
<1>3. CASE Sign(a) /\ ~Sign(b)
  BY <1>1, <1>3, SMT DEF Sign, Signed
<1>4. CASE ~Sign(a) /\ Sign(b)
  BY <1>1, <1>4, SMT DEF Sign, Signed
<1>5. CASE ~Sign(a) /\ ~Sign(b)
  BY <1>1, <1>5, SMT DEF Sign, Signed
<1> QED
  BY <1>2, <1>3, <1>4, <1>5

\* Overflow of a sum with carry.
LEMMA SignedSum ==
    ASSUME NEW a \in Word, NEW b \in Word, NEW c \in {0, 1}, NEW r \in Word,
           r = IF a + b + c < Modulus THEN a + b + c ELSE a + b + c - Modulus
    PROVE  LET d == Signed(a) + Signed(b) + c
           IN  (Sign(a) # Sign(r) /\ Sign(b) # Sign(r)) <=> ~(-Half <= d /\ d < Half)
<1>1. /\ Half \in Nat \ {0} /\ Modulus = 2 * Half
      /\ a \in Int /\ 0 <= a /\ a < Modulus /\ b \in Int /\ 0 <= b /\ b < Modulus
      /\ r \in Int /\ 0 <= r /\ r < Modulus
  BY Constants
<1>2. CASE Sign(a) /\ Sign(b)
  BY <1>1, <1>2, SMT DEF Sign, Signed
<1>3. CASE Sign(a) /\ ~Sign(b)
  BY <1>1, <1>3, SMT DEF Sign, Signed
<1>4. CASE ~Sign(a) /\ Sign(b)
  BY <1>1, <1>4, SMT DEF Sign, Signed
<1>5. CASE ~Sign(a) /\ ~Sign(b)
  BY <1>1, <1>5, SMT DEF Sign, Signed
<1> QED
  BY <1>2, <1>3, <1>4, <1>5

\* SBC and, with C set, SUB and CMP: the result, the borrow, overflow as the
\* signed difference has it, and N and V together its sign.
LEMMA Difference ==
    ASSUME NEW f \in Flags, NEW a \in Word, NEW b \in Word,
           NEW out, out = SbcWithFlags(f, a, b),
           NEW c, c = Carry(f),
           NEW d, d = Signed(a) - Signed(b) - (1 - c)
    PROVE  /\ out.result \in Word /\ out.flags \in Flags
           /\ a - b - (1 - c) = out.result - (1 - Carry(out.flags)) * Modulus
           /\ out.flags.v <=> ~(-Half <= d /\ d < Half)
           /\ (out.flags.n # out.flags.v) <=> d < 0
           /\ out.flags.z <=> out.result = 0
<1> DEFINE k == a - b - 1 + c
           r == k % Modulus
           ge == a >= b + (1 - c)
           v == Sign(a) # Sign(b) /\ Sign(a) # Sign(r)
<1>1. c \in {0, 1}
  BY DEF Carry
<1>2. /\ a \in Int /\ 0 <= a /\ a < Modulus /\ b \in Int /\ 0 <= b /\ b < Modulus
      /\ Modulus \in Nat \ {0}
  BY Constants
<1>3. k \in Int /\ -Modulus <= k /\ k < Modulus
  BY <1>1, <1>2, SMT
<1>4. out = Outcome(f, r, ge, v)
  BY DEF SbcWithFlags
<1>40. ge \in BOOLEAN /\ v \in BOOLEAN
  OBVIOUS
<1> HIDE DEF ge, v
<1>5. r = IF k < 0 THEN k + Modulus ELSE k
  <2> HIDE DEF k
  <2>1. k < 2 * Modulus
    BY <1>2, <1>3, SMT
  <2> QED
    BY <1>2, <1>3, <2>1, NearMod
<1> HIDE DEF r
<1>6. r \in Int /\ 0 <= r /\ r < Modulus /\ r \in Word
  BY <1>2, <1>3, <1>5, SMT DEF Word
<1> HIDE DEF k
<1>70. /\ Outcome(f, r, ge, v).result = r /\ Outcome(f, r, ge, v).flags \in Flags
       /\ Outcome(f, r, ge, v).flags.n <=> Sign(r)
       /\ Outcome(f, r, ge, v).flags.z <=> r = 0
       /\ Outcome(f, r, ge, v).flags.c <=> ge
       /\ Outcome(f, r, ge, v).flags.v <=> v
  <2> SUFFICES ASSUME NEW q, NEW x \in BOOLEAN, NEW y \in BOOLEAN
               PROVE  LET o == Outcome(f, q, x, y)
                      IN  /\ o.result = q /\ o.flags \in Flags
                          /\ o.flags.n <=> Sign(q)
                          /\ o.flags.z <=> q = 0
                          /\ o.flags.c <=> x
                          /\ o.flags.v <=> y
    BY <1>40
  <2> QED
    BY OutcomeIs
<1>7. /\ out.result = r /\ out.flags \in Flags
      /\ out.flags.n <=> Sign(r)
      /\ out.flags.z <=> r = 0
      /\ out.flags.c <=> ge
      /\ out.flags.v <=> v
  BY <1>4, <1>70
<1>8. Carry(out.flags) = IF ge THEN 1 ELSE 0
  BY <1>7 DEF Carry
<1>9. a - b - (1 - c) = r - (1 - Carry(out.flags)) * Modulus
  BY <1>1, <1>2, <1>5, <1>6, <1>8, SMT DEF ge, k
<1>10. r = IF a - b - 1 + c < 0 THEN a - b - 1 + c + Modulus ELSE a - b - 1 + c
  BY <1>1, <1>2, <1>5, SMT DEF k
<1>11. /\ v <=> ~(-Half <= Signed(a) - Signed(b) - (1 - c)
                  /\ Signed(a) - Signed(b) - (1 - c) < Half)
       /\ (Sign(r) # v) <=> Signed(a) - Signed(b) - (1 - c) < 0
  BY <1>1, <1>6, <1>10, SignedDifference DEF v
<1>12. /\ out.result \in Word /\ out.flags \in Flags
       /\ out.flags.z <=> out.result = 0
  BY <1>6, <1>7
<1>13. a - b - (1 - c) = out.result - (1 - Carry(out.flags)) * Modulus
  BY <1>7, <1>9
<1>14. out.flags.v <=> ~(-Half <= d /\ d < Half)
  BY <1>7, <1>11, Zenon
<1>15. /\ out.flags.n \in BOOLEAN /\ out.flags.v \in BOOLEAN
       /\ Sign(r) \in BOOLEAN
  <2>1. out.flags.n \in BOOLEAN /\ out.flags.v \in BOOLEAN
    BY <1>7, FlagsAreBoolean, Zenon
  <2>2. Sign(r) \in BOOLEAN
    BY DEF Sign
  <2> QED
    BY <2>1, <2>2
<1>16. (out.flags.n # out.flags.v) <=> (Sign(r) # v)
  BY <1>40, <1>7, <1>15
<1>17. (out.flags.n # out.flags.v) <=> d < 0
  BY <1>11, <1>16, Zenon
<1> QED
  BY <1>12, <1>13, <1>14, <1>17

\* ADC and, with C clear, ADD and CMN.
LEMMA Total ==
    ASSUME NEW f \in Flags, NEW a \in Word, NEW b \in Word,
           NEW out, out = AdcWithFlags(f, a, b),
           NEW c, c = Carry(f),
           NEW d, d = Signed(a) + Signed(b) + c
    PROVE  /\ out.result \in Word /\ out.flags \in Flags
           /\ a + b + c = out.result + Carry(out.flags) * Modulus
           /\ out.flags.v <=> ~(-Half <= d /\ d < Half)
<1> DEFINE k == a + b + c
           r == k % Modulus
           ge == k >= Modulus
           v == Sign(a) # Sign(r) /\ Sign(b) # Sign(r)
<1>1. c \in {0, 1}
  BY DEF Carry
<1>2. /\ a \in Int /\ 0 <= a /\ a < Modulus /\ b \in Int /\ 0 <= b /\ b < Modulus
      /\ Modulus \in Nat \ {0}
  BY Constants
<1>3. k \in Int /\ 0 <= k /\ k < 2 * Modulus
  BY <1>1, <1>2, SMT
<1>4. out = Outcome(f, r, ge, v)
  BY DEF AdcWithFlags
<1>40. ge \in BOOLEAN /\ v \in BOOLEAN
  OBVIOUS
<1> HIDE DEF ge, v
<1>5. r = IF k < Modulus THEN k ELSE k - Modulus
  <2> HIDE DEF k
  <2>1. -Modulus <= k /\ ~(k < 0)
    BY <1>2, <1>3, SMT
  <2> QED
    BY <1>2, <1>3, <2>1, NearMod
<1> HIDE DEF r
<1>6. r \in Int /\ 0 <= r /\ r < Modulus /\ r \in Word
  BY <1>2, <1>3, <1>5, SMT DEF Word
<1> HIDE DEF k
<1>70. /\ Outcome(f, r, ge, v).result = r /\ Outcome(f, r, ge, v).flags \in Flags
       /\ Outcome(f, r, ge, v).flags.n <=> Sign(r)
       /\ Outcome(f, r, ge, v).flags.z <=> r = 0
       /\ Outcome(f, r, ge, v).flags.c <=> ge
       /\ Outcome(f, r, ge, v).flags.v <=> v
  BY <1>40, OutcomeIs
<1>7. /\ out.result = r /\ out.flags \in Flags
      /\ out.flags.n <=> Sign(r)
      /\ out.flags.z <=> r = 0
      /\ out.flags.c <=> ge
      /\ out.flags.v <=> v
  BY <1>4, <1>70
<1>8. Carry(out.flags) = IF ge THEN 1 ELSE 0
  BY <1>7 DEF Carry
<1>9. a + b + c = r + Carry(out.flags) * Modulus
  BY <1>1, <1>2, <1>3, <1>5, <1>6, <1>8, SMT DEF ge, k
<1>10. r = IF a + b + c < Modulus THEN a + b + c ELSE a + b + c - Modulus
  BY <1>1, <1>2, <1>5, SMT DEF k
<1>11. v <=> ~(-Half <= Signed(a) + Signed(b) + c /\ Signed(a) + Signed(b) + c < Half)
  BY <1>1, <1>6, <1>10, SignedSum DEF v
<1>12. /\ out.result \in Word /\ out.flags \in Flags
       /\ a + b + c = out.result + Carry(out.flags) * Modulus
  BY <1>6, <1>7, <1>9
<1>13. out.flags.v <=> ~(-Half <= d /\ d < Half)
  BY <1>7, <1>11, Zenon
<1> QED
  BY <1>12, <1>13
-----------------------------------------------------------------------------
(***************************************************************************)
(* Numbers of several words: one more word, above a number below W.        *)
(***************************************************************************)
\* Products with W of what one word can be.
LEMMA Products ==
    ASSUME NEW W \in Nat \ {0}, NEW M \in Nat \ {0}, NEW a \in Int, 0 <= a, a < M
    PROVE  /\ a * W \in Int /\ 0 <= a * W
           /\ W * M \in Nat \ {0}
           /\ a * W + W <= W * M
<1>1. W * M = a * W + (M - a) * W
  BY SMT
<1>2. (M - a) * W >= W
  <2>1. \A j \in Nat \ {0} : j * W >= W
    BY SMT
  <2>2. M - a \in Nat \ {0}
    BY SMT
  <2> DEFINE j == M - a
  <2> HIDE DEF j
  <2>3. j * W >= W
    BY <2>1, <2>2 DEF j
  <2> QED
    BY <2>3 DEF j
<1>3. a * W \in Int /\ 0 <= a * W /\ W * M \in Int /\ (M - a) * W \in Int
  BY SMT
<1> QED
  BY <1>1, <1>2, <1>3, SMT

\* A digit d above a remainder z below W decides the sign and, at h, the size.
LEMMA Leading ==
    ASSUME NEW W \in Nat \ {0}, NEW z \in Int, 0 <= z, z < W, NEW d \in Int, NEW h \in Int
    PROVE  /\ z + d * W \in Int
           /\ z + d * W < h * W <=> d < h
<1> DEFINE e == h - d
<1>1. h * W - d * W = e * W
  BY SMT
<1>2. e \in Int /\ e * W \in Int /\ d * W \in Int /\ h * W \in Int
  BY SMT
<1>3. CASE e >= 1
  <2> HIDE DEF e
  <2>1. e * W >= W
    BY <1>2, <1>3, SMT
  <2> QED
    BY <1>1, <1>2, <1>3, <2>1, SMT DEF e
<1>4. CASE e <= 0
  <2> HIDE DEF e
  <2>1. e * W <= 0
    BY <1>2, <1>4, SMT
  <2> QED
    BY <1>1, <1>2, <1>4, <2>1, SMT DEF e
<1> HIDE DEF e
<1> QED
  BY <1>2, <1>3, <1>4, SMT

\* A number of several words is signed as its highest word is.
LEMMA SignedByTopWord ==
    ASSUME NEW W \in Nat \ {0}, NEW x \in Int, 0 <= x, x < W, NEW a \in Word
    PROVE  SignedBelow(W * Modulus, x + a * W) = x + Signed(a) * W
<1>1. /\ Half \in Nat \ {0} /\ Modulus = 2 * Half
      /\ a \in Int /\ 0 <= a /\ a < Modulus
  BY Constants
<1>2. x + a * W < Half * W <=> a < Half
  BY <1>1, Leading
<1>3. /\ W * Modulus = 2 * (Half * W) /\ Half * W \in Int /\ a * W \in Int
      /\ (a - Modulus) * W = a * W - W * Modulus
  BY <1>1, SMT
<1>4. 2 * (x + a * W) >= W * Modulus <=> a >= Half
  BY <1>1, <1>2, <1>3, SMT
<1>5. CASE a >= Half
  BY <1>1, <1>3, <1>4, <1>5, SMT DEF SignedBelow, Signed, Sign
<1>6. CASE ~(a >= Half)
  BY <1>1, <1>3, <1>4, <1>6, SMT DEF SignedBelow, Signed, Sign
<1> QED
  BY <1>5, <1>6

\* Whether z + d * W fits into a number of one word above W.
LEMMA FitsByTopWord ==
    ASSUME NEW W \in Nat \ {0}, NEW z \in Int, 0 <= z, z < W, NEW d \in Int
    PROVE  Fits(W * Modulus, z + d * W) <=> (-Half <= d /\ d < Half)
<1>1. /\ Half \in Nat \ {0} /\ Modulus = 2 * Half
  BY Constants
<1>2. z + d * W < Half * W <=> d < Half
  BY <1>1, Leading
<1>3. z + d * W < (-Half) * W <=> d < -Half
  BY <1>1, Leading
<1>4. /\ W * Modulus = 2 * (Half * W) /\ (-Half) * W = -(Half * W)
      /\ Half * W \in Int /\ d * W \in Int
  BY <1>1, SMT
<1> QED
  BY <1>1, <1>2, <1>3, <1>4, SMT DEF Fits
\* One more word added, above the sum z of x and y.
LEMMA WideSum ==
    ASSUME NEW W \in Nat \ {0},
           NEW x \in Int, 0 <= x, x < W, NEW y \in Int, 0 <= y, y < W,
           NEW z \in Int, 0 <= z, z < W,
           NEW f \in Flags, x + y = z + Carry(f) * W,
           NEW a \in Word, NEW b \in Word,
           NEW out, out = AdcWithFlags(f, a, b)
    PROVE  /\ out.result \in Word /\ out.flags \in Flags
           /\ (x + a * W) + (y + b * W)
                 = (z + out.result * W) + Carry(out.flags) * (W * Modulus)
           /\ out.flags.v <=> ~Fits(W * Modulus, SignedBelow(W * Modulus, x + a * W)
                                                  + SignedBelow(W * Modulus, y + b * W))
<1> DEFINE c == Carry(f)
           o == Carry(out.flags)
           r == out.result
           d == Signed(a) + Signed(b) + c
<1>1. /\ Half \in Nat \ {0} /\ Modulus = 2 * Half
      /\ a \in Int /\ 0 <= a /\ a < Modulus /\ b \in Int /\ 0 <= b /\ b < Modulus
  BY Constants
<1>2. c \in {0, 1} /\ o \in {0, 1}
  BY DEF Carry
<1>3. /\ r \in Word /\ out.flags \in Flags
      /\ a + b + c = r + o * Modulus
      /\ out.flags.v <=> ~(-Half <= d /\ d < Half)
  BY Total
<1>4. r \in Int
  BY <1>3, Constants
<1>5. Signed(a) \in Int /\ Signed(b) \in Int /\ d \in Int
  BY <1>1, <1>2 DEF Signed
<1>6. SignedBelow(W * Modulus, x + a * W) = x + Signed(a) * W
  BY SignedByTopWord
<1>7. SignedBelow(W * Modulus, y + b * W) = y + Signed(b) * W
  BY SignedByTopWord
<1>8. Fits(W * Modulus, z + d * W) <=> (-Half <= d /\ d < Half)
  BY <1>5, FitsByTopWord
<1> HIDE DEF c, o, r
<1>9. (x + Signed(a) * W) + (y + Signed(b) * W) = z + d * W
  <2> DEFINE sa == Signed(a)
             sb == Signed(b)
  <2>1. sa \in Int /\ sb \in Int
    BY <1>5
  <2> HIDE DEF sa, sb
  <2>2. (sa + sb + c) * W = sa * W + sb * W + c * W
    BY <1>2, <2>1, SMT
  <2>3. sa * W \in Int /\ sb * W \in Int /\ c * W \in Int
    BY <1>2, <2>1, SMT
  <2>4. x + y = z + c * W
    BY DEF c
  <2> QED
    BY <2>2, <2>3, <2>4, SMT DEF sa, sb
<1>10. (x + a * W) + (y + b * W) = (z + r * W) + o * (W * Modulus)
  <2>1. (a + b + c) * W = a * W + b * W + c * W
    BY <1>1, <1>2, SMT
  <2>2. (r + o * Modulus) * W = r * W + o * (W * Modulus)
    BY <1>1, <1>2, <1>4, SMT
  <2>3. /\ a * W \in Int /\ b * W \in Int /\ c * W \in Int /\ r * W \in Int
        /\ o * (W * Modulus) \in Int
    BY <1>1, <1>2, <1>4, SMT
  <2>4. x + y = z + c * W
    BY DEF c
  <2>5. a * W + b * W + c * W = r * W + o * (W * Modulus)
    BY <1>3, <2>1, <2>2
  <2> DEFINE aw == a * W
             bw == b * W
             cw == c * W
             rw == r * W
             ow == o * (W * Modulus)
  <2>6. /\ aw \in Int /\ bw \in Int /\ cw \in Int /\ rw \in Int /\ ow \in Int
        /\ x + y = z + cw /\ aw + bw + cw = rw + ow
    BY <2>3, <2>4, <2>5
  <2> HIDE DEF aw, bw, cw, rw, ow
  <2>7. (x + aw) + (y + bw) = (z + rw) + ow
    BY <2>6, SMT
  <2> QED
    BY <2>7 DEF aw, bw, rw, ow
<1>11. out.flags.v <=> ~Fits(W * Modulus, z + d * W)
  BY <1>3, <1>8, Zenon
<1> HIDE DEF d
<1> QED
  BY <1>3, <1>6, <1>7, <1>9, <1>10, <1>11 DEF o, r

\* One more word subtracted, above the difference z of x and y.
LEMMA WideDifference ==
    ASSUME NEW W \in Nat \ {0},
           NEW x \in Int, 0 <= x, x < W, NEW y \in Int, 0 <= y, y < W,
           NEW z \in Int, 0 <= z, z < W,
           NEW f \in Flags, x - y = z - (1 - Carry(f)) * W,
           NEW a \in Word, NEW b \in Word,
           NEW out, out = SbcWithFlags(f, a, b),
           NEW X, X = SignedBelow(W * Modulus, x + a * W),
           NEW Y, Y = SignedBelow(W * Modulus, y + b * W)
    PROVE  /\ out.result \in Word /\ out.flags \in Flags
           /\ (x + a * W) - (y + b * W)
                 = (z + out.result * W) - (1 - Carry(out.flags)) * (W * Modulus)
           /\ out.flags.v <=> ~Fits(W * Modulus, X - Y)
           /\ (out.flags.n # out.flags.v) <=> X < Y
           /\ out.flags.z <=> out.result = 0
<1> DEFINE c == Carry(f)
           o == Carry(out.flags)
           r == out.result
           d == Signed(a) - Signed(b) - (1 - c)
<1>1. /\ Half \in Nat \ {0} /\ Modulus = 2 * Half
      /\ a \in Int /\ 0 <= a /\ a < Modulus /\ b \in Int /\ 0 <= b /\ b < Modulus
  BY Constants
<1>2. c \in {0, 1} /\ o \in {0, 1}
  BY DEF Carry
<1>3. /\ r \in Word /\ out.flags \in Flags
      /\ a - b - (1 - c) = r - (1 - o) * Modulus
      /\ out.flags.v <=> ~(-Half <= d /\ d < Half)
      /\ (out.flags.n # out.flags.v) <=> d < 0
      /\ out.flags.z <=> r = 0
  BY Difference
<1>4. r \in Int
  BY <1>3, Constants
<1>5. Signed(a) \in Int /\ Signed(b) \in Int /\ d \in Int
  BY <1>1, <1>2 DEF Signed
<1>6. X = x + Signed(a) * W
  BY SignedByTopWord
<1>7. Y = y + Signed(b) * W
  BY SignedByTopWord
<1>8. Fits(W * Modulus, z + d * W) <=> (-Half <= d /\ d < Half)
  BY <1>5, FitsByTopWord
<1>9. z + d * W < 0 <=> d < 0
  <2>1. z + d * W < 0 * W <=> d < 0
    BY <1>5, Leading
  <2>2. 0 * W = 0
    BY SMT
  <2> QED
    BY <2>1, <2>2
<1> HIDE DEF c, o, r
<1>10. /\ X - Y = z + d * W
       /\ X \in Int /\ Y \in Int
  <2> DEFINE sa == Signed(a)
             sb == Signed(b)
  <2>1. sa \in Int /\ sb \in Int
    BY <1>5
  <2> HIDE DEF sa, sb
  <2>2. (sa - sb - (1 - c)) * W = sa * W - sb * W - (1 - c) * W
    BY <1>2, <2>1, SMT
  <2>3. sa * W \in Int /\ sb * W \in Int /\ (1 - c) * W \in Int
    BY <1>2, <2>1, SMT
  <2>4. x - y = z - (1 - c) * W
    BY DEF c
  <2>5. X = x + sa * W /\ Y = y + sb * W
    BY <1>6, <1>7 DEF sa, sb
  <2>6. d * W = (sa - sb - (1 - c)) * W
    BY DEF sa, sb
  <2> DEFINE p == sa * W
             q == sb * W
             cw == (1 - c) * W
             dw == d * W
  <2>7. /\ p \in Int /\ q \in Int /\ cw \in Int /\ dw = p - q - cw
        /\ x - y = z - cw /\ X = x + p /\ Y = y + q
    BY <2>2, <2>3, <2>4, <2>5, <2>6
  <2> HIDE DEF p, q, cw, dw
  <2>8. X - Y = z + dw /\ X \in Int /\ Y \in Int
    BY <2>7, SMT
  <2> QED
    BY <2>8 DEF dw
<1>11. (x + a * W) - (y + b * W) = (z + r * W) - (1 - o) * (W * Modulus)
  <2>1. (a - b - (1 - c)) * W = a * W - b * W - (1 - c) * W
    BY <1>1, <1>2, SMT
  <2>2. (r - (1 - o) * Modulus) * W = r * W - (1 - o) * (W * Modulus)
    BY <1>1, <1>2, <1>4, SMT
  <2>3. /\ a * W \in Int /\ b * W \in Int /\ (1 - c) * W \in Int /\ r * W \in Int
        /\ (1 - o) * (W * Modulus) \in Int
    BY <1>1, <1>2, <1>4, SMT
  <2>4. x - y = z - (1 - c) * W
    BY DEF c
  <2>5. a * W - b * W - (1 - c) * W = r * W - (1 - o) * (W * Modulus)
    BY <1>3, <2>1, <2>2
  <2> DEFINE aw == a * W
             bw == b * W
             cw == (1 - c) * W
             rw == r * W
             ow == (1 - o) * (W * Modulus)
  <2>6. /\ aw \in Int /\ bw \in Int /\ cw \in Int /\ rw \in Int /\ ow \in Int
        /\ x - y = z - cw /\ aw - bw - cw = rw - ow
    BY <2>3, <2>4, <2>5
  <2> HIDE DEF aw, bw, cw, rw, ow
  <2>7. (x + aw) - (y + bw) = (z + rw) - ow
    BY <2>6, SMT
  <2> QED
    BY <2>7 DEF aw, bw, rw, ow
<1>12. out.flags.v <=> ~Fits(W * Modulus, X - Y)
  <2>1. out.flags.v <=> ~Fits(W * Modulus, z + d * W)
    BY <1>3, <1>8, Zenon
  <2> QED
    BY <1>10, <2>1, Zenon
<1>13. (out.flags.n # out.flags.v) <=> X < Y
  <2>1. (out.flags.n # out.flags.v) <=> z + d * W < 0
    BY <1>3, <1>9, Zenon
  <2>2. (X < Y) <=> X - Y < 0
    BY <1>10, SMT
  <2>3. (X - Y < 0) <=> z + d * W < 0
    BY <1>10, Zenon
  <2> QED
    BY <2>1, <2>2, <2>3, Zenon
<1> HIDE DEF d
<1> QED
  BY <1>3, <1>11, <1>12, <1>13 DEF o, r
\* One more word keeps a number below its weight.
LEMMA WordsBelow ==
    ASSUME NEW W \in Nat \ {0}, NEW x \in Nat, x < W, NEW a \in Word
    PROVE  W * Modulus \in Nat \ {0} /\ x + a * W \in Nat /\ x + a * W < W * Modulus
<1>1. a \in Int /\ 0 <= a /\ a < Modulus /\ Modulus \in Nat \ {0}
  BY Constants
<1>2. /\ a * W \in Int /\ 0 <= a * W
      /\ W * Modulus \in Nat \ {0}
      /\ a * W + W <= W * Modulus
  BY <1>1, Products
<1> DEFINE p == a * W
           q == W * Modulus
<1> HIDE DEF p, q
<1>3. p \in Int /\ 0 <= p /\ q \in Nat \ {0} /\ p + W <= q
  BY <1>2 DEF p, q
<1>4. x + p \in Nat /\ x + p < q
  BY <1>3, SMT
<1> QED
  BY <1>3, <1>4 DEF p, q

-----------------------------------------------------------------------------
(***************************************************************************)
(* The inductive invariant.                                                *)
(***************************************************************************)
\* The numbers of a chain, and what links them to the flag C.
Exact(f, ch) ==
    /\ ch.weight \in Nat \ {0}
    /\ ch.x < ch.weight /\ ch.y < ch.weight /\ ch.z < ch.weight
    /\ ch.op # "none" => ch.words # 0
    /\ ch.op = "add" => \E k \in {0, 1} :
         /\ ch.x + ch.y = ch.z + k * ch.weight
         /\ ch.open => k = Carry(f)
    /\ ch.op = "sub" => \E k \in {0, 1} :
         /\ ch.x - ch.y = ch.z - (1 - k) * ch.weight
         /\ ch.open => k = Carry(f)

\* N, Z and V as the last instruction of a chain left them.
Told(f, ch) ==
    LET x == SignedBelow(ch.weight, ch.x)
        y == SignedBelow(ch.weight, ch.y)
    IN  /\ ch.open
        /\ ch.op = "add" => (f.v <=> ~Fits(ch.weight, x + y))
        /\ ch.op = "sub" =>
             /\ f.v <=> ~Fits(ch.weight, x - y)
             /\ (f.n # f.v) <=> x < y
             /\ ch.words = 1 => (f.z <=> ch.z = 0)

Inv ==
    /\ AluTypeOK
    /\ Exact(flags, chain)
    /\ fresh => Told(flags, chain)

LEMMA EmptyChain ==
    ASSUME NEW f
    PROVE  NoChain \in Chain /\ Exact(f, NoChain) /\ ~NoChain.open
<1>1. NoChain \in Chain /\ ~NoChain.open
  BY DEF NoChain, Chain
<1>2. /\ NoChain.weight = 1 /\ NoChain.x = 0 /\ NoChain.y = 0 /\ NoChain.z = 0
      /\ NoChain.op = "none"
  BY DEF NoChain
<1> QED
  BY <1>1, <1>2 DEF Exact

LEMMA InitInv == AluInit => Inv
<1> SUFFICES ASSUME AluInit PROVE Inv
  OBVIOUS
<1>1. flags \in Flags /\ fresh \in BOOLEAN /\ ~fresh
  BY DEF AluInit, Flags
<1>2. chain \in Chain /\ Exact(flags, chain)
  BY EmptyChain DEF AluInit
<1> QED
  BY <1>1, <1>2 DEF Inv, AluTypeOK

\* An instruction that is no arithmetic.
LEMMA Undisturbed ==
    ASSUME Inv, flags' \in Flags, KeepChain(flags.c), fresh' \in BOOLEAN,
           fresh' => fresh /\ chain'.open /\ flags' = flags
    PROVE  Inv'
<1>1. CASE chain' = NoChain
  <2>1. chain' \in Chain /\ Exact(flags', chain') /\ ~chain'.open
    BY <1>1, EmptyChain
  <2> QED
    BY <2>1 DEF Inv, AluTypeOK
<1>2. CASE chain' = chain /\ flags'.c = flags.c
  <2>1. Exact(flags', chain') /\ chain' \in Chain
    BY <1>2 DEF Inv, AluTypeOK, Exact, Carry
  <2>2. fresh' => Told(flags', chain')
    BY <1>2 DEF Inv
  <2> QED
    BY <2>1, <2>2 DEF Inv, AluTypeOK
<1> QED
  BY <1>1, <1>2 DEF KeepChain

\* A chain of n words so far, whose carry f.c the next instruction takes.
Before(op, W, n, x, y, z, f) ==
    /\ W \in Nat \ {0} /\ n \in Nat
    /\ x \in Nat /\ x < W /\ y \in Nat /\ y < W /\ z \in Nat /\ z < W
    /\ n = 0 => z = 0 /\ W = 1
    /\ op = "add" => x + y = z + Carry(f) * W
    /\ op = "sub" => x - y = z - (1 - Carry(f)) * W

\* The chain ch with the words a, b and r above it.
After(ch, op, W, n, x, y, z, a, b, r) ==
    /\ ch \in Chain
    /\ ch.op = op /\ ch.x = x + a * W /\ ch.y = y + b * W /\ ch.z = z + r * W
    /\ ch.weight = W * Modulus /\ ch.words = n + 1

\* One more word of a chain, or the first.
LEMMA NextWord ==
    ASSUME NEW op \in {"add", "sub"}, NEW W, NEW n, NEW x, NEW y, NEW z,
           NEW f \in Flags, NEW a \in Word, NEW b \in Word,
           NEW out, out = IF op = "add" THEN AdcWithFlags(f, a, b) ELSE SbcWithFlags(f, a, b),
           NEW ch,
           Before(op, W, n, x, y, z, f),
           After(ch, op, W, n, x, y, z, a, b, out.result)
    PROVE  /\ out.result \in Word /\ out.flags \in Flags
           /\ \A g : (ch.open => g = out.flags) => Exact(g, ch)
           /\ ch.open => Told(out.flags, ch)
<1> USE DEF Before, After
<1>1. CASE op = "add"
  <2>1. out = AdcWithFlags(f, a, b)
    BY <1>1
  <2>2. /\ out.result \in Word /\ out.flags \in Flags
        /\ ch.x + ch.y = ch.z + Carry(out.flags) * ch.weight
        /\ out.flags.v <=> ~Fits(ch.weight, SignedBelow(ch.weight, ch.x)
                                             + SignedBelow(ch.weight, ch.y))
    BY <1>1, <2>1, WideSum
  <2>3. /\ ch.weight \in Nat \ {0} /\ ch.x < ch.weight /\ ch.y < ch.weight
        /\ ch.z < ch.weight
    BY <2>2, WordsBelow
  <2>4. Carry(out.flags) \in {0, 1}
    BY DEF Carry
  <2>5. \A g : (ch.open => g = out.flags) => Exact(g, ch)
    BY <1>1, <2>2, <2>3, <2>4 DEF Exact
  <2>6. ch.open => Told(out.flags, ch)
    BY <1>1, <2>2, Zenon DEF Told
  <2> QED
    BY <2>2, <2>5, <2>6
<1>2. CASE op = "sub"
  <2>1. out = SbcWithFlags(f, a, b)
    BY <1>2
  <2> DEFINE X == SignedBelow(ch.weight, ch.x)
             Y == SignedBelow(ch.weight, ch.y)
  <2>2. /\ out.result \in Word /\ out.flags \in Flags
        /\ ch.x - ch.y = ch.z - (1 - Carry(out.flags)) * ch.weight
        /\ out.flags.v <=> ~Fits(ch.weight, X - Y)
        /\ (out.flags.n # out.flags.v) <=> X < Y
        /\ out.flags.z <=> out.result = 0
    BY <1>2, <2>1, WideDifference
  <2>3. /\ ch.weight \in Nat \ {0} /\ ch.x < ch.weight /\ ch.y < ch.weight
        /\ ch.z < ch.weight
    BY <2>2, WordsBelow
  <2>4. Carry(out.flags) \in {0, 1}
    BY DEF Carry
  <2>5. \A g : (ch.open => g = out.flags) => Exact(g, ch)
    BY <1>2, <2>2, <2>3, <2>4 DEF Exact
  <2>6. ch.words = 1 => (out.flags.z <=> ch.z = 0)
    <3>1. SUFFICES ASSUME n = 0 PROVE ch.z = out.result
      BY <2>2, SMT
    <3>2. z = 0 /\ W = 1
      BY <3>1
    <3>3. out.result \in Int
      BY <2>2, Constants
    <3> QED
      BY <3>2, <3>3, SMT
  <2>7. ch.open => Told(out.flags, ch)
    BY <1>2, <2>2, <2>6, Zenon DEF Told
  <2> QED
    BY <2>2, <2>5, <2>7
<1> QED
  BY <1>1, <1>2
LEMMA BegunChain ==
    ASSUME NEW op \in {"add", "sub"}, NEW x \in Nat, NEW y \in Nat, NEW z \in Nat
    PROVE  Begun(op, x, y, z) \in Chain
<1>1. Modulus \in Nat
  BY Constants
<1> QED
  BY <1>1 DEF Begun, Chain

\* A step of an arithmetic instruction, of either set: f holds the carry it takes.
IsStep(op, carries, kept, setFlags, f, a, b, out) ==
    /\ out = IF op = "add" THEN AdcWithFlags(f, a, b) ELSE SbcWithFlags(f, a, b)
    /\ carries /\ kept => f.c = flags.c
    /\ ~carries => (f.c <=> op = "sub")
    /\ flags' = IF setFlags THEN out.flags ELSE flags
    /\ chain' = ChainAfter(op, carries, kept, a, b, out.result, setFlags)
    /\ fresh' = (chain'.open /\ (setFlags \/ fresh))

LEMMA ArithmeticStep ==
    ASSUME Inv,
           NEW op \in {"add", "sub"}, NEW carries \in BOOLEAN, NEW kept \in BOOLEAN,
           NEW setFlags \in BOOLEAN,
           NEW f \in Flags, NEW a \in Word, NEW b \in Word, NEW out,
           IsStep(op, carries, kept, setFlags, f, a, b, out)
    PROVE  Inv'
<1> USE DEF IsStep
<1>1. flags \in Flags /\ chain \in Chain /\ fresh \in BOOLEAN /\ Exact(flags, chain)
  BY DEF Inv, AluTypeOK
<1>2. CASE setFlags /\ ~carries
  <2>1. chain' = Begun(op, a, b, out.result)
    BY <1>2 DEF ChainAfter
  <2>2. /\ Modulus \in Nat \ {0} /\ 1 * Modulus = Modulus
        /\ a \in Nat /\ b \in Nat /\ 0 + a * 1 = a /\ 0 + b * 1 = b
    BY Constants, SMT
  <2>3. out.result \in Word
    BY Total, Difference
  <2>4. out.result \in Nat /\ 0 + out.result * 1 = out.result
    BY <2>3, Constants, SMT
  <2>5. /\ chain'.op = op /\ chain'.x = 0 + a * 1 /\ chain'.y = 0 + b * 1
        /\ chain'.z = 0 + out.result * 1 /\ chain'.weight = 1 * Modulus
        /\ chain'.words = 0 + 1 /\ chain'.open
    BY <2>1, <2>2, <2>4 DEF Begun
  <2>6. chain' \in Chain
    BY <2>1, <2>2, <2>4, BegunChain
  <2>7. /\ op = "add" => 0 + 0 = 0 + Carry(f) * 1
        /\ op = "sub" => 0 - 0 = 0 - (1 - Carry(f)) * 1
    <3>1. CASE op = "add"
      <4>1. Carry(f) = 0
        BY <1>2, <3>1 DEF Carry
      <4> QED
        BY <3>1, <4>1
    <3>2. CASE op = "sub"
      <4>1. Carry(f) = 1
        BY <1>2, <3>2 DEF Carry
      <4> QED
        BY <3>2, <4>1
    <3> QED
      BY <3>1, <3>2
  <2>8. /\ out.flags \in Flags
        /\ \A g : (chain'.open => g = out.flags) => Exact(g, chain')
        /\ Told(out.flags, chain')
    <3>1. Before(op, 1, 0, 0, 0, 0, f)
      BY <2>7 DEF Before
    <3>2. After(chain', op, 1, 0, 0, 0, 0, a, b, out.result)
      BY <2>5, <2>6 DEF After
    <3> QED
      BY <2>5, <3>1, <3>2, NextWord
  <2>9. flags' = out.flags /\ fresh' \in BOOLEAN
    BY <1>1, <1>2, <2>5
  <2> QED
    BY <2>6, <2>8, <2>9 DEF Inv, AluTypeOK
<1>3. CASE ~(setFlags /\ ~carries) /\ carries /\ kept /\ Extends(op)
  <2>1. chain' = Extended(a, b, out.result, setFlags)
    BY <1>3 DEF ChainAfter
  <2> DEFINE W == chain.weight
  <2>2. /\ chain.op = op /\ chain.open
        /\ W \in Nat \ {0} /\ chain.words \in Nat
        /\ chain.x \in Nat /\ chain.x < W /\ chain.y \in Nat /\ chain.y < W
        /\ chain.z \in Nat /\ chain.z < W
    BY <1>1, <1>3 DEF Extends, Exact, Chain
  <2>3. out.result \in Word
    BY Total, Difference
  <2>4. /\ chain'.op = op /\ chain'.x = chain.x + a * W /\ chain'.y = chain.y + b * W
        /\ chain'.z = chain.z + out.result * W /\ chain'.weight = W * Modulus
        /\ chain'.words = chain.words + 1 /\ chain'.open = setFlags
    BY <1>1, <2>1, <2>2 DEF Extended, Chain
  <2>5. chain' \in Chain
    <3>1. /\ chain.x + a * W \in Nat /\ chain.y + b * W \in Nat
          /\ chain.z + out.result * W \in Nat /\ W * Modulus \in Nat
      BY <2>2, <2>3, WordsBelow
    <3>2. chain.words + 1 \in Nat
      BY <2>2
    <3> QED
      BY <1>1, <2>1, <3>1, <3>2 DEF Extended, Chain
  <2>6. Carry(f) = Carry(flags)
    BY <1>3 DEF Carry
  <2>7. /\ op = "add" => chain.x + chain.y = chain.z + Carry(f) * W
        /\ op = "sub" => chain.x - chain.y = chain.z - (1 - Carry(f)) * W
    <3>1. CASE op = "add"
      <4>1. PICK k \in {0, 1} : chain.x + chain.y = chain.z + k * W /\ k = Carry(flags)
        BY <1>1, <2>2, <3>1, Zenon DEF Exact
      <4> QED
        BY <2>6, <3>1, <4>1
    <3>2. CASE op = "sub"
      <4>1. PICK k \in {0, 1} : chain.x - chain.y = chain.z - (1 - k) * W /\ k = Carry(flags)
        BY <1>1, <2>2, <3>2, Zenon DEF Exact
      <4> QED
        BY <2>6, <3>2, <4>1
    <3> QED
      BY <3>1, <3>2
  <2>8. chain.words = 0 => chain.z = 0 /\ W = 1
    BY <1>1, <2>2 DEF Exact
  <2>9. /\ out.flags \in Flags
        /\ \A g : (chain'.open => g = out.flags) => Exact(g, chain')
        /\ chain'.open => Told(out.flags, chain')
    <3>1. Before(op, W, chain.words, chain.x, chain.y, chain.z, f)
      BY <2>2, <2>7, <2>8 DEF Before
    <3>2. After(chain', op, W, chain.words, chain.x, chain.y, chain.z, a, b, out.result)
      BY <2>4, <2>5 DEF After
    <3> QED
      BY <3>1, <3>2, NextWord
  <2>11. CASE setFlags
    <3>1. flags' = out.flags /\ fresh' \in BOOLEAN
      BY <1>1, <2>4, <2>11
    <3> QED
      BY <2>4, <2>5, <2>9, <2>11, <3>1 DEF Inv, AluTypeOK
  <2>12. CASE ~setFlags
    <3>1. flags' = flags /\ ~fresh' /\ fresh' \in BOOLEAN /\ ~chain'.open
      BY <2>4, <2>12
    <3> QED
      BY <1>1, <2>5, <2>9, <3>1 DEF Inv, AluTypeOK
  <2> QED
    BY <2>11, <2>12
<1>4. CASE /\ ~(setFlags /\ ~carries) /\ ~(carries /\ kept /\ Extends(op))
           /\ ~setFlags /\ chain.open
  <2>1. chain' = chain /\ flags' = flags /\ fresh' = fresh
    BY <1>1, <1>4 DEF ChainAfter
  <2> QED
    BY <2>1 DEF Inv, AluTypeOK, Exact, Told, Carry
<1>5. CASE /\ ~(setFlags /\ ~carries) /\ ~(carries /\ kept /\ Extends(op))
           /\ ~(~setFlags /\ chain.open)
  <2>1. chain' = NoChain
    BY <1>5 DEF ChainAfter
  <2>2. chain' \in Chain /\ Exact(flags', chain') /\ ~chain'.open
    BY <2>1, EmptyChain
  <2>3. flags' \in Flags
    BY <1>1, Total, Difference
  <2>4. fresh' \in BOOLEAN /\ ~fresh'
    BY <2>2
  <2> QED
    BY <2>2, <2>3, <2>4 DEF Inv, AluTypeOK
<1> QED
  BY <1>2, <1>3, <1>4, <1>5, Zenon
-----------------------------------------------------------------------------
(***************************************************************************)
(* Every instruction keeps the invariant.                                  *)
(***************************************************************************)
\* The typing of the second operand.
LEMMA OperandIs ==
    ASSUME NEW c, NEW o \in Operands(c)
    PROVE  o.value \in Word /\ o.carry \in BOOLEAN /\ o.register \in BOOLEAN
<1>1. o \in [value: Word, carry: BOOLEAN, register: BOOLEAN]
  BY DEF Operands
<1> QED
  BY <1>1

LEMMA SettingNZ ==
    ASSUME NEW f \in Flags, NEW n \in BOOLEAN, NEW z \in BOOLEAN
    PROVE  [f EXCEPT !.n = n, !.z = z] \in Flags
BY DEF Flags

LEMMA ClearCarry ==
    ASSUME NEW f \in Flags, NEW c \in BOOLEAN
    PROVE  [f EXCEPT !.c = c] \in Flags /\ [f EXCEPT !.c = c].c = c
BY DEF Flags

LEMMA LogicalKeeps ==
    ASSUME Inv, NEW op, NEW s \in BOOLEAN, NEW a \in Word, NEW o \in Operands(flags.c),
           ArmLogicalOp(op, s, a, o)
    PROVE  Inv'
<1>1. flags \in Flags /\ fresh \in BOOLEAN
  BY DEF Inv, AluTypeOK
<1>2. o.carry \in BOOLEAN
  BY OperandIs
<1>3. SetNZ(flags, Logical(op, a, o.value)) \in Flags
  <2> DEFINE r == Logical(op, a, o.value)
             z == r = 0
  <2>1. Sign(r) \in BOOLEAN /\ z \in BOOLEAN
    BY DEF Sign
  <2>2. SetNZ(flags, r) = [flags EXCEPT !.n = Sign(r), !.z = z]
    BY DEF SetNZ
  <2> HIDE DEF r, z
  <2>3. SetNZ(flags, r) \in Flags
    BY <1>1, <2>1, <2>2, SettingNZ
  <2> QED
    BY <2>3 DEF r
<1>4. flags' \in Flags
  BY <1>1, <1>2, <1>3, ClearCarry DEF ArmLogicalOp
<1>5. fresh' \in BOOLEAN /\ (fresh' => fresh /\ chain'.open /\ flags' = flags)
  BY DEF ArmLogicalOp
<1> QED
  BY <1>4, <1>5, Undisturbed DEF ArmLogicalOp

LEMMA ArmArithmeticKeeps ==
    ASSUME Inv, NEW op \in ArmArithmetic, NEW s \in BOOLEAN, NEW a \in Word,
           NEW o \in Operands(flags.c),
           ArmArithmeticOp(op, s, a, o)
    PROVE  Inv'
<1> DEFINE b == o.value
           f == [flags EXCEPT !.c = CarryIn(s, o)]
           out == Arithmetic(op, f, a, b)
           kept == ~s \/ ~o.register \/ o.carry = flags.c
           carries == op \in {"ADC", "SBC", "RSC"}
           clear == [f EXCEPT !.c = FALSE]
           set == [f EXCEPT !.c = TRUE]
<1>1. flags \in Flags /\ flags.c \in BOOLEAN
  BY FlagsAreBoolean DEF Inv, AluTypeOK
<1>2. b \in Word /\ o.carry \in BOOLEAN
  BY OperandIs
<1>3. CarryIn(s, o) \in BOOLEAN /\ (kept => CarryIn(s, o) = flags.c)
  BY <1>1, <1>2 DEF CarryIn
<1>4. f \in Flags /\ (kept => f.c = flags.c)
  BY <1>1, <1>3, ClearCarry
<1>5. clear \in Flags /\ ~clear.c /\ set \in Flags /\ set.c
  BY <1>4, ClearCarry
<1>6. /\ flags' = IF s THEN out.flags ELSE flags
      /\ chain' = ChainAfter(IF op \in {"ADD", "CMN", "ADC"} THEN "add" ELSE "sub",
                             carries, kept,
                             IF op \in {"RSB", "RSC"} THEN b ELSE a,
                             IF op \in {"RSB", "RSC"} THEN a ELSE b, out.result, s)
      /\ fresh' = (chain'.open /\ (s \/ fresh))
  BY DEF ArmArithmeticOp
<1>7. kept \in BOOLEAN
  OBVIOUS
<1> HIDE DEF b, f, kept, clear, set, out, carries
<1>8. CASE op \in {"SUB", "CMP"}
  <2>1. out = SbcWithFlags(set, a, b)
    BY <1>8 DEF Arithmetic, out, SubWithFlags, set
  <2>2. carries = FALSE
    BY <1>8 DEF carries
  <2>3. chain' = ChainAfter("sub", FALSE, kept, a, b, out.result, s)
    BY <1>6, <1>8, <2>2
  <2>4. IsStep("sub", FALSE, kept, s, set, a, b, out)
    BY <1>2, <1>5, <1>6, <1>7, <2>1, <2>3 DEF IsStep
  <2> QED
    BY <1>2, <1>5, <1>6, <1>7, <2>4, ArithmeticStep
<1>9. CASE op = "RSB"
  <2>1. out = SbcWithFlags(set, b, a)
    BY <1>9 DEF Arithmetic, out, SubWithFlags, set
  <2>2. carries = FALSE
    BY <1>9 DEF carries
  <2>3. chain' = ChainAfter("sub", FALSE, kept, b, a, out.result, s)
    BY <1>6, <1>9, <2>2
  <2>4. IsStep("sub", FALSE, kept, s, set, b, a, out)
    BY <1>2, <1>5, <1>6, <1>7, <2>1, <2>3 DEF IsStep
  <2> QED
    BY <1>2, <1>5, <1>6, <1>7, <2>4, ArithmeticStep
<1>10. CASE op \in {"ADD", "CMN"}
  <2>1. out = AdcWithFlags(clear, a, b)
    BY <1>10 DEF Arithmetic, out, AddWithFlags, clear
  <2>2. carries = FALSE
    BY <1>10 DEF carries
  <2>3. chain' = ChainAfter("add", FALSE, kept, a, b, out.result, s)
    BY <1>6, <1>10, <2>2
  <2>4. IsStep("add", FALSE, kept, s, clear, a, b, out)
    BY <1>2, <1>5, <1>6, <1>7, <2>1, <2>3 DEF IsStep
  <2> QED
    BY <1>2, <1>5, <1>6, <1>7, <2>4, ArithmeticStep
<1>11. CASE op = "ADC"
  <2>1. out = AdcWithFlags(f, a, b)
    BY <1>11 DEF Arithmetic, out
  <2>2. carries = TRUE
    BY <1>11 DEF carries
  <2>3. chain' = ChainAfter("add", TRUE, kept, a, b, out.result, s)
    BY <1>6, <1>11, <2>2
  <2>4. IsStep("add", TRUE, kept, s, f, a, b, out)
    BY <1>2, <1>4, <1>6, <1>7, <2>1, <2>3 DEF IsStep
  <2> QED
    BY <1>2, <1>4, <1>6, <1>7, <2>4, ArithmeticStep
<1>12. CASE op = "SBC"
  <2>1. out = SbcWithFlags(f, a, b)
    BY <1>12 DEF Arithmetic, out
  <2>2. carries = TRUE
    BY <1>12 DEF carries
  <2>3. chain' = ChainAfter("sub", TRUE, kept, a, b, out.result, s)
    BY <1>6, <1>12, <2>2
  <2>4. IsStep("sub", TRUE, kept, s, f, a, b, out)
    BY <1>2, <1>4, <1>6, <1>7, <2>1, <2>3 DEF IsStep
  <2> QED
    BY <1>2, <1>4, <1>6, <1>7, <2>4, ArithmeticStep
<1>13. CASE op = "RSC"
  <2>1. out = SbcWithFlags(f, b, a)
    BY <1>13 DEF Arithmetic, out
  <2>2. carries = TRUE
    BY <1>13 DEF carries
  <2>3. chain' = ChainAfter("sub", TRUE, kept, b, a, out.result, s)
    BY <1>6, <1>13, <2>2
  <2>4. IsStep("sub", TRUE, kept, s, f, b, a, out)
    BY <1>2, <1>4, <1>6, <1>7, <2>1, <2>3 DEF IsStep
  <2> QED
    BY <1>2, <1>4, <1>6, <1>7, <2>4, ArithmeticStep
<1> QED
  BY <1>8, <1>9, <1>10, <1>11, <1>12, <1>13 DEF ArmArithmetic

LEMMA ThumbArithmeticKeeps ==
    ASSUME Inv, NEW op \in {"ADD", "SUB", "CMP", "CMN", "ADC", "SBC"},
           NEW a \in Word, NEW b \in Word, ThumbArithmeticOp(op, a, b)
    PROVE  Inv'
<1> DEFINE out == Arithmetic(op, flags, a, b)
           carries == op \in {"ADC", "SBC"}
           clear == [flags EXCEPT !.c = FALSE]
           set == [flags EXCEPT !.c = TRUE]
<1>1. flags \in Flags
  BY DEF Inv, AluTypeOK
<1>2. clear \in Flags /\ ~clear.c /\ set \in Flags /\ set.c
  BY <1>1, ClearCarry
<1>3. /\ flags' = IF TRUE THEN out.flags ELSE flags
      /\ chain' = ChainAfter(IF op \in {"ADD", "CMN", "ADC"} THEN "add" ELSE "sub",
                             carries, TRUE, a, b, out.result, TRUE)
      /\ fresh' = (chain'.open /\ (TRUE \/ fresh))
  <2>1. fresh' = chain'.open /\ chain'.open \in BOOLEAN
    BY DEF ThumbArithmeticOp, ChainAfter, Begun, Extended, NoChain, Inv, AluTypeOK, Chain
  <2> QED
    BY <2>1 DEF ThumbArithmeticOp
<1> HIDE DEF clear, set, out, carries
<1>4. CASE op \in {"SUB", "CMP"}
  <2>1. out = SbcWithFlags(set, a, b)
    BY <1>4 DEF Arithmetic, out, SubWithFlags, set
  <2>2. carries = FALSE
    BY <1>4 DEF carries
  <2>3. chain' = ChainAfter("sub", FALSE, TRUE, a, b, out.result, TRUE)
    BY <1>3, <1>4, <2>2
  <2>4. IsStep("sub", FALSE, TRUE, TRUE, set, a, b, out)
    BY <1>2, <1>3, <2>1, <2>3 DEF IsStep
  <2> QED
    BY <1>2, <1>3, <2>4, ArithmeticStep
<1>5. CASE op \in {"ADD", "CMN"}
  <2>1. out = AdcWithFlags(clear, a, b)
    BY <1>5 DEF Arithmetic, out, AddWithFlags, clear
  <2>2. carries = FALSE
    BY <1>5 DEF carries
  <2>3. chain' = ChainAfter("add", FALSE, TRUE, a, b, out.result, TRUE)
    BY <1>3, <1>5, <2>2
  <2>4. IsStep("add", FALSE, TRUE, TRUE, clear, a, b, out)
    BY <1>2, <1>3, <2>1, <2>3 DEF IsStep
  <2> QED
    BY <1>2, <1>3, <2>4, ArithmeticStep
<1>6. CASE op = "ADC"
  <2>1. out = AdcWithFlags(flags, a, b)
    BY <1>6 DEF Arithmetic, out
  <2>2. carries = TRUE
    BY <1>6 DEF carries
  <2>3. chain' = ChainAfter("add", TRUE, TRUE, a, b, out.result, TRUE)
    BY <1>3, <1>6, <2>2
  <2>4. IsStep("add", TRUE, TRUE, TRUE, flags, a, b, out)
    BY <1>1, <1>3, <2>1, <2>3 DEF IsStep
  <2> QED
    BY <1>1, <1>3, <2>4, ArithmeticStep
<1>7. CASE op = "SBC"
  <2>1. out = SbcWithFlags(flags, a, b)
    BY <1>7 DEF Arithmetic, out
  <2>2. carries = TRUE
    BY <1>7 DEF carries
  <2>3. chain' = ChainAfter("sub", TRUE, TRUE, a, b, out.result, TRUE)
    BY <1>3, <1>7, <2>2
  <2>4. IsStep("sub", TRUE, TRUE, TRUE, flags, a, b, out)
    BY <1>1, <1>3, <2>1, <2>3 DEF IsStep
  <2> QED
    BY <1>1, <1>3, <2>4, ArithmeticStep
<1> QED
  BY <1>4, <1>5, <1>6, <1>7
LEMMA NextInv == Inv /\ [AluNext]_aluVars => Inv'
<1> SUFFICES ASSUME Inv, [AluNext]_aluVars PROVE Inv'
  OBVIOUS
<1>1. flags \in Flags /\ fresh \in BOOLEAN
  BY DEF Inv, AluTypeOK
<1>2. ASSUME NEW op \in ArmLogical, NEW s \in BOOLEAN, NEW a \in Word,
             NEW o \in Operands(flags.c), ArmLogicalOp(op, s, a, o)
      PROVE  Inv'
  BY <1>2, LogicalKeeps
<1>3. ASSUME NEW op \in ArmArithmetic, NEW s \in BOOLEAN, NEW a \in Word,
             NEW o \in Operands(flags.c), ArmArithmeticOp(op, s, a, o)
      PROVE  Inv'
  BY <1>3, ArmArithmeticKeeps
<1>4. ASSUME NEW op \in {"ADD", "SUB", "CMP", "CMN", "ADC", "SBC"},
             NEW a \in Word, NEW b \in Word, ThumbArithmeticOp(op, a, b)
      PROVE  Inv'
  BY <1>4, ThumbArithmeticKeeps
<1>5. ASSUME NEW n \in BOOLEAN, NEW z \in BOOLEAN, SetsNZ(n, z)
      PROVE  Inv'
  <2>1. flags' \in Flags
    BY <1>1, <1>5, SettingNZ DEF SetsNZ
  <2>2. KeepChain(flags.c) /\ fresh' = FALSE
    BY <1>5 DEF SetsNZ
  <2> QED
    BY <2>1, <2>2, Undisturbed
<1>6. ASSUME NEW out \in ThumbShiftOutcomes(flags.c), ThumbShift(out)
      PROVE  Inv'
  <2>1. out \in [value: Word, carry: BOOLEAN]
    BY DEF ThumbShiftOutcomes
  <2> DEFINE z == out.value = 0
             nz == SetNZ(flags, out.value)
  <2>2. Sign(out.value) \in BOOLEAN /\ z \in BOOLEAN /\ out.carry \in BOOLEAN
    BY <2>1 DEF Sign
  <2>3. nz = [flags EXCEPT !.n = Sign(out.value), !.z = z]
    BY DEF SetNZ
  <2>4. flags' = [nz EXCEPT !.c = out.carry]
    BY <1>6 DEF ThumbShift
  <2> HIDE DEF z, nz
  <2>5. nz \in Flags
    BY <1>1, <2>2, <2>3, SettingNZ
  <2>6. flags' \in Flags
    BY <2>2, <2>4, <2>5, ClearCarry
  <2>7. KeepChain(flags.c) /\ fresh' = FALSE
    BY <1>6 DEF ThumbShift
  <2> QED
    BY <2>6, <2>7, Undisturbed
<1>7. ASSUME NEW f \in Flags, WriteFlags(f)
      PROVE  Inv'
  <2>1. flags' \in Flags /\ chain' = NoChain /\ fresh' = FALSE
    BY <1>7 DEF WriteFlags
  <2>2. chain' \in Chain /\ Exact(flags', chain')
    BY <2>1, EmptyChain
  <2> QED
    BY <2>1, <2>2 DEF Inv, AluTypeOK
<1>8. CASE UNCHANGED aluVars
  BY <1>8 DEF aluVars, Inv, AluTypeOK
<1> QED
  BY <1>2, <1>3, <1>4, <1>5, <1>6, <1>7, <1>8 DEF AluNext

LEMMA Always == AluSpec => []Inv
<1> QED
  BY InitInv, NextInv, PTL DEF AluSpec

-----------------------------------------------------------------------------
(***************************************************************************)
(* What follows from the invariant.                                        *)
(***************************************************************************)
LEMMA InvExact == Inv => SumsAreExact
<1> SUFFICES ASSUME Inv PROVE SumsAreExact
  OBVIOUS
<1> DEFINE x == chain.x
           y == chain.y
           z == chain.z
           W == chain.weight
<1>1. /\ x \in Nat /\ x < W /\ y \in Nat /\ y < W /\ z \in Nat /\ z < W /\ W \in Nat \ {0}
      /\ Exact(flags, chain) /\ flags.c \in BOOLEAN
  BY FlagsAreBoolean DEF Inv, AluTypeOK, Exact, Chain
<1>2. ASSUME chain.op = "add"
      PROVE  z = (x + y) % W /\ (chain.open => (flags.c <=> x + y >= W))
  <2>1. PICK k \in {0, 1} : x + y = z + k * W /\ (chain.open => k = Carry(flags))
    BY <1>1, <1>2, Zenon DEF Exact
  <2> DEFINE s == x + y
  <2>2. s \in Int /\ ~(s < 0) /\ s < 2 * W /\ -W <= s
    BY <1>1, SMT
  <2>3. (s < W <=> k = 0) /\ z = (IF s < W THEN s ELSE s - W)
    <3>1. CASE k = 0
      BY <1>1, <2>1, <3>1, SMT
    <3>2. CASE k = 1
      BY <1>1, <2>1, <3>2, SMT
    <3> QED
      BY <3>1, <3>2
  <2> HIDE DEF s, W, x, y, z
  <2>4. z = s % W
    BY <1>1, <2>2, <2>3, NearMod
  <2>5. chain.open => (flags.c <=> k = 1)
    BY <1>1, <2>1 DEF Carry
  <2>6. chain.open => (flags.c <=> s >= W)
    BY <1>1, <2>2, <2>3, <2>5, SMT
  <2> QED
    BY <2>4, <2>6 DEF s
<1>3. ASSUME chain.op = "sub"
      PROVE  z = (x - y) % W /\ (chain.open => (flags.c <=> x >= y))
  <2>1. PICK k \in {0, 1} : x - y = z - (1 - k) * W /\ (chain.open => k = Carry(flags))
    BY <1>1, <1>3, Zenon DEF Exact
  <2> DEFINE s == x - y
  <2>2. s \in Int /\ -W <= s /\ s < 2 * W /\ s < W /\ (s < 0 <=> ~(x >= y))
    BY <1>1, SMT
  <2>3. (s < 0 <=> k = 0) /\ z = (IF s < 0 THEN s + W ELSE s)
    <3>1. CASE k = 0
      BY <1>1, <2>1, <3>1, SMT
    <3>2. CASE k = 1
      BY <1>1, <2>1, <3>2, SMT
    <3> QED
      BY <3>1, <3>2
  <2> HIDE DEF s, W, x, y, z
  <2>4. z = s % W
    BY <1>1, <2>2, <2>3, NearMod
  <2>5. chain.open => (flags.c <=> k = 1)
    BY <1>1, <2>1 DEF Carry
  <2>6. chain.open => (flags.c <=> x >= y)
    BY <1>1, <2>2, <2>3, <2>5, SMT
  <2> QED
    BY <2>4, <2>6 DEF s
<1> QED
  BY <1>2, <1>3, Zenon DEF SumsAreExact
LEMMA InvTold == Inv => OrderIsTold
<1> SUFFICES ASSUME Inv, fresh PROVE OrderIsTold
  BY DEF OrderIsTold
<1> DEFINE x == chain.x
           y == chain.y
           z == chain.z
           W == chain.weight
           X == SignedBelow(W, x)
           Y == SignedBelow(W, y)
           cond == Conditions(flags)
<1>1. /\ x \in Nat /\ x < W /\ y \in Nat /\ y < W /\ z \in Nat /\ z < W /\ W \in Nat \ {0}
      /\ Exact(flags, chain) /\ Told(flags, chain)
  BY DEF Inv, AluTypeOK, Exact, Chain
<1>2. /\ flags.n \in BOOLEAN /\ flags.z \in BOOLEAN /\ flags.c \in BOOLEAN
      /\ flags.v \in BOOLEAN
  BY FlagsAreBoolean DEF Inv, AluTypeOK
<1>3. /\ cond.CS = flags.c /\ cond.CC = ~flags.c /\ cond.GE = (flags.n = flags.v)
      /\ cond.LT = (flags.n # flags.v) /\ cond.VC = ~flags.v /\ cond.VS = flags.v
      /\ cond.EQ = flags.z /\ cond.NE = ~flags.z
      /\ cond.HI = (flags.c /\ ~flags.z) /\ cond.LS = (~flags.c \/ flags.z)
      /\ cond.GT = (~flags.z /\ flags.n = flags.v) /\ cond.LE = (flags.z \/ flags.n # flags.v)
  BY DEF Conditions
<1>4. X \in Int /\ Y \in Int /\ (X = Y <=> x = y)
  BY <1>1, SMT DEF SignedBelow
<1>5. chain.op = "add" => (flags.v <=> ~Fits(W, X + Y))
  BY <1>1, Zenon DEF Told
<1>6. ASSUME chain.op = "sub"
      PROVE  /\ flags.c <=> x >= y
             /\ flags.v <=> ~Fits(W, X - Y)
             /\ (flags.n # flags.v) <=> X < Y
             /\ chain.words = 1 => (flags.z <=> x = y)
  <2>1. /\ flags.v <=> ~Fits(W, X - Y)
        /\ (flags.n # flags.v) <=> X < Y
        /\ chain.words = 1 => (flags.z <=> z = 0)
        /\ chain.open
    BY <1>1, <1>6, Zenon DEF Told
  <2>2. flags.c <=> x >= y
    BY <1>6, <2>1, InvExact DEF SumsAreExact
  <2>3. PICK k \in {0, 1} : x - y = z - (1 - k) * W
    BY <1>1, <1>6, Zenon DEF Exact
  <2>4. z = 0 <=> x = y
    <3>1. CASE k = 0
      BY <1>1, <2>3, <3>1, SMT
    <3>2. CASE k = 1
      <4>1. (1 - k) * W = 0
        BY <1>1, <3>2
      <4> HIDE DEF x, y, z, W
      <4>2. x - y = z
        BY <1>1, <2>3, <4>1, SMT
      <4> QED
        BY <1>1, <4>2, SMT
    <3> QED
      BY <3>1, <3>2
  <2> QED
    BY <2>1, <2>2, <2>4, Zenon
<1> DEFINE n == flags.n
           v == flags.v
           c == flags.c
           zf == flags.z
<1> HIDE DEF X, Y, x, y, z, W, cond
<1>7. x \in Int /\ y \in Int
  BY <1>1
<1>8. ASSUME chain.op = "sub"
      PROVE  /\ cond.CS <=> x >= y
             /\ cond.CC <=> x < y
             /\ cond.GE <=> X >= Y
             /\ cond.LT <=> X < Y
             /\ cond.VC <=> Fits(W, X - Y)
  <2>1. (n = v) <=> ~(n # v)
    OBVIOUS
  <2>2. (x < y <=> ~(x >= y)) /\ (X >= Y <=> ~(X < Y))
    BY <1>4, <1>7, SMT
  <2>3. cond.VC <=> Fits(W, X - Y)
    BY <1>3, <1>6, <1>8, Zenon
  <2>4. (cond.CS <=> x >= y) /\ (cond.CC <=> x < y)
    BY <1>3, <1>6, <1>8, <2>2, Zenon
  <2>5. (cond.GE <=> X >= Y) /\ (cond.LT <=> X < Y)
    BY <1>3, <1>6, <1>8, <2>1, <2>2, Zenon
  <2> QED
    BY <2>3, <2>4, <2>5
<1>9. ASSUME chain.op = "sub", chain.words = 1
      PROVE  /\ cond.EQ <=> X = Y
             /\ cond.NE <=> X # Y
             /\ cond.HI <=> x > y
             /\ cond.LS <=> x <= y
             /\ cond.GT <=> X > Y
             /\ cond.LE <=> X <= Y
  <2>1. (n = v) <=> ~(n # v)
    OBVIOUS
  <2>2. /\ x > y <=> x >= y /\ ~(x = y)
        /\ x <= y <=> ~(x >= y) \/ x = y
        /\ X > Y <=> ~(X < Y) /\ ~(X = Y)
        /\ X <= Y <=> X < Y \/ X = Y
    BY <1>4, <1>7, SMT
  <2>3. (cond.EQ <=> X = Y) /\ (cond.NE <=> X # Y)
    BY <1>3, <1>4, <1>6, <1>9, Zenon
  <2>4. (cond.HI <=> x > y) /\ (cond.LS <=> x <= y)
    BY <1>3, <1>6, <1>9, <2>2, Zenon
  <2>5. (cond.GT <=> X > Y) /\ (cond.LE <=> X <= Y)
    BY <1>3, <1>4, <1>6, <1>9, <2>1, <2>2, Zenon
  <2> QED
    BY <2>3, <2>4, <2>5
<1>10. chain.op = "add" => (cond.VS <=> ~Fits(W, X + Y))
  BY <1>3, <1>5, Zenon
<1> QED
  BY <1>8, <1>9, <1>10 DEF OrderIsTold, X, Y, x, y, W, cond

-----------------------------------------------------------------------------
(***************************************************************************)
(* Shifts.                                                                 *)
(***************************************************************************)
\* The powers of two are defined, and are what they are.
LEMMA Weights ==
    /\ Bits \in Nat \ {0} /\ Weight[0] = 1
    /\ \A i \in 0..Bits : Weight[i] \in Nat \ {0}
    /\ \A i \in 1..Bits : Weight[i] = 2 * Weight[i - 1]
    /\ Half = Weight[Bits - 1] /\ Modulus = Weight[Bits]
<1> DEFINE W == Weight
           Turn(g, i) == IF i = 0 THEN 1 ELSE 2 * g[i - 1]
           step == [i \in 1..Bits |-> [w \in Nat |-> 2 * w]]
           S == [i \in 0..Bits |-> Nat \ {0}]
<1>1. Bits \in Nat \ {0} /\ Bits \in Nat /\ 1 \in Nat
  BY ShifterAssumption
<1>2. PICK f : /\ f \in [0..Bits -> Nat] /\ f[0] = 1
               /\ \A i \in 1..Bits : f[i] = step[i][f[i - 1]]
  <2>1. step \in [1..Bits -> [Nat -> Nat]]
    OBVIOUS
  <2> HIDE DEF step
  <2>2. PICK f : f \in Recursions(Bits, Nat, 1, step)
    BY <1>1, <2>1, RecursionExists, Zenon
  <2> QED
    BY <2>2 DEF Recursions
<1>3. \A i \in 0..Bits : f[i] = Turn(f, i)
  <2>1. ASSUME NEW i \in 1..Bits PROVE f[i] = 2 * f[i - 1] /\ i # 0
    <3>1. f[i - 1] \in Nat /\ i # 0
      BY <1>1, <1>2
    <3>2. step[i] = [w \in Nat |-> 2 * w]
      OBVIOUS
    <3>3. f[i] = step[i][f[i - 1]]
      BY <1>2
    <3> QED
      BY <3>1, <3>2, <3>3, Zenon
  <2>2. \A i \in 0..Bits : i = 0 \/ i \in 1..Bits
    BY <1>1, SMT
  <2> QED
    BY <1>2, <2>1, <2>2
<1>4. f = [i \in 0..Bits |-> Turn(f, i)]
  BY <1>2, <1>3
<1>5. W = [i \in 0..Bits |-> Turn(W, i)]
  BY <1>4 DEF Weight
<1>6. \A i \in 0..Bits : W[i] = Turn(W, i)
  BY <1>5
<1> HIDE DEF W
<1>7. W[0] = 1 /\ \A i \in 1..Bits : W[i] = 2 * W[i - 1]
  <2>1. 0 \in 0..Bits /\ \A i \in 1..Bits : i \in 0..Bits /\ i # 0
    BY <1>1, SMT
  <2> QED
    BY <1>6, <2>1
<1>8. \A i \in 0..Bits : W[i] \in S[i]
  <2>1. W[0] \in S[0]
    BY <1>1, <1>7
  <2>2. ASSUME NEW i \in 1..Bits, W[i - 1] \in S[i - 1]
        PROVE  W[i] \in S[i]
    <3>1. i - 1 \in 0..Bits /\ i \in 0..Bits
      BY <1>1, SMT
    <3>2. W[i - 1] \in Nat \ {0} /\ W[i] = 2 * W[i - 1]
      BY <1>7, <2>2, <3>1
    <3> DEFINE w == W[i - 1]
    <3>3. 2 * w \in Nat \ {0}
      <4> HIDE DEF w
      <4> QED
        BY <3>2, SMT DEF w
    <3> QED
      BY <3>1, <3>2, <3>3
  <2> HIDE DEF S
  <2> QED
    BY <1>1, <2>1, <2>2, RecursionStays, Zenon
<1>9. Half = W[Bits - 1] /\ Modulus = W[Bits]
  <2>1. Bits \in 1..Bits
    BY <1>1
  <2> QED
    BY <1>7, <2>1, ShifterAssumption DEF Modulus, W
<1> QED
  BY <1>1, <1>7, <1>8, <1>9 DEF W

\* The power of a sum.
LEMMA WeightSum ==
    ASSUME NEW i \in 0..Bits, NEW j \in 0..Bits, i + j <= Bits
    PROVE  Weight[i + j] = Weight[i] * Weight[j]
<1> DEFINE n == Bits - i
           S == [k \in 0..n |-> {Weight[i] * Weight[k]}]
           f == [k \in 0..n |-> Weight[i + k]]
<1>1. n \in Nat /\ j \in 0..n /\ Bits \in Nat
  BY Weights
<1>2. f[0] \in S[0]
  <2>1. f[0] = Weight[i] /\ Weight[0] = 1 /\ Weight[i] \in Nat
    BY <1>1, Weights
  <2> QED
    BY <1>1, <2>1
<1>3. ASSUME NEW k \in 1..n, f[k - 1] \in S[k - 1] PROVE f[k] \in S[k]
  <2>1. /\ k - 1 \in 0..n /\ k \in 0..n /\ i + k \in 1..Bits /\ (i + k) - 1 = i + (k - 1)
        /\ k \in 1..Bits
    BY <1>1, SMT
  <2>2. Weight[i + (k - 1)] = Weight[i] * Weight[k - 1]
    BY <1>3, <2>1
  <2>3. Weight[i + k] = 2 * Weight[i + (k - 1)] /\ Weight[k] = 2 * Weight[k - 1]
    BY <2>1, Weights
  <2>4. Weight[i] \in Nat /\ Weight[k - 1] \in Nat
    <3>1. k - 1 \in 0..Bits
      BY <1>1, <2>1, SMT
    <3> QED
      BY <3>1, Weights
  <2>5. 2 * (Weight[i] * Weight[k - 1]) = Weight[i] * (2 * Weight[k - 1])
    BY <2>4, SMT
  <2> QED
    BY <2>1, <2>2, <2>3, <2>5
<1>4. \A k \in 0..n : f[k] \in S[k]
  <2> HIDE DEF f, S, n
  <2> QED
    BY <1>1, <1>2, <1>3, RecursionStays, Zenon
<1> QED
  BY <1>1, <1>4

\* Quotient and remainder of a number that may be negative.
LEMMA IntDivUnique ==
    ASSUME NEW p \in Nat \ {0}, NEW w \in Int, NEW b \in 0..(p - 1), NEW a, a = p * w + b
    PROVE  a \div p = w /\ a % p = b
<1> DEFINE q == a \div p
<1>1. a \in Int /\ a % p = b
  BY ModShift
<1>2. q \in Int /\ a = p * q + b
  BY <1>1, IntDivMod
<1> HIDE DEF q
<1>3. p * q = p * w
  <2> DEFINE u == p * q
             v == p * w
  <2>1. u \in Int /\ v \in Int /\ a = u + b /\ a = v + b
    BY <1>2
  <2> HIDE DEF u, v
  <2>2. u = v
    BY <2>1, SMT
  <2> QED
    BY <2>2 DEF u, v
<1>4. q = w
  <2>1. p * (q - w) = 0
    BY <1>2, <1>3, SMT
  <2>2. q - w = 0
    <3> DEFINE z == q - w
    <3>1. z \in Int /\ p * z = 0
      BY <1>2, <2>1
    <3> HIDE DEF z
    <3>2. CASE z >= 1
      <4>1. p * z >= p
        BY <3>1, <3>2, SMT
      <4> QED
        BY <3>1, <4>1
    <3>3. CASE z <= -1
      <4>1. p * z <= -p
        BY <3>1, <3>3, SMT
      <4> QED
        BY <3>1, <4>1
    <3> QED
      BY <3>1, <3>2, <3>3 DEF z
  <2> QED
    BY <1>2, <2>2
<1> QED
  BY <1>1, <1>4 DEF q

\* The next bit of a number.
LEMMA NextBit ==
    ASSUME NEW p \in Nat \ {0}, NEW x \in Int
    PROVE  /\ (x \div p) \div 2 = x \div (2 * p)
           /\ x % (2 * p) = p * ((x \div p) % 2) + (x % p)
           /\ (x \div p) % 2 \in {0, 1}
<1> DEFINE q == x \div p
           r == x % p
           g == q \div 2
           e == q % 2
<1>1. q \in Int /\ r \in 0..(p - 1) /\ x = p * q + r
  BY IntDivMod
<1> HIDE DEF q, r
<1>2. g \in Int /\ e \in {0, 1} /\ q = 2 * g + e
  BY <1>1, SMT
<1> HIDE DEF g, e
<1>3. x = (2 * p) * g + (p * e + r)
  BY <1>1, <1>2, SMT
<1>4. p * e + r \in 0..(2 * p - 1) /\ 2 * p \in Nat \ {0}
  BY <1>1, <1>2, SMT
<1>5. x \div (2 * p) = g /\ x % (2 * p) = p * e + r
  <2> DEFINE b == p * e + r
             t == 2 * p
  <2>1. t \in Nat \ {0} /\ b \in 0..(t - 1) /\ x = t * g + b
    BY <1>3, <1>4
  <2> HIDE DEF b, t
  <2>2. x \div t = g /\ x % t = b
    BY <1>2, <2>1, IntDivUnique
  <2> QED
    BY <2>2 DEF b, t
<1> QED
  BY <1>2, <1>5 DEF q, r, g, e

\* What a shift by k is made from.
LEMMA WeightsAt ==
    ASSUME NEW k \in 1..Bits
    PROVE  /\ k - 1 \in 0..Bits /\ k \in 0..Bits /\ Bits - k \in 0..Bits /\ Bits \in Nat
           /\ Weight[k - 1] \in Nat \ {0} /\ Weight[Bits - k] \in Nat \ {0}
           /\ Weight[k] = 2 * Weight[k - 1]
           /\ Weight[k - 1] * Weight[Bits - k] = Half
           /\ Half \in Nat \ {0} /\ Modulus = 2 * Half /\ Word = 0..(2 * Half - 1)
<1>1. Bits \in Nat
  BY Weights
<1>2. k - 1 \in 0..Bits /\ k \in 0..Bits /\ Bits - k \in 0..Bits
      /\ (k - 1) + (Bits - k) = Bits - 1 /\ Bits - 1 <= Bits
  BY <1>1
<1>3. Weight[(k - 1) + (Bits - k)] = Weight[k - 1] * Weight[Bits - k]
  BY <1>2, WeightSum
<1> QED
  BY <1>1, <1>2, <1>3, Weights, Constants DEF Word

\* Outcomes are equal if their parts are.
LEMMA OutSame ==
    ASSUME NEW v, NEW w, v = w, NEW c \in BOOLEAN, NEW d \in BOOLEAN, c <=> d
    PROVE  Out(v, c) = Out(w, d)
<1>1. c = d
  OBVIOUS
<1> QED
  BY <1>1

LEMMA CarriesAreBoolean ==
    \A x, i : Sign(x) \in BOOLEAN /\ Bit(x, i) \in BOOLEAN
BY DEF Sign, Bit

\* What BarrelShift, with an amount from a register, leaves after j bits.
Shifted(x, type, j, c) == BarrelShift(x, type, j, c, TRUE)

LEMMA ShiftedIs ==
    ASSUME NEW x, NEW c, NEW j \in Nat
    PROVE  /\ Shifted(x, "LSL", j, c) = IF j = 0 THEN Out(x, c) ELSE Lsl(x, j)
           /\ Shifted(x, "LSR", j, c) = IF j = 0 THEN Out(x, c) ELSE Lsr(x, j)
           /\ Shifted(x, "ASR", j, c) = IF j = 0 THEN Out(x, c) ELSE Asr(x, j)
           /\ Shifted(x, "ROR", j, c) = IF j = 0 THEN Out(x, c) ELSE Ror(x, j)
BY DEF Shifted, BarrelShift

LEMMA LslValue ==
    ASSUME NEW x \in Word, NEW c, NEW j \in Nat
    PROVE  Shifted(x, "LSL", j, c).value = IF j < Bits THEN (x * Weight[j]) % Modulus ELSE 0
<1>1. CASE j = 0
  <2>1. x * Weight[j] = x /\ 0 < Bits
    BY <1>1, Weights, Constants
  <2>2. x % Modulus = x
    BY Constants, ModSmall
  <2> QED
    BY <1>1, <2>1, <2>2, ShiftedIs DEF Out
<1>2. CASE j # 0
  BY <1>2, ShiftedIs, Weights DEF Lsl, Out
<1> QED
  BY <1>1, <1>2

\* The bit that a shift to the left drops.
LEMMA LslBit ==
    ASSUME NEW x \in Word, NEW k \in 1..Bits
    PROVE  Sign((x * Weight[k - 1]) % Modulus) <=> Bit(x, Bits - k)
<1> DEFINE h == Weight[k - 1]
           p == Weight[Bits - k]
           q == x \div p
           r == x % p
           g == q \div 2
           e == q % 2
<1>1. /\ h \in Nat \ {0} /\ p \in Nat \ {0} /\ h * p = Half /\ Half \in Nat \ {0}
      /\ Modulus = 2 * Half /\ x \in Nat
  BY WeightsAt
<1>2. q \in Nat /\ r \in 0..(p - 1) /\ x = p * q + r
  BY <1>1, DivMod
<1>3. Bit(x, Bits - k) <=> e = 1
  BY DEF Bit
<1> HIDE DEF h, p, q, r
<1>4. g \in Nat /\ e \in {0, 1} /\ q = 2 * g + e
  BY <1>2, SMT
<1> HIDE DEF g, e
<1>5. x * h = Modulus * g + (Half * e + r * h)
  <2>1. x * h = (h * p) * q + r * h
    BY <1>1, <1>2, SMT
  <2>2. x * h = Half * q + r * h
    BY <1>1, <2>1
  <2>3. Half * q = 2 * Half * g + Half * e
    BY <1>1, <1>4, SMT
  <2> DEFINE u == r * h
             v == Half * q
             w == Half * g
             z == Half * e
  <2>4. u \in Int /\ v \in Int /\ w \in Int /\ z \in Int
    BY <1>1, <1>2, <1>4
  <2>5. x * h = v + u /\ v = 2 * w + z /\ Modulus * g = 2 * w
    BY <1>1, <1>4, <2>2, <2>3, SMT
  <2> HIDE DEF u, v, w, z
  <2>6. x * h = 2 * w + (z + u)
    BY <2>4, <2>5, SMT
  <2> QED
    BY <2>5, <2>6 DEF u, z
<1>6. r * h \in 0..(Half - 1)
  <2>1. r * h >= 0 /\ r * h <= (p - 1) * h /\ (p - 1) * h = Half - h
    BY <1>1, <1>2, SMT
  <2> DEFINE u == r * h
             v == (p - 1) * h
  <2>2. u \in Int /\ u >= 0 /\ u <= v /\ v = Half - h
    BY <1>1, <1>2, <2>1
  <2> HIDE DEF u, v
  <2>3. u \in 0..(Half - 1)
    BY <1>1, <2>2, SMT
  <2> QED
    BY <2>3 DEF u
<1> DEFINE u == r * h
           b == Half * e + u
<1>7. b \in Nat /\ b < Modulus /\ (b >= Half <=> e = 1)
  <2>1. u \in 0..(Half - 1)
    BY <1>6
  <2> HIDE DEF u
  <2>2. CASE e = 0
    BY <1>1, <2>1, <2>2
  <2>3. CASE e = 1
    BY <1>1, <2>1, <2>3
  <2> QED
    BY <1>4, <2>2, <2>3
<1>8. (x * h) % Modulus = b
  <2>1. x * h = Modulus * g + b /\ Modulus \in Nat \ {0}
    BY <1>1, <1>5
  <2> HIDE DEF b
  <2> QED
    BY <1>4, <1>7, <2>1, ModUnique
<1> QED
  BY <1>3, <1>7, <1>8 DEF Sign, h

LEMMA LslSteps ==
    ASSUME NEW x \in Word, NEW c, NEW k \in Nat \ {0}
    PROVE  Shifted(x, "LSL", k, c) = OneStep(Shifted(x, "LSL", k - 1, c).value, "LSL")
<1> DEFINE M == Modulus
           v == Shifted(x, "LSL", k - 1, c).value
<1>1. Bits \in Nat \ {0} /\ k - 1 \in Nat /\ M \in Nat \ {0} /\ x \in Nat
  BY Weights, Constants DEF Word
<1>2. OneStep(v, "LSL") = Out((2 * v) % M, Sign(v))
  BY DEF OneStep
<1>3. Shifted(x, "LSL", k, c) = Lsl(x, k)
  BY ShiftedIs
<1>4. CASE k <= Bits
  <2> DEFINE h == Weight[k - 1]
             y == x * h
  <2>1. h \in Nat \ {0} /\ Weight[k] = 2 * h /\ k \in 1..Bits /\ k - 1 < Bits
    BY <1>1, <1>4, WeightsAt
  <2>2. v = y % M
    BY <1>1, <2>1, LslValue
  <2>3. Sign(v) <=> Bit(x, Bits - k)
    BY <2>1, <2>2, LslBit
  <2>4. (2 * v) % M = (2 * y) % M
    <3> DEFINE a == y \div M
               z == y % M
               d == (2 * z) \div M
               b == (2 * z) % M
    <3>1. y \in Nat
      <4> HIDE DEF h
      <4> QED
        BY <1>1, <2>1
    <3> HIDE DEF y, M
    <3>2. a \in Nat /\ z \in Nat /\ y = M * a + z
      BY <1>1, <3>1, DivMod
    <3> HIDE DEF a, z
    <3>3. 2 * z \in Nat
      BY <3>2
    <3>4. d \in Nat /\ b \in 0..(M - 1) /\ 2 * z = M * d + b
      BY <1>1, <3>3, DivMod
    <3> HIDE DEF d, b
    <3>5. 2 * y = M * (2 * a + d) + b
      <4>1. M * (2 * a + d) = 2 * (M * a) + M * d
        BY <1>1, <3>2, <3>4, SMT
      <4> DEFINE A == M * a
                 D == M * d
      <4>2. A \in Nat /\ D \in Nat /\ y = A + z /\ 2 * z = D + b /\ M * (2 * a + d) = 2 * A + D
        BY <1>1, <3>2, <3>4, <4>1
      <4> HIDE DEF A, D
      <4> DEFINE E == M * (2 * a + d)
      <4>3. E = 2 * A + D
        BY <4>2
      <4> HIDE DEF E
      <4>4. 2 * y = E + b
        BY <3>1, <3>2, <3>4, <4>2, <4>3, SMT
      <4> QED
        BY <4>4 DEF E
    <3>6. (2 * y) % M = b
      <4> DEFINE w == 2 * a + d
      <4>1. w \in Nat /\ b \in Nat /\ b < M
        BY <1>1, <3>2, <3>4
      <4> HIDE DEF w
      <4>2. (M * w + b) % M = b
        BY <1>1, <4>1, ModUnique
      <4> QED
        BY <3>5, <4>2 DEF w
    <3> QED
      BY <2>2, <3>6 DEF b, z
  <2>5. 2 * y = x * Weight[k]
    <3> HIDE DEF h
    <3> QED
      BY <1>1, <2>1, SMT
  <2>6. CASE k < Bits
    <3>1. Lsl(x, k) = Out((x * Weight[k]) % M, Bit(x, Bits - k))
      BY <1>1, <2>6 DEF Lsl
    <3> HIDE DEF v, M, y, h
    <3>2. Out((2 * v) % M, Sign(v)) = Out((x * Weight[k]) % M, Bit(x, Bits - k))
      BY <2>3, <2>4, <2>5, CarriesAreBoolean, OutSame
    <3> QED
      BY <1>2, <1>3, <3>1, <3>2 DEF v
  <2>7. CASE k = Bits
    <3>1. (2 * y) % M = 0
      <4>1. 2 * y = M * x + 0
        BY <1>1, <2>5, <2>7, Weights
      <4>2. 0 \in Nat /\ 0 < M
        BY <1>1
      <4> HIDE DEF M, y
      <4> QED
        BY <1>1, <4>1, <4>2, ModUnique
    <3>2. Bits - k = 0
      BY <1>1, <2>7
    <3> QED
      <4> DEFINE d == k = Bits /\ Bit(x, 0)
      <4>1. Lsl(x, k) = Out(0, d)
        BY <1>1, <2>7 DEF Lsl
      <4>2. d \in BOOLEAN /\ (Sign(v) <=> d)
        BY <2>3, <2>7, <3>2
      <4> HIDE DEF d, v, M, y
      <4>3. Out((2 * v) % M, Sign(v)) = Out(0, d)
        BY <2>4, <3>1, <4>2, CarriesAreBoolean, OutSame
      <4> QED
        BY <1>2, <1>3, <4>1, <4>3 DEF v
  <2> QED
    BY <1>1, <1>4, <2>6, <2>7
<1>5. CASE k > Bits
  <2>1. v = 0
    BY <1>1, <1>5, LslValue
  <2>2. ~Sign(0) /\ (2 * 0) % M = 0
    BY <1>1, Constants, ModSmall DEF Sign
  <2> DEFINE d == k = Bits /\ Bit(x, 0)
  <2>3. Lsl(x, k) = Out(0, d)
    BY <1>1, <1>5 DEF Lsl
  <2>4. d \in BOOLEAN /\ (Sign(v) <=> d)
    BY <1>1, <1>5, <2>1, <2>2
  <2> HIDE DEF d, v, M
  <2>5. Out((2 * v) % M, Sign(v)) = Out(0, d)
    BY <2>1, <2>2, <2>4, CarriesAreBoolean, OutSame
  <2> QED
    BY <1>2, <1>3, <2>3, <2>5 DEF v
<1> QED
  BY <1>1, <1>4, <1>5

\* The top bit of a word is its sign, and there is nothing above it.
LEMMA TopBit ==
    ASSUME NEW x \in Word
    PROVE  /\ x \div Weight[Bits] = 0 /\ x % Weight[Bits] = x
           /\ Bit(x, Bits - 1) <=> Sign(x)
<1>1. /\ Half \in Nat \ {0} /\ Modulus = 2 * Half /\ x \in 0..(2 * Half - 1)
      /\ Half = Weight[Bits - 1] /\ Modulus = Weight[Bits]
  BY Weights, Constants DEF Word
<1>2. x = Modulus * 0 + x /\ x \in 0..(Modulus - 1) /\ Modulus \in Nat \ {0}
  BY <1>1
<1>3. x \div Modulus = 0 /\ x % Modulus = x
  BY <1>2, IntDivUnique
<1>4. Bit(x, Bits - 1) <=> (x \div Half) % 2 = 1
  BY <1>1 DEF Bit
<1>5. \A w \in {0, 1}, b \in 0..(Half - 1) : x = Half * w + b => x \div Half = w
  <2>1. ASSUME NEW w \in Int, NEW b \in 0..(Half - 1), x = Half * w + b PROVE x \div Half = w
    BY <1>1, <2>1, IntDivUnique
  <2> QED
    BY <2>1
<1>6. Sign(x) => x \div Half = 1
  <2>1. Sign(x) => x = Half * 1 + (x - Half) /\ x - Half \in 0..(Half - 1)
    BY <1>1 DEF Sign
  <2> QED
    BY <1>5, <2>1
<1>7. ~Sign(x) => x \div Half = 0
  <2>1. ~Sign(x) => x = Half * 0 + x /\ x \in 0..(Half - 1)
    BY <1>1 DEF Sign
  <2> QED
    BY <1>5, <2>1
<1>8. Bit(x, Bits - 1) <=> Sign(x)
  <2>1. 0 % 2 = 0 /\ 1 % 2 = 1
    OBVIOUS
  <2> QED
    BY <1>4, <1>6, <1>7, <2>1
<1> QED
  BY <1>1, <1>3, <1>8

\* Half of what is left is what one bit more leaves.
LEMMA HalfAgain ==
    ASSUME NEW x \in Int, NEW k \in 1..Bits
    PROVE  (x \div Weight[k - 1]) \div 2 = x \div Weight[k]
BY WeightsAt, NextBit

LEMMA LsrValue ==
    ASSUME NEW x \in Word, NEW c, NEW j \in Nat
    PROVE  Shifted(x, "LSR", j, c).value = IF j < Bits THEN x \div Weight[j] ELSE 0
<1>1. CASE j = 0
  <2>1. x \div Weight[j] = x /\ 0 < Bits
    BY <1>1, Weights, Constants
  <2> QED
    BY <1>1, <2>1, ShiftedIs DEF Out
<1>2. CASE j # 0
  BY <1>2, ShiftedIs, Weights DEF Lsr, Out
<1> QED
  BY <1>1, <1>2

LEMMA LsrSteps ==
    ASSUME NEW x \in Word, NEW c, NEW k \in Nat \ {0}
    PROVE  Shifted(x, "LSR", k, c) = OneStep(Shifted(x, "LSR", k - 1, c).value, "LSR")
<1> DEFINE v == Shifted(x, "LSR", k - 1, c).value
           d == k = Bits /\ Sign(x)
<1>1. Bits \in Nat \ {0} /\ k - 1 \in Nat /\ x \in Int
  BY Weights, Constants
<1>2. OneStep(v, "LSR") = Out(v \div 2, v % 2 = 1)
  BY DEF OneStep
<1>3. Shifted(x, "LSR", k, c) = Lsr(x, k)
  BY ShiftedIs
<1>4. CASE k <= Bits
  <2>1. k \in 1..Bits /\ k - 1 < Bits
    BY <1>1, <1>4
  <2>2. v = x \div Weight[k - 1]
    BY <1>1, <2>1, LsrValue
  <2>3. v \div 2 = x \div Weight[k]
    BY <1>1, <2>1, <2>2, HalfAgain
  <2>4. v % 2 = 1 <=> Bit(x, k - 1)
    BY <2>2 DEF Bit
  <2> HIDE DEF v
  <2>5. CASE k < Bits
    <3>1. Lsr(x, k) = Out(x \div Weight[k], Bit(x, k - 1))
      BY <1>1, <2>5 DEF Lsr
    <3>2. Out(v \div 2, v % 2 = 1) = Out(x \div Weight[k], Bit(x, k - 1))
      BY <2>3, <2>4, CarriesAreBoolean, OutSame
    <3> QED
      BY <1>2, <1>3, <3>1, <3>2 DEF v
  <2>6. CASE k = Bits
    <3>1. Lsr(x, k) = Out(0, d)
      BY <1>1, <2>6 DEF Lsr
    <3>2. v \div 2 = 0 /\ (v % 2 = 1 <=> d) /\ d \in BOOLEAN
      BY <2>3, <2>4, <2>6, TopBit, CarriesAreBoolean
    <3> HIDE DEF d
    <3>3. Out(v \div 2, v % 2 = 1) = Out(0, d)
      BY <3>2, OutSame
    <3> QED
      BY <1>2, <1>3, <3>1, <3>3 DEF v
  <2> QED
    BY <1>1, <1>4, <2>5, <2>6
<1>5. CASE k > Bits
  <2>1. v = 0
    BY <1>1, <1>5, LsrValue
  <2>2. v \div 2 = 0 /\ (v % 2 = 1 <=> d) /\ d \in BOOLEAN
    BY <1>1, <1>5, <2>1
  <2>3. Lsr(x, k) = Out(0, d)
    BY <1>1, <1>5 DEF Lsr
  <2> HIDE DEF d, v
  <2>4. Out(v \div 2, v % 2 = 1) = Out(0, d)
    BY <2>2, OutSame
  <2> QED
    BY <1>2, <1>3, <2>3, <2>4 DEF v
<1> QED
  BY <1>1, <1>4, <1>5

\* What an arithmetic shift to the right leaves of a signed number, bit by bit.
LEMMA AsrBit ==
    ASSUME NEW x \in Word, NEW k \in 1..Bits, NEW v,
           v = (Signed(x) \div Weight[k - 1]) % Modulus
    PROVE  /\ (v \div 2) + (IF Sign(v) THEN Half ELSE 0) = (Signed(x) \div Weight[k]) % Modulus
           /\ v % 2 = 1 <=> Bit(x, k - 1)
<1> DEFINE s == Signed(x)
           h == Weight[k - 1]
           p == Weight[Bits - k]
           t == s \div h
           r == s % h
           g == t \div 2
<1>1. /\ h \in Nat \ {0} /\ p \in Nat \ {0} /\ h * p = Half /\ Half \in Nat \ {0}
      /\ Modulus = 2 * Half /\ x \in 0..(2 * Half - 1)
  BY WeightsAt, Zenon
<1>2. /\ s \in Int /\ -Half <= s /\ s < Half /\ (Sign(x) <=> s < 0)
      /\ s = x \/ x = s + 2 * Half
  BY <1>1 DEF Sign, Signed
<1>3. s \div Weight[k] = g
  BY <1>2, HalfAgain
<1>4. Bit(x, k - 1) <=> (x \div h) % 2 = 1
  BY DEF Bit
<1> HIDE DEF s, h, p
<1>5. t \in Int /\ r \in 0..(h - 1) /\ s = h * t + r
  BY <1>1, <1>2, IntDivMod
<1> HIDE DEF t, r
<1>6. -Half <= t /\ t < Half
  <2>1. CASE t >= 0
    <3>1. h * t >= t
      BY <1>1, <1>5, <2>1, SMT
    <3> DEFINE u == h * t
    <3>2. u \in Int /\ u >= t /\ s = u + r
      BY <1>1, <1>5, <3>1
    <3> HIDE DEF u
    <3> QED
      BY <1>1, <1>2, <1>5, <2>1, <3>2
  <2>2. CASE t < 0
    <3>1. t >= -p
      <4>1. ASSUME t <= -p - 1 PROVE FALSE
        <5>1. h * t <= h * (-p - 1) /\ h * (-p - 1) = -(h * p) - h
          BY <1>1, <1>5, <4>1, SMT
        <5> DEFINE u == h * t
                   w == h * (-p - 1)
        <5>2. u \in Int /\ w \in Int /\ u <= w /\ w = -Half - h /\ s = u + r
          BY <1>1, <1>5, <5>1
        <5> HIDE DEF u, w
        <5> QED
          BY <1>1, <1>2, <1>5, <5>2
      <4> QED
        BY <1>1, <1>5, <4>1
    <3>2. h * p >= p
      BY <1>1, SMT
    <3> QED
      BY <1>1, <1>5, <2>2, <3>1, <3>2
  <2> QED
    BY <1>5, <2>1, <2>2
<1>7. v = IF t < 0 THEN t + 2 * Half ELSE t
  <2>1. CASE t >= 0
    <3>1. t \in Nat /\ t < Modulus /\ Modulus \in Nat \ {0}
      BY <1>1, <1>5, <1>6, <2>1
    <3>2. t % Modulus = t
      BY <3>1, ModSmall
    <3> QED
      BY <2>1, <3>2, <1>5 DEF s, h, t
  <2>2. CASE t < 0
    <3> DEFINE b == t + 2 * Half
               w == -1
    <3>1. b \in 0..(Modulus - 1) /\ Modulus \in Nat \ {0} /\ w \in Int /\ t = Modulus * w + b
      BY <1>1, <1>5, <1>6, <2>2
    <3> HIDE DEF b, w
    <3>2. t % Modulus = b
      BY <3>1, IntDivUnique
    <3> QED
      BY <2>2, <3>2, <1>5 DEF s, h, t, b
  <2> QED
    BY <1>5, <2>1, <2>2
<1>8. g \in Int /\ -Half <= g /\ g < Half /\ (g < 0 <=> t < 0) /\ t % 2 \in {0, 1} /\ t = 2 * g + (t % 2)
  BY <1>1, <1>5, <1>6
<1>9. g % Modulus = IF g < 0 THEN g + 2 * Half ELSE g
  <2> HIDE DEF g
  <2>1. CASE g >= 0
    <3>1. g \in Nat /\ g < Modulus /\ Modulus \in Nat \ {0}
      BY <1>1, <1>8, <2>1
    <3>2. g % Modulus = g
      BY <3>1, ModSmall
    <3> QED
      BY <2>1, <3>2, <1>8
  <2>2. CASE g < 0
    <3> DEFINE b == g + 2 * Half
               w == -1
    <3>1. b \in 0..(Modulus - 1) /\ Modulus \in Nat \ {0} /\ w \in Int /\ g = Modulus * w + b
      BY <1>1, <1>8, <2>2
    <3> HIDE DEF b, w
    <3>2. g % Modulus = b
      BY <3>1, IntDivUnique
    <3> QED
      BY <2>2, <3>2 DEF b
  <2> QED
    BY <1>8, <2>1, <2>2
<1>10. Sign(v) <=> t < 0
  BY <1>1, <1>5, <1>6, <1>7 DEF Sign
<1>11. (v \div 2) + (IF Sign(v) THEN Half ELSE 0) = g % Modulus /\ (v % 2 = t % 2)
  <2>1. CASE t < 0
    <3>1. v = t + 2 * Half
      BY <1>7, <2>1
    <3>2. v \div 2 = g + Half /\ v % 2 = t % 2
      BY <1>1, <1>5, <1>8, <3>1
    <3>3. g < 0 /\ Sign(v)
      BY <1>8, <1>10, <2>1
    <3> QED
      BY <1>1, <1>8, <1>9, <3>2, <3>3
  <2>2. CASE ~(t < 0)
    <3>1. v = t
      BY <1>7, <2>2
    <3>2. v \div 2 = g /\ v % 2 = t % 2 /\ ~(g < 0) /\ ~Sign(v)
      BY <1>8, <1>10, <2>2, <3>1
    <3> QED
      BY <1>8, <1>9, <3>2
  <2> QED
    BY <2>1, <2>2
<1>12. (x \div h) % 2 = t % 2
  <2>1. CASE x = s
    BY <2>1 DEF t
  <2>2. CASE x = s + 2 * Half
    <3> DEFINE w == t + 2 * p
    <3>1. w \in Int /\ w % 2 = t % 2
      BY <1>1, <1>5
    <3>2. x = h * w + r
      <4>1. h * w = h * t + 2 * (h * p)
        BY <1>1, <1>5, SMT
      <4> DEFINE u == h * t
                 z == h * w
      <4>2. u \in Int /\ z \in Int /\ z = u + 2 * Half /\ s = u + r
        BY <1>1, <1>5, <4>1
      <4> HIDE DEF u, z
      <4>3. x = z + r
        BY <1>1, <1>2, <1>5, <2>2, <4>2
      <4> QED
        BY <4>3 DEF z
    <3> HIDE DEF w
    <3>3. x \div h = w
      BY <1>1, <1>5, <3>1, <3>2, IntDivUnique
    <3> QED
      BY <3>1, <3>3
  <2> QED
    BY <1>2, <2>1, <2>2
<1> QED
  BY <1>3, <1>4, <1>11, <1>12 DEF s, h

\* The sign is all that a whole shift leaves.
LEMMA AsrEnd ==
    ASSUME NEW x \in Word
    PROVE  /\ (Signed(x) \div Weight[Bits]) % Modulus = AllOnes(x)
           /\ (AllOnes(x) \div 2) + (IF Sign(AllOnes(x)) THEN Half ELSE 0) = AllOnes(x)
           /\ AllOnes(x) % 2 = 1 <=> Sign(x)
<1> DEFINE s == Signed(x)
           M == Modulus
           w == IF Sign(x) THEN -1 ELSE 0
<1>1. /\ Half \in Nat \ {0} /\ M = 2 * Half /\ x \in 0..(2 * Half - 1) /\ M = Weight[Bits]
      /\ M \in Nat \ {0}
  BY Weights, Constants DEF Word
<1>2. s = M * w + x /\ w \in Int /\ x \in 0..(M - 1)
  BY <1>1 DEF Sign, Signed
<1>3. s \div M = w
  <2> HIDE DEF s, w, M
  <2> QED
    BY <1>1, <1>2, IntDivUnique
<1>4. w % M = AllOnes(x)
  <2>1. CASE Sign(x)
    <3> DEFINE b == M - 1
               d == -1
    <3>1. b \in 0..(M - 1) /\ d \in Int /\ w = M * d + b
      BY <1>1, <2>1
    <3> HIDE DEF b, d, w, M
    <3>2. w % M = b
      BY <1>1, <3>1, IntDivUnique
    <3> QED
      BY <2>1, <3>2 DEF AllOnes, b, M
  <2>2. CASE ~Sign(x)
    <3>1. 0 \in Nat /\ 0 < M
      BY <1>1
    <3>2. 0 % M = 0
      <4> HIDE DEF M
      <4> QED
        BY <1>1, <3>1, ModSmall
    <3> QED
      BY <2>2, <3>2 DEF AllOnes
  <2> QED
    BY <2>1, <2>2
<1>5. CASE Sign(x)
  BY <1>1, <1>3, <1>4, <1>5 DEF AllOnes, Sign
<1>6. CASE ~Sign(x)
  BY <1>1, <1>3, <1>4, <1>6 DEF AllOnes, Sign
<1> QED
  BY <1>5, <1>6

LEMMA AsrValue ==
    ASSUME NEW x \in Word, NEW c, NEW j \in Nat
    PROVE  Shifted(x, "ASR", j, c).value
             = IF j < Bits THEN (Signed(x) \div Weight[j]) % Modulus ELSE AllOnes(x)
<1>1. CASE j = 0
  <2>1. Signed(x) \div Weight[j] = Signed(x) /\ 0 < Bits
    BY <1>1, Weights, Constants DEF Signed
  <2>2. Signed(x) % Modulus = x
    <3> DEFINE w == IF Sign(x) THEN -1 ELSE 0
    <3>1. /\ Modulus \in Nat \ {0} /\ w \in Int /\ x \in 0..(Modulus - 1)
          /\ Signed(x) = Modulus * w + x
      BY Constants DEF Signed
    <3> HIDE DEF w
    <3> QED
      BY <3>1, IntDivUnique
  <2> QED
    BY <1>1, <2>1, <2>2, ShiftedIs DEF Out
<1>2. CASE j # 0
  BY <1>2, ShiftedIs, Weights DEF Asr, Out
<1> QED
  BY <1>1, <1>2

LEMMA AsrSteps ==
    ASSUME NEW x \in Word, NEW c, NEW k \in Nat \ {0}
    PROVE  Shifted(x, "ASR", k, c) = OneStep(Shifted(x, "ASR", k - 1, c).value, "ASR")
<1> DEFINE v == Shifted(x, "ASR", k - 1, c).value
           u == (v \div 2) + (IF Sign(v) THEN Half ELSE 0)
<1>1. Bits \in Nat \ {0} /\ k - 1 \in Nat
  BY Weights
<1>2. OneStep(v, "ASR") = Out(u, v % 2 = 1)
  BY DEF OneStep
<1>3. Shifted(x, "ASR", k, c) = Asr(x, k)
  BY ShiftedIs
<1>4. CASE k <= Bits
  <2>1. k \in 1..Bits /\ k - 1 < Bits
    BY <1>1, <1>4
  <2>2. v = (Signed(x) \div Weight[k - 1]) % Modulus
    BY <1>1, <2>1, AsrValue
  <2>3. u = (Signed(x) \div Weight[k]) % Modulus /\ (v % 2 = 1 <=> Bit(x, k - 1))
    <3> HIDE DEF v
    <3> QED
      BY <2>1, <2>2, AsrBit
  <2> HIDE DEF v, u
  <2>4. CASE k < Bits
    <3>1. Asr(x, k) = Out((Signed(x) \div Weight[k]) % Modulus, Bit(x, k - 1))
      BY <1>1, <2>4 DEF Asr
    <3>2. Out(u, v % 2 = 1) = Out((Signed(x) \div Weight[k]) % Modulus, Bit(x, k - 1))
      BY <2>3, CarriesAreBoolean, OutSame
    <3> QED
      BY <1>2, <1>3, <3>1, <3>2 DEF v, u
  <2>5. CASE k = Bits
    <3>1. Asr(x, k) = Out(AllOnes(x), Sign(x))
      BY <1>1, <2>5 DEF Asr
    <3>2. u = AllOnes(x) /\ (v % 2 = 1 <=> Sign(x))
      BY <2>3, <2>5, TopBit, AsrEnd
    <3>3. Out(u, v % 2 = 1) = Out(AllOnes(x), Sign(x))
      BY <3>2, CarriesAreBoolean, OutSame
    <3> QED
      BY <1>2, <1>3, <3>1, <3>3 DEF v, u
  <2> QED
    BY <1>1, <1>4, <2>4, <2>5
<1>5. CASE k > Bits
  <2>1. v = AllOnes(x)
    BY <1>1, <1>5, AsrValue
  <2>2. u = AllOnes(x) /\ (v % 2 = 1 <=> Sign(x))
    <3> HIDE DEF v
    <3> QED
      BY <2>1, AsrEnd
  <2>3. Asr(x, k) = Out(AllOnes(x), Sign(x))
    BY <1>1, <1>5 DEF Asr
  <2> HIDE DEF v, u
  <2>4. Out(u, v % 2 = 1) = Out(AllOnes(x), Sign(x))
    BY <2>2, CarriesAreBoolean, OutSame
  <2> QED
    BY <1>2, <1>3, <2>3, <2>4 DEF v, u
<1> QED
  BY <1>1, <1>4, <1>5

\* A word turned right by i bits.
Turned(x, i) == (x \div Weight[i]) + (x % Weight[i]) * Weight[Bits - i]

LEMMA TurnedEnds ==
    ASSUME NEW x \in Word
    PROVE  Turned(x, 0) = x /\ Turned(x, Bits) = x
<1>1. /\ Weight[0] = 1 /\ Weight[Bits] \in Nat \ {0} /\ x \in Nat /\ Bits - 0 = Bits
      /\ Bits - Bits = 0
  BY Weights, Constants
<1>2. x \div 1 = x /\ x % 1 = 0
  BY <1>1
<1>3. Turned(x, 0) = x
  <2>1. Turned(x, 0) = x + 0 * Weight[Bits]
    BY <1>1, <1>2 DEF Turned
  <2> QED
    BY <1>1, <2>1
<1>4. Turned(x, Bits) = x
  <2>1. Turned(x, Bits) = 0 + x * 1
    BY <1>1, TopBit DEF Turned
  <2> QED
    BY <1>1, <2>1
<1> QED
  BY <1>3, <1>4

\* The bit that drops out comes in at the top.
LEMMA TurnedNext ==
    ASSUME NEW x \in Word, NEW k \in 1..Bits, NEW v, v = Turned(x, k - 1)
    PROVE  /\ (v \div 2) + (IF v % 2 = 1 THEN Half ELSE 0) = Turned(x, k)
           /\ v % 2 = 1 <=> Bit(x, k - 1)
<1> DEFINE h == Weight[k - 1]
           p == Weight[Bits - k]
           q == x \div h
           r == x % h
           g == q \div 2
           e == q % 2
           y == r * p
<1>1. /\ h \in Nat \ {0} /\ p \in Nat \ {0} /\ h * p = Half /\ Half \in Nat \ {0}
      /\ x \in Int /\ Weight[k] = 2 * h /\ Bits \in Nat
  BY WeightsAt
<1>2. Weight[Bits - (k - 1)] = 2 * p
  <2>1. Bits - (k - 1) \in 1..Bits /\ (Bits - (k - 1)) - 1 = Bits - k
    BY <1>1
  <2> QED
    BY <2>1, Weights
<1>3. Bit(x, k - 1) <=> e = 1
  BY DEF Bit
<1>4. q \in Int /\ r \in 0..(h - 1)
  BY <1>1, IntDivMod
<1>5. x \div (2 * h) = g /\ x % (2 * h) = h * e + r
  BY <1>1, NextBit
<1>6. v = q + r * (2 * p)
  BY <1>2 DEF Turned
<1>7. Turned(x, k) = g + (h * e + r) * p
  BY <1>1, <1>5 DEF Turned
<1> HIDE DEF h, p, q, r
<1>8. g \in Int /\ e \in {0, 1} /\ q = 2 * g + e
  BY <1>4, SMT
<1> HIDE DEF g, e
<1>9. y \in Int /\ r * (2 * p) = 2 * y
  BY <1>1, <1>4, SMT
<1>10. (h * e + r) * p = Half * e + y
  <2>1. (h * e + r) * p = (h * p) * e + r * p
    BY <1>1, <1>4, <1>8, SMT
  <2> QED
    BY <1>1, <2>1
<1> HIDE DEF y
<1>11. v = 2 * (g + y) + e
  BY <1>4, <1>6, <1>8, <1>9
<1>12. v \div 2 = g + y /\ v % 2 = e
  BY <1>8, <1>9, <1>11
<1>13. CASE e = 0
  BY <1>1, <1>3, <1>7, <1>8, <1>9, <1>10, <1>12, <1>13
<1>14. CASE e = 1
  BY <1>1, <1>3, <1>7, <1>8, <1>9, <1>10, <1>12, <1>14
<1> QED
  BY <1>8, <1>13, <1>14

\* Ror, whose two halves do not overlap.
LEMMA RorIsTurned ==
    ASSUME NEW x \in Word, NEW k \in 1..(Bits - 1)
    PROVE  (x \div Weight[k]) + ((x * Weight[Bits - k]) % Modulus) = Turned(x, k)
<1> DEFINE h == Weight[k]
           p == Weight[Bits - k]
           q == x \div h
           r == x % h
           y == r * p
<1>1. Bits \in Nat \ {0} /\ x \in Nat
  BY Weights, Constants
<1>2. k \in 0..Bits /\ Bits - k \in 0..Bits /\ k + (Bits - k) = Bits /\ Bits <= Bits
  BY <1>1
<1>3. Weight[k + (Bits - k)] = Weight[k] * Weight[Bits - k]
  BY <1>2, WeightSum
<1>4. h \in Nat \ {0} /\ p \in Nat \ {0} /\ Modulus = h * p /\ Modulus \in Nat \ {0}
  BY <1>2, <1>3, Weights
<1>5. Turned(x, k) = q + y
  BY DEF Turned
<1>6. q \in Nat /\ r \in 0..(h - 1) /\ x = h * q + r
  BY <1>1, <1>4, DivMod
<1> HIDE DEF h, p, q, r
<1>7. x * p = Modulus * q + y
  <2>1. x * p = (h * p) * q + r * p
    BY <1>4, <1>6, SMT
  <2> QED
    BY <1>4, <2>1
<1>8. y \in Nat /\ y < Modulus
  <2>1. r * p >= 0 /\ r * p <= (h - 1) * p /\ (h - 1) * p = h * p - p
    BY <1>4, <1>6, SMT
  <2> DEFINE w == (h - 1) * p
  <2>2. y \in Int /\ w \in Int /\ y >= 0 /\ y <= w /\ w = Modulus - p
    BY <1>4, <1>6, <2>1
  <2> HIDE DEF y, w
  <2> QED
    BY <1>4, <2>2
<1> HIDE DEF y
<1>9. (x * p) % Modulus = y
  BY <1>4, <1>6, <1>7, <1>8, ModUnique
<1> QED
  BY <1>5, <1>9 DEF h, p, q, r

LEMMA RorValue ==
    ASSUME NEW x \in Word, NEW c, NEW j \in Nat
    PROVE  Shifted(x, "ROR", j, c).value = Turned(x, j % Bits)
<1>1. Bits \in Nat \ {0} /\ j % Bits \in 0..(Bits - 1)
  BY Weights, DivMod
<1>2. CASE j = 0
  <2>1. j % Bits = 0
    BY <1>1, <1>2, ModSmall
  <2> QED
    BY <1>2, <2>1, ShiftedIs, TurnedEnds DEF Out
<1>3. CASE j # 0
  <2> DEFINE m == j % Bits
  <2>1. Shifted(x, "ROR", j, c) = Ror(x, j)
    BY <1>3, ShiftedIs
  <2>2. CASE m = 0
    BY <2>1, <2>2, TurnedEnds DEF Ror, Out
  <2>3. CASE m # 0
    <3>1. m \in 1..(Bits - 1)
      BY <1>1, <2>3
    <3>2. Ror(x, j).value = (x \div Weight[m]) + ((x * Weight[Bits - m]) % Modulus)
      BY <2>3 DEF Ror, Out
    <3> HIDE DEF m
    <3>3. Ror(x, j).value = Turned(x, m)
      BY <3>1, <3>2, RorIsTurned
    <3> QED
      BY <2>1, <3>3 DEF m
  <2> QED
    BY <2>2, <2>3
<1> QED
  BY <1>2, <1>3

LEMMA RorSteps ==
    ASSUME NEW x \in Word, NEW c, NEW k \in Nat \ {0}
    PROVE  Shifted(x, "ROR", k, c) = OneStep(Shifted(x, "ROR", k - 1, c).value, "ROR")
<1> DEFINE v == Shifted(x, "ROR", k - 1, c).value
           u == (v \div 2) + (IF v % 2 = 1 THEN Half ELSE 0)
           i == ((k - 1) % Bits) + 1
           m == k % Bits
<1>1. Bits \in Nat \ {0} /\ k - 1 \in Nat /\ (k - 1) + 1 = k /\ k # 0
  BY Weights
<1>2. OneStep(v, "ROR") = Out(u, v % 2 = 1)
  BY DEF OneStep
<1>3. Shifted(x, "ROR", k, c) = Ror(x, k)
  BY ShiftedIs
<1>4. i \in 1..Bits /\ i - 1 = (k - 1) % Bits
  BY <1>1, DivMod
<1>5. IF i < Bits THEN m = i ELSE m = 0 /\ i = Bits
  <2> DEFINE j == k - 1
  <2>1. j \in Nat /\ j + 1 = k
    BY <1>1
  <2> HIDE DEF j
  <2>2. /\ (j % Bits) + 1 < Bits => (j + 1) % Bits = (j % Bits) + 1
        /\ (j % Bits) + 1 = Bits => (j + 1) % Bits = 0
    BY <1>1, <2>1, DivStep
  <2> QED
    BY <1>1, <1>4, <2>1, <2>2 DEF j
<1> HIDE DEF i, m
<1>6. v = Turned(x, i - 1)
  BY <1>1, <1>4, RorValue
<1>7. u = Turned(x, i) /\ (v % 2 = 1 <=> Bit(x, i - 1))
  <2> HIDE DEF v
  <2> QED
    BY <1>4, <1>6, TurnedNext
<1> HIDE DEF u, v
<1>8. CASE i < Bits
  <2>1. m = i /\ m # 0 /\ i \in 1..(Bits - 1)
    BY <1>1, <1>4, <1>5, <1>8
  <2> DEFINE w == (x \div Weight[i]) + ((x * Weight[Bits - i]) % Modulus)
  <2>2. Ror(x, k) = Out(w, Bit(x, i - 1))
    BY <2>1 DEF Ror, m
  <2>3. w = Turned(x, i)
    BY <2>1, RorIsTurned
  <2> HIDE DEF w
  <2>4. Out(u, v % 2 = 1) = Out(w, Bit(x, i - 1))
    BY <1>7, <2>3, CarriesAreBoolean, OutSame
  <2> QED
    BY <1>2, <1>3, <2>2, <2>4 DEF u, v
<1>9. CASE ~(i < Bits)
  <2>1. m = 0 /\ i = Bits
    BY <1>5, <1>9
  <2>2. Ror(x, k) = Out(x, Sign(x))
    BY <2>1 DEF Ror, m
  <2>3. u = x /\ (v % 2 = 1 <=> Sign(x))
    BY <1>7, <2>1, TopBit, TurnedEnds
  <2>4. Out(u, v % 2 = 1) = Out(x, Sign(x))
    BY <2>3, CarriesAreBoolean, OutSame
  <2> QED
    BY <1>2, <1>3, <2>2, <2>4 DEF u, v
<1> QED
  BY <1>8, <1>9

\* One bit more, whatever the shift.
LEMMA ShiftedSteps ==
    ASSUME NEW x \in Word, NEW c, NEW type \in ShiftTypes, NEW k \in Nat \ {0}
    PROVE  Shifted(x, type, k, c) = OneStep(Shifted(x, type, k - 1, c).value, type)
<1>1. type = "LSL" \/ type = "LSR" \/ type = "ASR" \/ type = "ROR"
  BY DEF ShiftTypes
<1> QED
  BY <1>1, LslSteps, LsrSteps, AsrSteps, RorSteps, Zenon

\* The reference is what a register's amount gives.
LEMMA RepeatedIs ==
    ASSUME NEW x \in Word, NEW c, NEW type \in ShiftTypes, NEW n \in Nat
    PROVE  Repeated(x, c, type, n) = Shifted(x, type, n, c)
<1> DEFINE Turn(g, k) == IF k = 0 THEN Out(x, c) ELSE OneStep(g[k - 1].value, type)
           after == CHOOSE g : g = [k \in 0..n |-> Turn(g, k)]
           f == [k \in 0..n |-> Shifted(x, type, k, c)]
           S == [k \in 0..n |-> {f[k]}]
<1>1. f[0] = Out(x, c)
  BY DEF Shifted, BarrelShift
<1>2. ASSUME NEW k \in 1..n PROVE f[k] = OneStep(f[k - 1].value, type)
  <2>1. k - 1 \in 0..n /\ k \in 0..n /\ k \in Nat \ {0}
    BY SMT
  <2>2. f[k] = Shifted(x, type, k, c) /\ f[k - 1] = Shifted(x, type, k - 1, c)
    BY <2>1
  <2>3. Shifted(x, type, k, c) = OneStep(Shifted(x, type, k - 1, c).value, type)
    BY <2>1, ShiftedSteps
  <2> QED
    BY <2>2, <2>3
<1>3. f = [k \in 0..n |-> Turn(f, k)]
  <2>1. ASSUME NEW k \in 0..n PROVE f[k] = Turn(f, k)
    <3>1. k = 0 \/ (k \in 1..n /\ k # 0)
      BY SMT
    <3> HIDE DEF f
    <3> QED
      BY <1>1, <1>2, <3>1
  <2>2. f = [k \in 0..n |-> f[k]]
    OBVIOUS
  <2> HIDE DEF f
  <2> QED
    BY <2>1, <2>2
<1>4. after = [k \in 0..n |-> Turn(after, k)]
  <2> HIDE DEF f
  <2> QED
    BY <1>3
<1> HIDE DEF after, f
<1>5. \A k \in 0..n : after[k] = Turn(after, k)
  BY <1>4
<1>6. \A k \in 0..n : after[k] \in S[k]
  <2>1. after[0] \in S[0]
    BY <1>1, <1>5
  <2>2. ASSUME NEW k \in 1..n, after[k - 1] \in S[k - 1]
        PROVE  after[k] \in S[k]
    <3>1. k - 1 \in 0..n /\ k \in 0..n /\ k # 0
      BY SMT
    <3>2. after[k - 1] = f[k - 1]
      BY <2>2, <3>1
    <3>3. after[k] = OneStep(after[k - 1].value, type)
      BY <1>5, <3>1
    <3> QED
      BY <1>2, <3>1, <3>2, <3>3
  <2> HIDE DEF S
  <2> QED
    BY <2>1, <2>2, RecursionStays, Zenon
<1>7. after[n] = f[n]
  <2>1. n \in 0..n
    BY SMT
  <2> QED
    BY <1>6, <2>1
<1>8. Repeated(x, c, type, n) = after[n]
  BY Zenon DEF Repeated, after
<1> QED
  BY <1>7, <1>8 DEF f

\* An immediate amount is encoded: it gives what the amount it stands for does.
LEMMA ImmediateIs ==
    ASSUME NEW x \in Word, NEW c, NEW type \in ShiftTypes, type # "ROR", NEW n \in 0..(Bits - 1)
    PROVE  /\ BarrelShift(x, type, n, c, FALSE) = Shifted(x, type, Encoded(type, n), c)
           /\ ThumbShifted(x, type, n, c) = Shifted(x, type, Encoded(type, n), c)
<1>1. Bits \in Nat \ {0} /\ n \in Nat /\ n < Bits
  BY Weights
<1>2. type = "LSL" \/ type = "LSR" \/ type = "ASR"
  BY DEF ShiftTypes
<1>3. CASE n = 0
  <2>1. CASE type = "LSL"
    BY <1>3, <2>1 DEF Shifted, BarrelShift, ByZero, ThumbShifted, Encoded
  <2>2. CASE type = "LSR"
    <3> DEFINE d == Bits = Bits /\ Sign(x)
    <3>1. Lsr(x, Bits) = Out(0, d)
      BY <1>1 DEF Lsr
    <3>2. Out(0, d) = Out(0, Sign(x))
      BY CarriesAreBoolean, OutSame
    <3>3. Shifted(x, type, Bits, c) = Lsr(x, Bits)
      BY <1>1, <2>2, ShiftedIs
    <3>4. Encoded(type, n) = Bits
      BY <1>3, <2>2 DEF Encoded
    <3> QED
      BY <1>3, <2>2, <3>1, <3>2, <3>3, <3>4 DEF BarrelShift, ByZero, ThumbShifted
  <2>3. CASE type = "ASR"
    <3>1. Asr(x, Bits) = Out(AllOnes(x), Sign(x))
      BY <1>1 DEF Asr
    <3>2. Shifted(x, type, Bits, c) = Asr(x, Bits)
      BY <1>1, <2>3, ShiftedIs
    <3>3. Encoded(type, n) = Bits
      BY <1>3, <2>3 DEF Encoded
    <3> QED
      BY <1>1, <1>3, <2>3, <3>1, <3>2, <3>3 DEF BarrelShift, ByZero, ThumbShifted
  <2> QED
    BY <1>2, <2>1, <2>2, <2>3
<1>4. CASE n # 0
  <2>1. Encoded(type, n) = n /\ n # Bits /\ ~(n >= Bits)
    BY <1>1, <1>4 DEF Encoded
  <2>2. CASE type = "LSL"
    BY <1>4, <2>1, <2>2 DEF Shifted, BarrelShift, ThumbShifted, Lsl
  <2>3. CASE type = "LSR"
    BY <1>4, <2>1, <2>3 DEF Shifted, BarrelShift, ThumbShifted, Lsr
  <2>4. CASE type = "ASR"
    BY <1>4, <2>1, <2>4 DEF Shifted, BarrelShift, ThumbShifted, Asr
  <2> QED
    BY <1>2, <2>2, <2>3, <2>4
<1> QED
  BY <1>3, <1>4

\* The rotation through the carry.
LEMMA ThroughCarry ==
    ASSUME NEW x \in Word, NEW c \in BOOLEAN, NEW wide,
           wide = x + (IF c THEN Modulus ELSE 0)
    PROVE  BarrelShift(x, "ROR", 0, c, FALSE) = Out(wide \div 2, wide % 2 = 1)
<1> DEFINE v == (IF c THEN Half ELSE 0) + x \div 2
<1>1. BarrelShift(x, "ROR", 0, c, FALSE) = Out(v, Bit(x, 0))
  BY DEF BarrelShift, ByZero
<1>2. x \in Nat /\ Half \in Nat /\ Modulus = 2 * Half
  BY Constants
<1>3. Bit(x, 0) <=> x % 2 = 1
  BY <1>2, Weights DEF Bit
<1>4. wide \div 2 = v /\ wide % 2 = x % 2
  <2>1. CASE c
    BY <1>2, <2>1
  <2>2. CASE ~c
    BY <1>2, <2>2
  <2> QED
    BY <2>1, <2>2
<1> HIDE DEF v
<1>5. Out(v, Bit(x, 0)) = Out(wide \div 2, wide % 2 = 1)
  BY <1>3, <1>4, CarriesAreBoolean, OutSame
<1> QED
  BY <1>1, <1>5

\* Both shifters, for words of every width, every amount and either carry.
LEMMA ShiftsRepeat ==
    ASSUME NEW c \in BOOLEAN, NEW most \in Nat
    PROVE  ShiftsAreRepeated(c, most)
<1> DEFINE wide(x) == x + (IF c THEN Modulus ELSE 0)
<1>1. ASSUME NEW x \in Word, NEW type \in ShiftTypes, NEW n \in 0..most
      PROVE  BarrelShift(x, type, n, c, TRUE) = Repeated(x, c, type, n)
  <2>1. n \in Nat
    OBVIOUS
  <2> QED
    BY <2>1, RepeatedIs DEF Shifted
<1>2. ASSUME NEW x \in Word, NEW type \in ShiftTypes, type # "ROR", NEW n \in 0..(Bits - 1)
      PROVE  /\ BarrelShift(x, type, n, c, FALSE) = Repeated(x, c, type, Encoded(type, n))
             /\ ThumbShifted(x, type, n, c) = Repeated(x, c, type, Encoded(type, n))
  <2>1. Encoded(type, n) \in Nat
    BY Weights DEF Encoded
  <2>2. Repeated(x, c, type, Encoded(type, n)) = Shifted(x, type, Encoded(type, n), c)
    BY <2>1, RepeatedIs
  <2> QED
    BY <1>2, <2>2, ImmediateIs
<1>3. ASSUME NEW x \in Word
      PROVE  BarrelShift(x, "ROR", 0, c, FALSE) = Out(wide(x) \div 2, wide(x) % 2 = 1)
  BY ThroughCarry
<1> QED
  BY <1>1, <1>2, <1>3, Zenon DEF ShiftsAreRepeated

-----------------------------------------------------------------------------
(***************************************************************************)
(* The theorems.                                                           *)
(***************************************************************************)
\* The flags are four bits, whatever is computed (cpu.rs, fn set_nz and the
\* *_with_flags).
THEOREM AluTypeCorrect == AluSpec => []AluTypeOK
<1>1. Inv => AluTypeOK
  BY DEF Inv
<1> QED
  BY Always, <1>1, PTL

\* Numbers of any length add and subtract exactly through the carry flag, for
\* words of every width (cpu.rs, fn adc_with_flags and sbc_with_flags, and the
\* carry that data processing hands them).
THEOREM SumsExact == AluSpec => []SumsAreExact
<1> QED
  BY Always, InvExact, PTL

\* The conditions after a comparison or a long subtraction tell how the numbers
\* compare, for words of every width (cpu.rs, fn check_condition and the
\* *_with_flags).
THEOREM OrderTold == AluSpec => []OrderIsTold
<1> QED
  BY Always, InvTold, PTL

\* Both shifters shift by any amount as by one bit that often, for words of every
\* width and every amount a register may hold (cpu.rs, fn barrel_shift; thumb.rs,
\* fn thumb_shift).
THEOREM ShiftsCorrect == AluSpec => []ShiftIsRepeated
<1>1. AluTypeOK => ShiftIsRepeated
  <2>1. SUFFICES ASSUME AluTypeOK PROVE ShiftIsRepeated
    OBVIOUS
  <2>2. flags.c \in BOOLEAN /\ AmountBound \in Nat
    BY <2>1, AluAssumption DEF AluTypeOK, Flags
  <2> QED
    BY <2>2, ShiftsRepeat DEF ShiftIsRepeated
<1> QED
  BY AluTypeCorrect, <1>1, PTL
===============================================================================
