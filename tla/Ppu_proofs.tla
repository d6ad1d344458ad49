----------------------------- MODULE Ppu_proofs -----------------------------
(***************************************************************************)
(* Theorems about Ppu: the types, the affine coordinates, and that a line  *)
(* composed in one pass shows the highest layer at each column.            *)
(***************************************************************************)
EXTENDS Ppu, Numbers

(***************************************************************************)
(* Arithmetic.                                                             *)
(***************************************************************************)
LEMMA Quotients ==
    ASSUME NEW a \in Int, NEW p \in Nat \ {0}
    PROVE  /\ a \div p \in Int /\ a % p \in 0..(p - 1)
           /\ a \in Nat => a \div p \in Nat /\ a - (a % p) \in Nat
<1>1. a \div p \in Int /\ a % p \in 0..(p - 1)
  BY IntDivMod
<1>2. ASSUME a \in Nat PROVE a \div p \in Nat /\ a - (a % p) \in Nat
  <2>1. a \div p \in Nat /\ a % p \in 0..(p - 1) /\ a = p * (a \div p) + (a % p)
    BY <1>2, DivMod
  <2>2. p * (a \div p) \in Nat
    BY <2>1
  <2> QED
    BY <2>1, <2>2, SMT
<1> QED
  BY <1>1, <1>2

\* An interval on a circle of WindowSpan, written with and without a remainder.
LEMMA BetweenIsOnCircle ==
    ASSUME NEW v \in Edge, NEW first \in Edge, NEW end \in Edge
    PROVE  Between(v, first, end) <=> OnCircle(v, first, end)
<1> DEFINE W == WindowSpan
<1>1. W \in Nat \ {0} /\ v \in 0..(W - 1) /\ first \in 0..(W - 1) /\ end \in 0..(W - 1)
  BY PpuAssumption, SMT DEF Edge
<1>2. ASSUME NEW a \in 0..(W - 1), NEW b \in 0..(W - 1)
      PROVE  (a - b) % W = IF b <= a THEN a - b ELSE a - b + W
  <2>1. CASE b <= a
    <3>1. a - b \in 0..(W - 1) /\ W * 0 + (a - b) = a - b
      BY <1>1, <2>1, SMT
    <3> QED
      BY <1>1, <2>1, <3>1, ModShift, 0 \in Int
  <2>2. CASE ~(b <= a)
    <3>1. a - b + W \in 0..(W - 1) /\ W * (-1) + (a - b + W) = a - b
      BY <1>1, <2>2, SMT
    <3> QED
      BY <1>1, <2>2, <3>1, ModShift, -1 \in Int
  <2> QED
    BY <2>1, <2>2
<1>3. /\ (v - first) % W = IF first <= v THEN v - first ELSE v - first + W
      /\ (end - first) % W = IF first <= end THEN end - first ELSE end - first + W
  BY <1>1, <1>2
<1> HIDE DEF W
<1>4. Between(v, first, end) <=> (v - first) % W < (end - first) % W
  BY <1>1, <1>3, SMT DEF Between
<1> QED
  BY <1>4 DEF OnCircle, W

-----------------------------------------------------------------------------
(***************************************************************************)
(* Pixels of backgrounds and sprites.                                      *)
(***************************************************************************)
Column == 0..(Columns - 1)
ScreenLine == 0..(Lines - 1)

LEMMA Screen ==
    /\ Columns \in Nat \ {0} /\ Lines \in Nat \ {0}
    /\ Column \subseteq Nat \cap Edge /\ ScreenLine \subseteq Nat \cap Edge
BY PpuAssumption, SMT DEF Column, ScreenLine, Edge

LEMMA PictureTyped ==
    ASSUME NEW c \in Nat, NEW l \in Nat, NEW p \in Picture(c, l),
           NEW x \in 0..(c - 1), NEW y \in 0..(l - 1)
    PROVE  p[<<x, y>>] \in Texel
BY DEF Picture

LEMMA MosaicTyped ==
    ASSUME NEW on \in BOOLEAN, NEW v \in Nat, NEW size \in Nat \ {0}
    PROVE  Mosaic(on, v, size) \in Nat
BY Quotients DEF Mosaic

LEMMA TextPixelTyped ==
    ASSUME NEW r, IsRegisters(r), NEW b \in 0..3, NEW x \in Nat, NEW y \in Nat
    PROVE  TextPixel(r, b, x, y) \in Texel
<1> DEFINE bg == r.bg[b]
           mx == Mosaic(bg.mosaic, x, r.mosaic.across)
           my == Mosaic(bg.mosaic, y, r.mosaic.down)
<1>1. /\ bg.mosaic \in BOOLEAN /\ bg.x \in Nat /\ bg.y \in Nat
      /\ r.mosaic.across \in Nat \ {0} /\ r.mosaic.down \in Nat \ {0}
  BY DEF IsRegisters
<1>2. mx \in Nat /\ my \in Nat
  BY <1>1, MosaicTyped
<1>3. TextPixel(r, b, x, y) = Maps[b][<<(mx + bg.x) % MapSize, (my + bg.y) % MapSize>>]
  BY DEF TextPixel
<1> HIDE DEF mx, my, bg
<1>4. mx + bg.x \in Int /\ my + bg.y \in Int
  BY <1>1, <1>2
<1>5. (mx + bg.x) % MapSize \in 0..(MapSize - 1) /\ (my + bg.y) % MapSize \in 0..(MapSize - 1)
  BY <1>4, Quotients, PpuAssumption
<1>6. Maps[b] \in Picture(MapSize, MapSize) /\ MapSize \in Nat
  BY PpuAssumption
<1> QED
  BY <1>3, <1>5, <1>6, PictureTyped

LEMMA AffinePixelTyped ==
    ASSUME NEW r, NEW b \in 0..3, NEW at \in [Axes -> Coordinates], NEW x \in Nat
    PROVE  AffinePixel(r, b, at, x) \in Texel
<1> DEFINE Point(axis) == (at[axis].internal + x * at[axis].across) \div Unit
           sx == Point("x")
           sy == Point("y")
<1>1. ASSUME NEW axis \in Axes PROVE Point(axis) \in Int
  <2>1. at[axis].internal \in Int /\ at[axis].across \in Int
    BY DEF Coordinates
  <2>2. at[axis].internal + x * at[axis].across \in Int
    BY <2>1
  <2> QED
    BY <2>2, Quotients, PpuAssumption
<1>2. sx \in Int /\ sy \in Int
  BY <1>1 DEF Axes
<1>3. \/ AffinePixel(r, b, at, x) = Maps[b][<<sx % MapSize, sy % MapSize>>]
      \/ AffinePixel(r, b, at, x) = Transparent
  BY DEF AffinePixel
<1> HIDE DEF sx, sy
<1>4. sx % MapSize \in 0..(MapSize - 1) /\ sy % MapSize \in 0..(MapSize - 1)
  BY <1>2, Quotients, PpuAssumption
<1>5. Maps[b] \in Picture(MapSize, MapSize) /\ MapSize \in Nat
  BY PpuAssumption
<1> QED
  BY <1>3, <1>4, <1>5, PictureTyped DEF Texel

LEMMA BitmapPixelTyped ==
    ASSUME NEW r, IsRegisters(r), r.mode \in 3..5, NEW x \in Column, NEW y \in ScreenLine
    PROVE  BitmapPixel(r, x, y) \in Texel
<1>1. ASSUME NEW f \in 0..1
      PROVE  Frames[f][<<x, y>>] \in Texel
  <2>1. Frames[f] \in Picture(Columns, Lines) /\ Columns \in Nat /\ Lines \in Nat
    BY PpuAssumption, Screen
  <2> QED
    BY <2>1, PictureTyped DEF Column, ScreenLine
<1>2. r.frame \in 0..1 /\ 0 \in 0..1 /\ Transparent \in Texel
  BY DEF IsRegisters, Texel
<1>3. r.mode = 3 \/ r.mode = 4 \/ r.mode = 5
  BY SMT
<1> QED
  BY <1>1, <1>2, <1>3 DEF BitmapPixel

LEMMA BgPixelTyped ==
    ASSUME NEW r, IsRegisters(r), NEW at \in [Affine -> [Axes -> Coordinates]], NEW b \in 0..3,
           NEW x \in Column, NEW y \in ScreenLine
    PROVE  BgPixel(r, at, b, x, y) \in Texel
<1>1. x \in Nat /\ y \in Nat
  BY Screen
<1>2. TextPixel(r, b, x, y) \in Texel
  BY <1>1, TextPixelTyped
<1>3. b \in Affine => AffinePixel(r, b, at[b], x) \in Texel
  BY <1>1, AffinePixelTyped
<1>4. r.mode \in 3..5 => BitmapPixel(r, x, y) \in Texel
  BY BitmapPixelTyped
<1>5. Transparent \in Texel
  BY DEF Texel
<1> QED
  BY <1>2, <1>3, <1>4, <1>5 DEF BgPixel, Affine

LEMMA SpriteTexelTyped ==
    ASSUME NEW s, IsSprite(s), NEW x, NEW y
    PROVE  SpriteTexel(s, x, y) \in Texel
<1>1. s.w \in Nat /\ s.h \in Nat /\ s.art \in Picture(s.w, s.h)
  BY DEF IsSprite
<1>2. \A tx \in 0..(s.w - 1) : \A ty \in 0..(s.h - 1) : s.art[<<tx, ty>>] \in Texel
  BY <1>1, PictureTyped
<1>3. Transparent \in Texel
  BY DEF Texel
<1> QED
  BY <1>2, <1>3, Zenon DEF SpriteTexel

-----------------------------------------------------------------------------
(***************************************************************************)
(* The front sprite.                                                       *)
(***************************************************************************)
IsOam(oam) == Len(oam) \in Nat /\ \A i \in 1..Len(oam) : IsSprite(oam[i])

\* The sprites among the last k that show at a column.
Showing(oam, x, y, k) ==
    {i \in 1..Len(oam) : /\ i > Len(oam) - k
                         /\ Drawn(oam[i]) /\ SpriteTexel(oam[i], x, y) # Transparent}

InFront(oam, set, i) ==
    /\ i \in set
    /\ \A j \in set \ {i} : \/ oam[i].priority < oam[j].priority
                            \/ oam[i].priority = oam[j].priority /\ i < j

PixelOf(oam, x, y, i) ==
    [colour |-> SpriteTexel(oam[i], x, y), priority |-> oam[i].priority, semi |-> oam[i].mode = 1]

FrontPixel == [colour: Texel, priority: 0..4, semi: BOOLEAN]

\* The pixels that the last k sprites may leave: only that of the one in front.
FrontOver(oam, x, y, k) ==
    LET set == Showing(oam, x, y, k)
    IN  {out \in FrontPixel : \/ set = {} /\ out = NoSprite
                              \/ \E i \in set : InFront(oam, set, i) /\ out = PixelOf(oam, x, y, i)}

LEMMA PixelOfTyped ==
    ASSUME NEW oam, IsOam(oam), NEW i \in 1..Len(oam), NEW x, NEW y
    PROVE  /\ PixelOf(oam, x, y, i) \in FrontPixel
           /\ oam[i].priority \in 0..3
<1>1. IsSprite(oam[i])
  BY DEF IsOam
<1>2. SpriteTexel(oam[i], x, y) \in Texel
  BY <1>1, SpriteTexelTyped
<1>3. oam[i].priority \in 0..3 /\ oam[i].priority \in 0..4
  BY <1>1 DEF IsSprite
<1> QED
  BY <1>2, <1>3 DEF PixelOf, FrontPixel

LEMMA OverlayTyped ==
    ASSUME NEW oam, IsOam(oam), NEW i \in 1..Len(oam), NEW x, NEW y, NEW out \in FrontPixel
    PROVE  Overlay(oam[i], out, x, y) \in FrontPixel
<1>1. Overlay(oam[i], out, x, y) = PixelOf(oam, x, y, i) \/ Overlay(oam[i], out, x, y) = out
  BY DEF Overlay, PixelOf
<1> QED
  BY <1>1, PixelOfTyped

\* A sprite is laid over those behind it exactly if it is in front of all of them.
LEMMA OverlaySteps ==
    ASSUME NEW oam, IsOam(oam), NEW x, NEW y, NEW k \in 1..Len(oam),
           NEW out \in FrontOver(oam, x, y, k - 1)
    PROVE  Overlay(oam[Len(oam) + 1 - k], out, x, y) \in FrontOver(oam, x, y, k)
<1> DEFINE n == Len(oam)
           i == n + 1 - k
           old == Showing(oam, x, y, k - 1)
           new == Showing(oam, x, y, k)
           shows == Drawn(oam[i]) /\ SpriteTexel(oam[i], x, y) # Transparent
           result == Overlay(oam[i], out, x, y)
<1>1. n \in Nat /\ k \in 1..n /\ i \in 1..n
  <2>1. n \in Nat
    BY DEF IsOam
  <2> QED
    BY <2>1, SMT
<1>2. out \in FrontPixel
  BY DEF FrontOver
<1>3. result \in FrontPixel
  BY <1>1, <1>2, OverlayTyped
<1>4. /\ \A j \in old : j \in 1..n /\ j > i
      /\ new = IF shows THEN old \cup {i} ELSE old
  <2>1. \A j \in 1..n : /\ j > n - (k - 1) <=> j > i
                        /\ j > n - k <=> j > i \/ j = i
    BY <1>1, SMT
  <2> HIDE DEF i
  <2> QED
    BY <1>1, <2>1 DEF Showing
<1>5. \A j \in 1..n : oam[j].priority \in 0..3
  BY PixelOfTyped
<1>6. \/ old = {} /\ out = NoSprite
      \/ \E j \in old : InFront(oam, old, j) /\ out = PixelOf(oam, x, y, j)
  BY DEF FrontOver
<1>7. out.priority \in 0..4
  BY <1>2 DEF FrontPixel
<1>8. CASE shows /\ Covers(oam[i], out)
  <2>1. result = PixelOf(oam, x, y, i) /\ new = old \cup {i}
    BY <1>4, <1>8 DEF Overlay, PixelOf
  <2>2. ASSUME NEW j \in old
        PROVE  \/ oam[i].priority < oam[j].priority
               \/ oam[i].priority = oam[j].priority /\ i < j
    <3>1. PICK f \in old : InFront(oam, old, f) /\ out = PixelOf(oam, x, y, f)
      BY <1>6, <2>2
    <3>2. oam[f].priority >= oam[i].priority
      BY <1>8, <3>1 DEF Covers, PixelOf
    <3>3. f = j \/ oam[f].priority <= oam[j].priority
      BY <1>4, <1>5, <3>1 DEF InFront
    <3>4. i < j /\ i \in 1..n /\ j \in 1..n /\ f \in 1..n
      BY <1>1, <1>4, <2>2, <3>1
    <3> HIDE DEF i, old
    <3> QED
      BY <1>5, <3>2, <3>3, <3>4
  <2>3. InFront(oam, new, i) /\ i \in new
    BY <2>1, <2>2 DEF InFront
  <2> QED
    BY <1>3, <2>1, <2>3 DEF FrontOver
<1>9. CASE ~(shows /\ Covers(oam[i], out))
  <2>1. result = out
    BY <1>9 DEF Overlay
  <2>2. CASE ~shows
    BY <1>3, <1>4, <1>6, <2>1, <2>2 DEF FrontOver
  <2>3. CASE shows
    <3>1. ~(out.priority >= oam[i].priority) /\ oam[i].priority \in 0..3
      BY <1>1, <1>5, <1>9, <2>3 DEF Covers
    <3>2. PICK j \in old : InFront(oam, old, j) /\ out = PixelOf(oam, x, y, j)
      <4>1. out # NoSprite
        <5>1. NoSprite.priority = 4
          BY DEF NoSprite
        <5> QED
          BY <3>1, <5>1
      <4> QED
        BY <1>6, <4>1
    <3>3. oam[j].priority < oam[i].priority
      <4>1. out.priority = oam[j].priority /\ oam[j].priority \in 0..3
        BY <1>4, <1>5, <3>2 DEF PixelOf
      <4> HIDE DEF i, old
      <4> QED
        BY <3>1, <4>1
    <3>4. new = old \cup {i}
      BY <1>4, <2>3
    <3>5. InFront(oam, new, j) /\ j \in new
      BY <3>2, <3>3, <3>4 DEF InFront
    <3> QED
      BY <1>3, <2>1, <3>2, <3>5 DEF FrontOver
  <2> QED
    BY <2>2, <2>3
<1> QED
  BY <1>8, <1>9

LEMMA SpritePixelIsFront ==
    ASSUME NEW oam, IsOam(oam), NEW x, NEW y
    PROVE  SpritePixel(oam, x, y) \in FrontOver(oam, x, y, Len(oam))
<1> DEFINE n == Len(oam)
           Front(g, k) == IF k = 0 THEN NoSprite ELSE Overlay(oam[n + 1 - k], g[k - 1], x, y)
           front == CHOOSE g : g = [k \in 0..n |-> Front(g, k)]
           step == [k \in 1..n |-> [out \in FrontPixel |-> Overlay(oam[n + 1 - k], out, x, y)]]
<1>1. n \in Nat
  BY DEF IsOam
<1>2. SpritePixel(oam, x, y) = front[n]
  BY DEF SpritePixel
<1>3. NoSprite \in FrontPixel
  BY DEF NoSprite, FrontPixel, Texel
<1>4. \A k \in 1..n : n + 1 - k \in 1..n
  BY <1>1, SMT
<1>5. PICK f : /\ f \in [0..n -> FrontPixel] /\ f[0] = NoSprite
               /\ \A k \in 1..n : f[k] = step[k][f[k - 1]]
  <2>1. step \in [1..n -> [FrontPixel -> FrontPixel]]
    BY <1>4, OverlayTyped
  <2> HIDE DEF step, n
  <2>2. PICK f : f \in Recursions(n, FrontPixel, NoSprite, step)
    BY <1>1, <1>3, <2>1, RecursionExists, Zenon
  <2> QED
    BY <2>2 DEF Recursions
<1>6. \A k \in 0..n : f[k] = Front(f, k)
  <2>1. ASSUME NEW k \in 1..n PROVE f[k] = Overlay(oam[n + 1 - k], f[k - 1], x, y) /\ k # 0
    <3>1. f[k - 1] \in FrontPixel /\ k # 0
      BY <1>1, <1>5
    <3>2. step[k] = [out \in FrontPixel |-> Overlay(oam[n + 1 - k], out, x, y)]
      OBVIOUS
    <3>3. f[k] = step[k][f[k - 1]]
      BY <1>5
    <3> QED
      BY <3>1, <3>2, <3>3, Zenon
  <2>2. \A k \in 0..n : k = 0 \/ k \in 1..n
    BY <1>1, SMT
  <2> QED
    BY <1>5, <2>1, <2>2
<1>7. f = [k \in 0..n |-> Front(f, k)]
  BY <1>5, <1>6
<1>8. front = [k \in 0..n |-> Front(front, k)]
  BY <1>7
<1>9. \A k \in 0..n : front[k] = Front(front, k)
  BY <1>8
<1> HIDE DEF front, n
<1> DEFINE S == [k \in 0..n |-> FrontOver(oam, x, y, k)]
<1>10. front[0] \in S[0]
  <2>1. Showing(oam, x, y, 0) = {}
    BY <1>1, SMT DEF Showing, n
  <2>2. front[0] = NoSprite /\ 0 \in 0..n
    BY <1>1, <1>9
  <2> QED
    BY <1>3, <2>1, <2>2 DEF FrontOver
<1>11. ASSUME NEW k \in 1..n, front[k - 1] \in S[k - 1]
       PROVE  front[k] \in S[k]
  <2>1. k \in 0..n /\ k - 1 \in 0..n /\ k # 0
    BY <1>1, SMT
  <2>2. front[k] = Overlay(oam[n + 1 - k], front[k - 1], x, y)
    BY <1>9, <2>1
  <2>3. front[k] \in FrontOver(oam, x, y, k)
    BY <1>11, <2>1, <2>2, OverlaySteps DEF n
  <2> QED
    BY <2>1, <2>3
<1>12. front[n] \in S[n]
  <2> HIDE DEF S
  <2>1. \A k \in 1..n : front[k - 1] \in S[k - 1] => front[k] \in S[k]
    BY <1>11
  <2>2. \A k \in 0..n : front[k] \in S[k]
    BY <1>1, <1>10, <2>1, RecursionStays, Zenon
  <2> QED
    BY <1>1, <2>2
<1> QED
  BY <1>1, <1>2, <1>12 DEF n

-----------------------------------------------------------------------------
(***************************************************************************)
(* Windows and the front sprite, as the properties say them.               *)
(***************************************************************************)
LEMMA Typed ==
    ASSUME TypeOK
    PROVE  /\ IsRegisters(regs) /\ IsOam(regs.oam) /\ DOMAIN regs.oam = 1..Len(regs.oam)
           /\ affine \in [Affine -> [Axes -> Coordinates]]
           /\ line < Lines => line \in ScreenLine
<1>1. IsRegisters(regs)
  BY PpuAssumption DEF TypeOK
<1>2. IsOam(regs.oam) /\ DOMAIN regs.oam = 1..Len(regs.oam)
  BY <1>1 DEF IsRegisters, IsOam
<1>3. line < Lines => line \in ScreenLine
  BY Screen, SMT DEF TypeOK, ScreenLine
<1> QED
  BY <1>1, <1>2, <1>3 DEF TypeOK

LEMMA WindowFlagsAreLit ==
    ASSUME TypeOK, line < Lines, NEW x \in Column
    PROVE  WindowFlags(regs, x, line) = Lit(x) /\ Lit(x) \subseteq Layer
<1> DEFINE Inside(w) == /\ OnCircle(x, regs.window[w].left, regs.window[w].right)
                        /\ OnCircle(line, regs.window[w].up, regs.window[w].down)
           open == {w \in {0, 1} \cap regs.windows : Inside(w)}
<1>1. x \in Edge /\ line \in Edge
  BY Typed, Screen
<1>2. /\ regs.windows \subseteq 0..2 /\ regs.outside \subseteq Layer
      /\ \A w \in {0, 1} : /\ regs.window[w].left \in Edge /\ regs.window[w].right \in Edge
                           /\ regs.window[w].up \in Edge /\ regs.window[w].down \in Edge
                           /\ regs.window[w].inside \subseteq Layer
  <2>1. /\ regs.windows \subseteq 0..2 /\ regs.outside \subseteq Layer
        /\ regs.window \in [0..1 -> [left: Edge, right: Edge, up: Edge, down: Edge,
                                    inside: SUBSET Layer]]
    BY Typed DEF IsRegisters
  <2>2. \A w \in {0, 1} : regs.window[w] \in [left: Edge, right: Edge, up: Edge, down: Edge,
                                               inside: SUBSET Layer]
    BY <2>1
  <2> QED
    BY <2>1, <2>2
<1>3. \A w \in {0, 1} : InWindow(regs.window[w], x, line) <=> Inside(w)
  BY <1>1, <1>2, BetweenIsOnCircle DEF InWindow
<1>4. Lit(x) = IF regs.windows = {} THEN 0..5
               ELSE IF open = {} THEN regs.outside
               ELSE regs.window[IF 0 \in open THEN 0 ELSE 1].inside
  BY DEF Lit
<1>5. WindowFlags(regs, x, line)
        = CASE regs.windows = {} -> 0..5
            [] 0 \in open -> regs.window[0].inside
            [] 1 \in open /\ 0 \notin open -> regs.window[1].inside
            [] OTHER -> regs.outside
  <2>1. \A w \in {0, 1} : w \in open <=> (w \in regs.windows /\ InWindow(regs.window[w], x, line))
    BY <1>3
  <2> HIDE DEF open
  <2> QED
    BY <2>1, Zenon DEF WindowFlags
<1>6. open \subseteq {0, 1} /\ (regs.windows = {} => open = {})
  OBVIOUS
<1> HIDE DEF open
<1>7. open = {} \/ 0 \in open \/ (1 \in open /\ 0 \notin open)
  BY <1>6
<1>8. WindowFlags(regs, x, line) = Lit(x)
  <2>1. CASE open = {}
    BY <1>4, <1>5, <2>1
  <2>2. CASE 0 \in open
    BY <1>4, <1>5, <1>6, <2>2
  <2>3. CASE 1 \in open /\ 0 \notin open
    BY <1>4, <1>5, <1>6, <2>3
  <2> QED
    BY <1>7, <2>1, <2>2, <2>3
<1>9. Lit(x) \subseteq Layer
  <2>1. Layer = 0..5
    BY DEF Layer, Backdrop
  <2> QED
    BY <1>2, <1>4, <2>1
<1> QED
  BY <1>8, <1>9

LEMMA FrontSpriteShows ==
    ASSUME TypeOK, NEW x, Sprites(x) # {}
    PROVE  /\ SpritePixel(regs.oam, x, line) = PixelOf(regs.oam, x, line, FrontSprite(x))
           /\ FrontSprite(x) \in 1..Len(regs.oam)
           /\ SpriteTexel(regs.oam[FrontSprite(x)], x, line) # Transparent
<1> DEFINE oam == regs.oam
           set == Showing(oam, x, line, Len(oam))
<1>1. IsOam(oam) /\ DOMAIN oam = 1..Len(oam) /\ Len(oam) \in Nat
  BY Typed DEF IsOam
<1>2. Sprites(x) = set
  <2>1. \A i \in 1..Len(oam) : i > Len(oam) - Len(oam)
    BY <1>1, SMT
  <2> QED
    BY <1>1, <2>1 DEF Sprites, Showing
<1>3. PICK i \in set : InFront(oam, set, i) /\ SpritePixel(oam, x, line) = PixelOf(oam, x, line, i)
  BY <1>1, <1>2, SpritePixelIsFront DEF FrontOver
<1>4. FrontSprite(x) = CHOOSE f \in set : InFront(oam, set, f)
  <2>1. \A f \in set : InFront(oam, set, f) <=>
          \A j \in set \ {f} : \/ oam[f].priority < oam[j].priority
                               \/ oam[f].priority = oam[j].priority /\ f < j
    BY DEF InFront
  <2> HIDE DEF set, oam
  <2> QED
    BY <1>2, <2>1 DEF FrontSprite, oam
<1> DEFINE f == FrontSprite(x)
<1>5. f \in set /\ InFront(oam, set, f)
  BY <1>3, <1>4
<1>6. set \subseteq 1..Len(oam) /\ \A j \in set : SpriteTexel(oam[j], x, line) # Transparent
  BY DEF Showing
<1>7. f = i
  <2>1. oam[f].priority \in 0..3 /\ oam[i].priority \in 0..3 /\ f \in Nat /\ i \in Nat
    BY <1>1, <1>3, <1>5, <1>6, PixelOfTyped, SMT
  <2>2. f # i => /\ \/ oam[f].priority < oam[i].priority
                    \/ oam[f].priority = oam[i].priority /\ f < i
                 /\ \/ oam[i].priority < oam[f].priority
                    \/ oam[i].priority = oam[f].priority /\ i < f
    BY <1>3, <1>5 DEF InFront
  <2> HIDE DEF f, oam
  <2> QED
    BY <2>1, <2>2, SMT
<1> QED
  BY <1>3, <1>5, <1>6, <1>7

\* Without sprites that show, the sprites leave nothing.
LEMMA NoSpriteShows ==
    ASSUME TypeOK, NEW x, Sprites(x) = {}
    PROVE  SpritePixel(regs.oam, x, line) = NoSprite
<1> DEFINE oam == regs.oam
<1>1. IsOam(oam) /\ DOMAIN oam = 1..Len(oam)
  BY Typed
<1>2. Showing(oam, x, line, Len(oam)) = {}
  BY <1>1 DEF Sprites, Showing
<1> QED
  BY <1>1, <1>2, SpritePixelIsFront DEF FrontOver

-----------------------------------------------------------------------------
(***************************************************************************)
(* The two highest layers, in one pass over the backgrounds and the front  *)
(* sprite.                                                                 *)
(***************************************************************************)
Composition == [top: Layer, priority: 0..4, colour: Colour, second: Layer, below: Colour]

IsHighest(set, k, x) == k \in set /\ \A l \in set \ {k} : Above(k, l, x)

HighestOr(set, k, x) == IF set = {} THEN k = Backdrop ELSE IsHighest(set, k, x)

\* The backgrounds below m that show at x.
Seen(x, m) ==
    {b \in regs.bgs \cap Lit(x) : b < m /\ BgPixel(regs, affine, b, x, line) # Transparent}

\* What the pass may hold after the backgrounds below m.
Composing(x, m) ==
    {p \in Composition :
       LET seen == Seen(x, m)
           rest == seen \ {p.top}
       IN  IF seen = {} THEN p = Bottom(regs.backdrop)
           ELSE /\ IsHighest(seen, p.top, x) /\ p.priority = regs.bg[p.top].priority
                /\ p.colour = BgPixel(regs, affine, p.top, x, line)
                /\ p.second \in (IF rest = {} THEN {Backdrop} ELSE rest)
                /\ p.below = ColourOf(p.second, x)
                /\ (\A k \in rest : k < p.top) => HighestOr(rest, p.second, x)}

LEMMA OverTyped ==
    ASSUME NEW p \in Composition, NEW l \in Layer, NEW k \in 0..4, NEW c \in Colour
    PROVE  /\ Over(p, l, k, c) \in Composition
           /\ Over(p, l, k, c).top = l /\ Over(p, l, k, c).priority = k
           /\ Over(p, l, k, c).colour = c /\ Over(p, l, k, c).second = p.top
           /\ Over(p, l, k, c).below = p.colour
BY DEF Over, Composition

LEMMA UnderTyped ==
    ASSUME NEW p \in Composition, NEW l \in Layer, NEW c \in Colour
    PROVE  /\ Under(p, l, c) \in Composition
           /\ Under(p, l, c).top = p.top /\ Under(p, l, c).priority = p.priority
           /\ Under(p, l, c).colour = p.colour /\ Under(p, l, c).second = l
           /\ Under(p, l, c).below = c
BY DEF Under, Composition

LEMMA BottomTyped ==
    ASSUME NEW c \in Colour
    PROVE  /\ Bottom(c) \in Composition
           /\ Bottom(c).top = Backdrop /\ Bottom(c).priority = 4
           /\ Bottom(c).colour = c /\ Bottom(c).second = Backdrop
           /\ Bottom(c).below = c
BY DEF Bottom, Composition, Layer, Backdrop

LEMMA LayerColours ==
    ASSUME NEW x
    PROVE  /\ ColourOf(Backdrop, x) = regs.backdrop
           /\ ColourOf(Sprite, x) = SpriteTexel(regs.oam[FrontSprite(x)], x, line)
           /\ \A k \in 0..3 : ColourOf(k, x) = BgPixel(regs, affine, k, x, line)
<1>1. Backdrop # Sprite /\ \A k \in 0..3 : k # Backdrop /\ k # Sprite
  BY SMT DEF Backdrop, Sprite
<1> QED
  BY <1>1, Zenon DEF ColourOf

LEMMA BackgroundAbove ==
    ASSUME TypeOK, NEW x, NEW k \in 0..3, NEW l \in 0..3
    PROVE  /\ PriorityOf(k, x) = regs.bg[k].priority /\ regs.bg[k].priority \in 0..3
           /\ Above(k, l, x) <=> \/ regs.bg[k].priority < regs.bg[l].priority
                                 \/ regs.bg[k].priority = regs.bg[l].priority /\ k < l
<1>1. k # Sprite /\ l # Sprite
  BY SMT DEF Sprite
<1>2. regs.bg[k].priority \in 0..3
  <2>1. regs.bg[k] \in [priority: 0..3, mosaic: BOOLEAN, wraps: BOOLEAN, x: Nat, y: Nat]
    BY Typed DEF IsRegisters
  <2> QED
    BY <2>1
<1> QED
  BY <1>1, <1>2 DEF PriorityOf, Above

LEMMA SeenSteps ==
    ASSUME TypeOK, NEW x, NEW m \in 0..3
    PROVE  /\ Seen(x, m) \subseteq 0..3 /\ \A k \in Seen(x, m) : k < m
           /\ Seen(x, m + 1) = IF /\ m \in regs.bgs \cap Lit(x)
                                  /\ BgPixel(regs, affine, m, x, line) # Transparent
                               THEN Seen(x, m) \cup {m} ELSE Seen(x, m)
           /\ Seen(x, 0) = {}
<1>1. regs.bgs \subseteq 0..3
  BY Typed DEF IsRegisters
<1>2. \A k \in 0..3 : (k < m + 1 <=> k < m \/ k = m) /\ ~(k < 0)
  BY SMT
<1> QED
  BY <1>1, <1>2 DEF Seen

\* A background is put over the top layer exactly if it lies above it; if not, it
\* becomes the second one, even below the second one that was.
LEMMA WithBackgroundSteps ==
    ASSUME TypeOK, line < Lines, NEW x \in Column, NEW m \in 0..3, NEW p \in Composing(x, m)
    PROVE  WithBackground(regs, affine, x, line, p, m) \in Composing(x, m + 1)
<1> DEFINE c == BgPixel(regs, affine, m, x, line)
           priority == regs.bg[m].priority
           shows == m \in regs.bgs \cap Lit(x) /\ c # Transparent
           seen == Seen(x, m)
           result == WithBackground(regs, affine, x, line, p, m)
<1>1. /\ IsRegisters(regs) /\ affine \in [Affine -> [Axes -> Coordinates]] /\ line \in ScreenLine
      /\ WindowFlags(regs, x, line) = Lit(x)
  BY Typed, WindowFlagsAreLit
<1>2. result = IF shows THEN AddBackground(p, m, priority, c) ELSE p
  BY <1>1 DEF WithBackground
<1>3. /\ seen \subseteq 0..3 /\ \A k \in seen : k < m
      /\ Seen(x, m + 1) = IF shows THEN seen \cup {m} ELSE seen
  BY SeenSteps
<1>4. CASE ~shows
  BY <1>2, <1>3, <1>4 DEF Composing
<1>5. CASE shows
  <2>1. c \in Colour /\ priority \in 0..3 /\ m \in Layer /\ p \in Composition
    BY <1>1, <1>5, BgPixelTyped, BackgroundAbove DEF Texel, Composing, Layer, Backdrop
  <2> DEFINE over == priority < p.priority \/ (priority = p.priority /\ m < p.top)
             rest == seen \ {p.top}
             new == Seen(x, m + 1)
  <2>2. result = IF over THEN Over(p, m, priority, c) ELSE Under(p, m, c)
    BY <1>2, <1>5 DEF AddBackground
  <2>3. new = seen \cup {m} /\ m \notin seen
    BY <1>3, <1>5
  <2>4. IF seen = {} THEN p = Bottom(regs.backdrop)
        ELSE /\ IsHighest(seen, p.top, x) /\ p.priority = regs.bg[p.top].priority
             /\ p.colour = BgPixel(regs, affine, p.top, x, line)
             /\ p.second \in (IF rest = {} THEN {Backdrop} ELSE rest)
             /\ p.below = ColourOf(p.second, x)
             /\ (\A k \in rest : k < p.top) => HighestOr(rest, p.second, x)
    BY DEF Composing
  <2>5. seen = {} => /\ p.top = Backdrop /\ p.priority = 4 /\ p.top \notin seen
                     /\ p.colour = regs.backdrop
    <3>1. regs.backdrop \in Colour
      BY <1>1 DEF IsRegisters
    <3> QED
      BY <2>4, <3>1, BottomTyped
  <2>6. seen # {} => /\ p.top \in seen /\ p.top \in 0..3 /\ p.top < m
                     /\ p.priority = regs.bg[p.top].priority
                     /\ \A l \in seen \ {p.top} : Above(p.top, l, x)
    BY <1>3, <2>4 DEF IsHighest
  <2>7. over <=> seen = {} \/ priority < regs.bg[p.top].priority
    <3>1. CASE seen = {}
      BY <2>1, <2>5, <3>1
    <3>2. CASE seen # {}
      <4>1. ~(m < p.top)
        BY <2>6, <3>2
      <4> QED
        BY <2>6, <3>2, <4>1
    <3> QED
      BY <3>1, <3>2
  <2>8. \A k \in seen : /\ Above(k, m, x) <=> regs.bg[k].priority <= priority
                        /\ Above(m, k, x) <=> priority < regs.bg[k].priority
                        /\ regs.bg[k].priority \in 0..3
    <3> SUFFICES ASSUME NEW k \in seen
                 PROVE  /\ Above(k, m, x) <=> regs.bg[k].priority <= priority
                        /\ Above(m, k, x) <=> priority < regs.bg[k].priority
                        /\ regs.bg[k].priority \in 0..3
      OBVIOUS
    <3>1. k \in 0..3 /\ k < m
      BY <1>3
    <3>2. /\ regs.bg[k].priority \in 0..3
          /\ Above(k, m, x) <=> \/ regs.bg[k].priority < priority
                                \/ regs.bg[k].priority = priority /\ k < m
          /\ Above(m, k, x) <=> \/ priority < regs.bg[k].priority
                                \/ priority = regs.bg[k].priority /\ m < k
      BY <3>1, BackgroundAbove
    <3> HIDE DEF priority
    <3> QED
      BY <2>1, <3>1, <3>2
  <2>11. p.colour = ColourOf(p.top, x) /\ c = ColourOf(m, x)
    <3>1. c = ColourOf(m, x)
      BY LayerColours
    <3>2. CASE seen = {}
      BY <2>5, <3>1, <3>2, LayerColours
    <3>3. CASE seen # {}
      BY <2>4, <2>6, <3>1, <3>3, LayerColours
    <3> QED
      BY <3>2, <3>3
  <2> HIDE DEF c, priority, shows, seen, result, over, rest, new
  <2>9. CASE over
    <3>1. /\ result \in Composition /\ result.top = m /\ result.priority = priority
          /\ result.colour = c /\ result.second = p.top /\ result.below = ColourOf(p.top, x)
      <4>1. result = Over(p, m, priority, c) /\ priority \in 0..4
        BY <2>1, <2>2, <2>9
      <4>2. p \in Composition /\ m \in Layer /\ c \in Colour
        BY <2>1
      <4>3. /\ Over(p, m, priority, c) \in Composition
            /\ Over(p, m, priority, c).top = m /\ Over(p, m, priority, c).priority = priority
            /\ Over(p, m, priority, c).colour = c /\ Over(p, m, priority, c).second = p.top
            /\ Over(p, m, priority, c).below = p.colour
        BY <4>1, <4>2, OverTyped, SMTT(40)
      <4> QED
        BY <2>11, <4>1, <4>3
    <3>2. \A k \in seen : Above(m, k, x)
      <4> SUFFICES ASSUME NEW k \in seen PROVE Above(m, k, x)
        OBVIOUS
      <4>1. p.top \in seen /\ priority < regs.bg[p.top].priority
        BY <2>6, <2>7, <2>9
      <4>2. k = p.top \/ regs.bg[p.top].priority <= regs.bg[k].priority
        <5>1. k # p.top => Above(p.top, k, x) /\ p.top \in 0..3 /\ k \in 0..3
          BY <1>3, <2>6
        <5>2. k # p.top => \/ regs.bg[p.top].priority < regs.bg[k].priority
                           \/ regs.bg[p.top].priority = regs.bg[k].priority
          BY <5>1, BackgroundAbove
        <5> QED
          BY <2>8, <4>1, <5>2
      <4> QED
        BY <2>1, <2>8, <4>1, <4>2
    <3>3. IsHighest(new, m, x) /\ new # {} /\ new \ {m} = seen
      BY <2>3, <3>2 DEF IsHighest
    <3>4. /\ p.top \in (IF seen = {} THEN {Backdrop} ELSE seen)
          /\ HighestOr(seen, p.top, x)
      BY <2>5, <2>6 DEF HighestOr, IsHighest
    <3> QED
      BY <3>1, <3>3, <3>4 DEF Composing, result, new, c, priority
  <2>10. CASE ~over
    <3>1. /\ result \in Composition /\ result.top = p.top /\ result.priority = p.priority
          /\ result.colour = p.colour /\ result.second = m /\ result.below = ColourOf(m, x)
      <4>1. result = Under(p, m, c) /\ priority \in 0..4
        BY <2>1, <2>2, <2>10
      <4> QED
        BY <2>1, <2>11, <4>1, UnderTyped
    <3>2. seen # {} /\ p.top \in seen /\ p.top # m
      BY <2>3, <2>6, <2>7, <2>10
    <3>3. Above(p.top, m, x)
      BY <2>1, <2>7, <2>8, <2>10, <3>2
    <3>4. IsHighest(new, p.top, x) /\ new # {} /\ m \in new \ {p.top}
      BY <2>3, <2>6, <3>2, <3>3 DEF IsHighest
    <3>5. ~(m < p.top)
      BY <2>6, <3>2
    <3>6. p.priority = regs.bg[p.top].priority /\ p.colour = BgPixel(regs, affine, p.top, x, line)
      BY <2>4, <3>2
    <3> QED
      BY <3>1, <3>4, <3>5, <3>6 DEF Composing, result, new
  <2> QED
    BY <2>9, <2>10
<1> QED
  BY <1>4, <1>5

LEMMA BackgroundsComposed ==
    ASSUME TypeOK, line < Lines, NEW x \in Column
    PROVE  LET With(p, b) == WithBackground(regs, affine, x, line, p, b)
           IN  With(With(With(With(Bottom(regs.backdrop), 0), 1), 2), 3) \in Composing(x, 4)
<1> DEFINE With(p, b) == WithBackground(regs, affine, x, line, p, b)
<1>1. Bottom(regs.backdrop) \in Composing(x, 0)
  <2>1. regs.backdrop \in Colour
    BY Typed DEF IsRegisters
  <2>2. Seen(x, 0) = {}
    BY SeenSteps
  <2> QED
    BY <2>1, <2>2, BottomTyped DEF Composing
<1>2. ASSUME NEW m \in 0..3, NEW p \in Composing(x, m) PROVE With(p, m) \in Composing(x, m + 1)
  BY WithBackgroundSteps
<1> HIDE DEF With
<1>3. 0 + 1 = 1 /\ 1 + 1 = 2 /\ 2 + 1 = 3 /\ 3 + 1 = 4 /\ {0, 1, 2, 3} \subseteq 0..3
  BY SMT
<1>4. With(Bottom(regs.backdrop), 0) \in Composing(x, 1)
  BY <1>1, <1>2, <1>3
<1>5. With(With(Bottom(regs.backdrop), 0), 1) \in Composing(x, 2)
  BY <1>2, <1>3, <1>4
<1>6. With(With(With(Bottom(regs.backdrop), 0), 1), 2) \in Composing(x, 3)
  BY <1>2, <1>3, <1>5
<1>7. With(With(With(With(Bottom(regs.backdrop), 0), 1), 2), 3) \in Composing(x, 4)
  BY <1>2, <1>3, <1>6
<1> QED
  BY <1>7 DEF With

\* What the properties say of the two layers that lie highest at x.
TwoHighest(c, x) ==
    LET below == Shown(x) \ {c.top}
    IN  /\ c \in Composition
        /\ HighestOr(Shown(x), c.top, x)
        /\ c.colour = ColourOf(c.top, x)
        /\ c.second \in (IF below = {} THEN {Backdrop} ELSE below)
        /\ c.below = ColourOf(c.second, x)
        /\ c.top = Sprite \/ (\A k \in below : k < c.top) => HighestOr(below, c.second, x)

LEMMA ComposedIsHighest ==
    ASSUME TypeOK, line < Lines, NEW x \in Column
    PROVE  TwoHighest(Composed(regs, affine, x, line), x)
<1> DEFINE With(p, b) == WithBackground(regs, affine, x, line, p, b)
           p == With(With(With(With(Bottom(regs.backdrop), 0), 1), 2), 3)
           sprite == IF regs.objs THEN SpritePixel(regs.oam, x, line) ELSE NoSprite
           c == Composed(regs, affine, x, line)
           seen == Seen(x, 4)
           rest == seen \ {p.top}
           shows == regs.objs /\ Sprite \in Lit(x) /\ Sprites(x) # {}
<1>1. p \in Composing(x, 4)
  BY BackgroundsComposed
<1>2. c = IF sprite.colour # Transparent /\ Sprite \in Lit(x) THEN AddSprite(p, sprite) ELSE p
  BY WindowFlagsAreLit DEF Composed
<1>3. shows <=> sprite.colour # Transparent /\ Sprite \in Lit(x)
  <2>1. NoSprite.colour = Transparent
    BY DEF NoSprite
  <2>2. Sprites(x) = {} => sprite = NoSprite
    BY NoSpriteShows
  <2>3. Sprites(x) # {} /\ regs.objs => sprite.colour # Transparent
    <3>1. ASSUME Sprites(x) # {}, regs.objs PROVE sprite.colour # Transparent
      <4>1. /\ sprite = PixelOf(regs.oam, x, line, FrontSprite(x))
            /\ SpriteTexel(regs.oam[FrontSprite(x)], x, line) # Transparent
        BY <3>1, FrontSpriteShows
      <4> HIDE DEF sprite
      <4> QED
        BY <4>1 DEF PixelOf
    <3> QED
      BY <3>1
  <2> QED
    BY <2>1, <2>2, <2>3
<1>4. Shown(x) = IF shows THEN seen \cup {Sprite} ELSE seen
  <2>1. \A b \in regs.bgs : b < 4
    <3>1. regs.bgs \subseteq 0..3
      BY Typed DEF IsRegisters
    <3> QED
      BY <3>1, SMT
  <2> QED
    BY <2>1, Zenon DEF Shown, Seen
<1>5. p \in Composition /\ seen \subseteq 0..3
  <2>1. regs.bgs \subseteq 0..3
    BY Typed DEF IsRegisters
  <2> QED
    BY <1>1, <2>1 DEF Composing, Seen
<1>6. IF seen = {} THEN p = Bottom(regs.backdrop)
      ELSE /\ IsHighest(seen, p.top, x) /\ p.priority = regs.bg[p.top].priority
           /\ p.colour = BgPixel(regs, affine, p.top, x, line)
           /\ p.second \in (IF rest = {} THEN {Backdrop} ELSE rest)
           /\ p.below = ColourOf(p.second, x)
           /\ (\A k \in rest : k < p.top) => HighestOr(rest, p.second, x)
  BY <1>1 DEF Composing
<1> HIDE DEF p, seen, rest, c
<1>7. /\ seen = {} => /\ p.top = Backdrop /\ p.priority = 4 /\ p.second = Backdrop
                      /\ p.colour = regs.backdrop /\ p.below = regs.backdrop
      /\ seen # {} => p.top \in seen /\ p.top \in 0..3
  <2>1. regs.backdrop \in Colour
    BY Typed DEF IsRegisters
  <2> QED
    BY <1>5, <1>6, <2>1, BottomTyped DEF IsHighest
<1>8. p.colour = ColourOf(p.top, x) /\ p.below = ColourOf(p.second, x)
  <2>1. CASE seen = {}
    BY <1>7, <2>1, LayerColours
  <2>2. CASE seen # {}
    BY <1>6, <1>7, <2>2, LayerColours
  <2> QED
    BY <2>1, <2>2
<1>9. CASE ~shows
  <2>1. c = p /\ Shown(x) = seen /\ Shown(x) \ {p.top} = rest
    BY <1>2, <1>3, <1>4, <1>9 DEF rest
  <2>2. CASE seen = {}
    <3>1. p.top # Sprite /\ rest = {}
      BY <1>7, <2>2 DEF Backdrop, Sprite, rest
    <3> QED
      BY <1>5, <1>7, <1>8, <2>1, <2>2, <3>1 DEF TwoHighest, HighestOr, c
  <2>3. CASE seen # {}
    <3>1. p.top # Sprite
      BY <1>7, <2>3, SMT DEF Sprite
    <3> QED
      BY <1>5, <1>6, <1>8, <2>1, <2>3, <3>1 DEF TwoHighest, HighestOr, c
  <2> QED
    BY <2>2, <2>3
<1>10. CASE shows
  <2> DEFINE f == FrontSprite(x)
             priority == regs.oam[f].priority
  <2>1. /\ sprite.colour = SpriteTexel(regs.oam[f], x, line) /\ sprite.priority = priority
        /\ priority \in 0..3 /\ priority \in 0..4 /\ sprite.colour \in Colour
    <3>1. /\ IsOam(regs.oam) /\ f \in 1..Len(regs.oam) /\ sprite = PixelOf(regs.oam, x, line, f)
          /\ SpriteTexel(regs.oam[f], x, line) # Transparent
      BY <1>10, Typed, FrontSpriteShows
    <3>2. priority \in 0..3 /\ sprite \in FrontPixel
      BY <3>1, PixelOfTyped
    <3>3. sprite.colour = SpriteTexel(regs.oam[f], x, line) /\ sprite.priority = priority
      BY <3>1 DEF PixelOf
    <3> QED
      BY <3>1, <3>2, <3>3 DEF FrontPixel, Texel
  <2>2. c = AddSprite(p, sprite) /\ Shown(x) = seen \cup {Sprite} /\ Sprite \notin seen
    <3>1. Sprite \notin seen
      BY <1>5, SMT DEF Sprite
    <3> QED
      BY <1>2, <1>3, <1>4, <1>10, <3>1
  <2>3. Sprite \in Layer
    BY SMT DEF Sprite, Layer, Backdrop
  <2>4. PriorityOf(Sprite, x) = priority /\ ColourOf(Sprite, x) = SpriteTexel(regs.oam[f], x, line)
    BY DEF PriorityOf, ColourOf, Sprite, Backdrop
  <2>5. \A k \in seen : PriorityOf(k, x) = regs.bg[k].priority /\ regs.bg[k].priority \in 0..3
    BY <1>5, BackgroundAbove
  <2> HIDE DEF sprite, f, priority
  <2>6. CASE priority <= p.priority
    <3>1. c = Over(p, Sprite, priority, sprite.colour)
      BY <2>1, <2>2, <2>6 DEF AddSprite
    <3>2. /\ c \in Composition /\ c.top = Sprite /\ c.colour = sprite.colour /\ c.second = p.top
          /\ c.below = ColourOf(p.top, x)
      <4>1. p \in Composition /\ Sprite \in Layer /\ priority \in 0..4 /\ sprite.colour \in Colour
        BY <1>5, <2>1, <2>3
      <4>2. /\ Over(p, Sprite, priority, sprite.colour) \in Composition
            /\ Over(p, Sprite, priority, sprite.colour).top = Sprite
            /\ Over(p, Sprite, priority, sprite.colour).colour = sprite.colour
            /\ Over(p, Sprite, priority, sprite.colour).second = p.top
            /\ Over(p, Sprite, priority, sprite.colour).below = p.colour
        BY <4>1, OverTyped, SMTT(40)
      <4> QED
        BY <1>8, <3>1, <4>2
    <3>3. \A k \in seen : Above(Sprite, k, x)
      <4> SUFFICES ASSUME NEW k \in seen PROVE Above(Sprite, k, x)
        OBVIOUS
      <4>1. p.top \in seen /\ p.priority = regs.bg[p.top].priority
        BY <1>6, <1>7
      <4>2. regs.bg[p.top].priority <= regs.bg[k].priority
        <5>1. k # p.top => Above(p.top, k, x) /\ p.top \in 0..3 /\ k \in 0..3
          BY <1>5, <1>6, <4>1 DEF IsHighest
        <5>2. k # p.top => \/ regs.bg[p.top].priority < regs.bg[k].priority
                           \/ regs.bg[p.top].priority = regs.bg[k].priority
          BY <5>1, BackgroundAbove
        <5> QED
          BY <2>5, <4>1, <5>2
      <4>3. priority <= regs.bg[k].priority /\ regs.bg[k].priority \in 0..3
        BY <2>1, <2>5, <2>6, <4>1, <4>2
      <4>4. priority < regs.bg[k].priority \/ priority = regs.bg[k].priority
        BY <2>1, <4>3
      <4> QED
        BY <2>4, <2>5, <4>4 DEF Above
    <3>4. Shown(x) \ {c.top} = seen /\ IsHighest(Shown(x), Sprite, x) /\ Shown(x) # {}
      BY <2>2, <3>2, <3>3 DEF IsHighest
    <3>5. HighestOr(seen, p.top, x) /\ p.top \in (IF seen = {} THEN {Backdrop} ELSE seen)
      BY <1>6, <1>7 DEF HighestOr
    <3>6. c.colour = ColourOf(c.top, x)
      BY <2>1, <2>4, <3>2
    <3> QED
      BY <3>2, <3>4, <3>5, <3>6 DEF TwoHighest, HighestOr, c
  <2>7. CASE ~(priority <= p.priority)
    <3>1. c = Under(p, Sprite, sprite.colour)
      BY <2>1, <2>2, <2>7 DEF AddSprite
    <3>2. /\ c \in Composition /\ c.top = p.top /\ c.colour = p.colour /\ c.second = Sprite
          /\ c.below = ColourOf(Sprite, x)
      BY <1>5, <2>1, <2>3, <2>4, <3>1, UnderTyped
    <3>3. seen # {}
      BY <1>7, <2>1, <2>7
    <3>4. Above(p.top, Sprite, x) /\ p.top # Sprite /\ ~(Sprite < p.top)
      <4>1. p.top \in seen /\ p.top \in 0..3 /\ p.priority = regs.bg[p.top].priority
        BY <1>6, <1>7, <3>3
      <4>2. regs.bg[p.top].priority < priority
        BY <2>1, <2>5, <2>7, <4>1
      <4>3. p.top # Sprite /\ ~(Sprite < p.top)
        BY <4>1, SMT DEF Sprite
      <4> QED
        BY <2>4, <2>5, <4>1, <4>2, <4>3 DEF Above
    <3>5. IsHighest(Shown(x), p.top, x) /\ Sprite \in Shown(x) \ {p.top}
      BY <1>6, <2>2, <3>3, <3>4 DEF IsHighest
    <3> QED
      BY <1>8, <3>2, <3>4, <3>5 DEF TwoHighest, HighestOr, c
  <2> QED
    BY <2>6, <2>7
<1> QED
  BY <1>9, <1>10 DEF c

\* No two layers lie highest.
LEMMA HighestIsUnique ==
    ASSUME TypeOK, NEW x, NEW set \in SUBSET Shown(x), NEW k, HighestOr(set, k, x)
    PROVE  Highest(set, x) = k
<1>1. CASE set = {}
  BY <1>1 DEF Highest, HighestOr
<1>2. CASE set # {}
  <2>1. IsHighest(set, k, x)
    BY <1>2 DEF HighestOr
  <2>2. \A l \in Shown(x) : PriorityOf(l, x) \in Nat /\ l \in Nat
    <3>1. regs.bgs \subseteq 0..3
      BY Typed DEF IsRegisters
    <3>2. \A l \in 0..3 : PriorityOf(l, x) \in Nat /\ l \in Nat
      BY BackgroundAbove, SMT
    <3>3. Sprites(x) # {} => PriorityOf(Sprite, x) \in Nat /\ Sprite \in Nat
      BY Typed, FrontSpriteShows, PixelOfTyped, SMT DEF PriorityOf, Sprite
    <3> QED
      BY <3>1, <3>2, <3>3 DEF Shown
  <2>3. ASSUME NEW l \in set, IsHighest(set, l, x) PROVE l = k
    <3>1. PriorityOf(l, x) \in Nat /\ PriorityOf(k, x) \in Nat /\ l \in Nat /\ k \in Nat
      BY <2>1, <2>2 DEF IsHighest
    <3>2. l # k => Above(l, k, x) /\ Above(k, l, x)
      BY <2>1, <2>3 DEF IsHighest
    <3> QED
      BY <3>1, <3>2 DEF Above
  <2>4. \A l \in set : IsHighest(set, l, x) <=> \A j \in set \ {l} : Above(l, j, x)
    BY DEF IsHighest
  <2>5. Highest(set, x) = CHOOSE l \in set : IsHighest(set, l, x)
    BY <1>2, <2>4 DEF Highest
  <2> QED
    BY <2>1, <2>3, <2>5 DEF IsHighest
<1> QED
  BY <1>1, <1>2

LEMMA SecondOfTwo ==
    ASSUME TypeOK, NEW x, NEW c, TwoHighest(c, x)
    PROVE  Highest(Shown(x), x) = c.top /\ c.second \in Seconds(x)
<1>1. Highest(Shown(x), x) = c.top
  BY HighestIsUnique DEF TwoHighest
<1> DEFINE below == Shown(x) \ {c.top}
<1>2. HighestOr(below, c.second, x) => Highest(below, x) = c.second
  BY HighestIsUnique
<1>3. CASE c.top = Sprite \/ \A k \in below : k < c.top
  BY <1>1, <1>2, <1>3 DEF TwoHighest, Seconds
<1>4. CASE ~(c.top = Sprite \/ \A k \in below : k < c.top)
  <2>1. below # {}
    BY <1>4
  <2> QED
    BY <1>1, <1>4, <2>1 DEF TwoHighest, Seconds
<1> QED
  BY <1>1, <1>3, <1>4

LEMMA SecondBelow ==
    ASSUME TypeOK
    PROVE  SecondIsBelow
<1> SUFFICES ASSUME line < Lines, ~regs.blank, NEW x \in Column
             PROVE  LET composed == Composed(regs, affine, x, line)
                    IN  /\ composed.second \in Seconds(x)
                        /\ composed.below = ColourOf(composed.second, x)
  BY DEF SecondIsBelow, Column
<1> QED
  BY ComposedIsHighest, SecondOfTwo DEF TwoHighest

-----------------------------------------------------------------------------
(***************************************************************************)
(* Colours.                                                                *)
(***************************************************************************)
LEMMA FactorTyped == \A v \in Nat : Factor(v) \in 0..16
BY SMT DEF Factor

LEMMA SixteenthTyped ==
    ASSUME NEW c \in Colour, NEW f \in 0..16
    PROVE  (c * f) \div 16 \in 0..c
<1>1. c \in Nat /\ f \in Nat /\ c * f \in Nat /\ c * f <= 16 * c
  <2>1. c \in Nat /\ f \in 0..16
    BY SMT DEF Colour
  <2> QED
    BY <2>1, SMT
<1> DEFINE a == c * f
<1>2. a \in Nat /\ a <= 16 * c
  BY <1>1
<1> HIDE DEF a
<1>3. a \div 16 \in 0..c
  BY <1>1, <1>2, SMT
<1> QED
  BY <1>3 DEF a

LEMMA BlendTyped ==
    ASSUME NEW blend, blend.eva \in Nat, blend.evb \in Nat, blend.evy \in Nat,
           NEW c \in Colour, NEW d \in Colour
    PROVE  /\ AlphaBlend(c, d, blend) \in Colour
           /\ Brighter(c, blend) \in Colour /\ Darker(c, blend) \in Colour
<1> DEFINE eva == Factor(blend.eva)
           evb == Factor(blend.evb)
           evy == Factor(blend.evy)
<1>1. eva \in 0..16 /\ evb \in 0..16 /\ evy \in 0..16
  BY FactorTyped
<1> HIDE DEF eva, evb, evy
<1>2. c \in 0..31 /\ d \in 0..31 /\ 31 - c \in 0..31
  BY SMT DEF Colour
<1>3. AlphaBlend(c, d, blend) \in Colour
  <2> DEFINE sum == c * eva + d * evb
  <2>1. c * eva \in Nat /\ d * evb \in Nat
    BY <1>1, <1>2
  <2>2. sum \in Nat
    BY <2>1
  <2>3. sum \div 16 \in Nat
    BY <2>2, Quotients
  <2>4. AlphaBlend(c, d, blend) = IF sum \div 16 > 31 THEN 31 ELSE sum \div 16
    BY DEF AlphaBlend, eva, evb
  <2> HIDE DEF sum
  <2> QED
    BY <2>3, <2>4, SMT DEF Colour
<1>4. Brighter(c, blend) \in Colour
  <2>1. ((31 - c) * evy) \div 16 \in 0..(31 - c)
    BY <1>1, <1>2, SixteenthTyped DEF Colour
  <2>2. Brighter(c, blend) = c + (((31 - c) * evy) \div 16)
    BY DEF Brighter, evy
  <2> DEFINE q == ((31 - c) * evy) \div 16
  <2>3. q \in 0..(31 - c)
    BY <2>1
  <2> HIDE DEF q
  <2>4. c + q \in 0..31
    BY <1>2, <2>3
  <2> QED
    BY <2>2, <2>4 DEF q, Colour
<1>5. Darker(c, blend) \in Colour
  <2> DEFINE q == (c * evy) \div 16
  <2>1. q \in 0..c
    BY <1>1, SixteenthTyped
  <2>2. Darker(c, blend) = c - q
    BY DEF Darker, evy
  <2> HIDE DEF q
  <2>3. c - q \in 0..31
    BY <1>2, <2>1
  <2> QED
    BY <2>2, <2>3 DEF Colour
<1> QED
  BY <1>3, <1>4, <1>5

LEMMA PixelTyped ==
    ASSUME TypeOK, line < Lines, NEW x \in Column
    PROVE  Pixel(regs, affine, x, line) \in Colour
<1> DEFINE c == Composed(regs, affine, x, line)
           blend == regs.blend
<1>1. c.colour \in Colour /\ c.below \in Colour
  BY ComposedIsHighest DEF TwoHighest, Composition
<1>2. blend.eva \in Nat /\ blend.evb \in Nat /\ blend.evy \in Nat
  BY Typed DEF IsRegisters
<1>3. /\ AlphaBlend(c.colour, c.below, blend) \in Colour
      /\ Brighter(c.colour, blend) \in Colour /\ Darker(c.colour, blend) \in Colour
  BY <1>1, <1>2, BlendTyped
<1> HIDE DEF c, blend
<1>4. ASSUME NEW semi, NEW on \in BOOLEAN PROVE Effect(c, semi, on, blend) \in Colour
  BY <1>1, <1>3 DEF Effect
<1>5. White \in Colour
  BY SMT DEF White, Colour
<1>6. Pixel(regs, affine, x, line)
        = IF regs.blank THEN White
          ELSE Effect(c, SpritePixel(regs.oam, x, line).semi, Effects \in WindowFlags(regs, x, line), blend)
  BY DEF Pixel, c, blend
<1>7. (Effects \in WindowFlags(regs, x, line)) \in BOOLEAN
  OBVIOUS
<1> QED
  BY <1>4, <1>5, <1>6, <1>7

\* A pixel is what the effect makes of the highest layer over one of Seconds.
LEMMA PixelIsHighest ==
    ASSUME TypeOK, line < Lines, NEW x \in Column
    PROVE  IF regs.blank THEN Pixel(regs, affine, x, line) = White
           ELSE \E second \in Seconds(x) : Pixel(regs, affine, x, line) = Effected(second, x)
<1> DEFINE c == Composed(regs, affine, x, line)
           semi == SpritePixel(regs.oam, x, line).semi
           front == c.top = Sprite /\ regs.oam[FrontSprite(x)].mode = 1
           on == Effects \in Lit(x)
           d == [top |-> c.top, colour |-> c.colour, second |-> c.second, below |-> c.below]
<1>1. TwoHighest(c, x)
  BY ComposedIsHighest
<1>2. c.second \in Seconds(x) /\ Highest(Shown(x), x) = c.top
  BY <1>1, SecondOfTwo
<1>3. Pixel(regs, affine, x, line) = IF regs.blank THEN White ELSE Effect(c, semi, on, regs.blend)
  BY WindowFlagsAreLit DEF Pixel
<1>4. Effected(c.second, x) = Effect(d, front, on, regs.blend)
  BY <1>1, <1>2 DEF Effected, TwoHighest
<1>5. ASSUME c.top = Sprite PROVE semi = front
  <2>1. Sprite \in Shown(x)
    BY <1>1, <1>5, SMT DEF TwoHighest, HighestOr, IsHighest, Sprite, Backdrop
  <2>2. Sprite \notin regs.bgs
    <3>1. regs.bgs \subseteq 0..3
      BY Typed DEF IsRegisters
    <3> QED
      BY <3>1, SMT DEF Sprite
  <2>3. SpritePixel(regs.oam, x, line) = PixelOf(regs.oam, x, line, FrontSprite(x))
    BY <2>1, <2>2, FrontSpriteShows DEF Shown
  <2> QED
    BY <1>5, <2>3 DEF PixelOf
<1>6. /\ d.top = c.top /\ d.colour = c.colour /\ d.second = c.second /\ d.below = c.below
      /\ c.top = Sprite /\ semi <=> d.top = Sprite /\ front
  BY <1>5
<1> HIDE DEF c, semi, front, on, d
<1>7. Effect(c, semi, on, regs.blend) = Effect(d, front, on, regs.blend)
  BY <1>6, Zenon DEF Effect
<1> QED
  BY <1>2, <1>3, <1>4, <1>7

-----------------------------------------------------------------------------
(***************************************************************************)
(* Steps.                                                                  *)
(***************************************************************************)
\* A background can have moved at most once for each line of the frame so far.
MovedWithLines ==
    \A b \in Affine, a \in Axes : moved[b][a] # Unsteady => moved[b][a] <= line

IInv == TypeOK /\ MovedWithLines /\ AffineFollowsLines

Moved == {Unsteady} \cup 0..Lines

LEMMA CoordinatesTyped ==
    ASSUME NEW c \in Coordinates, NEW v \in Int, NEW ref \in 0..(HalfSpan * HalfSpan - 1)
    PROVE  /\ c.across \in Int /\ c.down \in Int /\ c.internal \in Int
           /\ c.ref \in 0..(HalfSpan * HalfSpan - 1)
           /\ [c EXCEPT !.across = v] \in Coordinates /\ [c EXCEPT !.down = v] \in Coordinates
           /\ [c EXCEPT !.internal = v] \in Coordinates
           /\ [c EXCEPT !.ref = ref, !.internal = v] \in Coordinates
BY DEF Coordinates

LEMMA ReferenceTyped ==
    ASSUME NEW ref \in 0..(HalfSpan * HalfSpan - 1), NEW half \in {"low", "high"},
           NEW value \in 0..(HalfSpan - 1)
    PROVE  Half(ref, half, value) \in 0..(HalfSpan * HalfSpan - 1)
<1> DEFINE H == HalfSpan
           q == ref \div H
           m == ref % H
<1>1. H \in Nat \ {0} /\ value \in 0..(H - 1) /\ H * H \in Nat /\ ref \in 0..(H * H - 1)
  BY PpuAssumption
<1>2. ref \in Nat /\ ref < H * H
  <2> DEFINE s == H * H
  <2>1. s \in Nat /\ ref \in 0..(s - 1)
    BY <1>1
  <2> HIDE DEF s, H
  <2>2. ref \in Nat /\ ref < s
    BY <2>1
  <2> QED
    BY <2>2 DEF s
<1>3. q \in Nat /\ m \in 0..(H - 1) /\ ref = H * q + m
  BY <1>1, <1>2, DivMod
<1> HIDE DEF H, q, m
<1>4. \A k \in 0..(H - 1) : \A v \in 0..(H - 1) : H * k + v \in 0..(H * H - 1)
  <2> SUFFICES ASSUME NEW k \in 0..(H - 1), NEW v \in 0..(H - 1)
               PROVE  H * k + v \in 0..(H * H - 1)
    OBVIOUS
  <2>1. /\ k \in Nat /\ H - 1 - k \in Nat /\ v \in Nat /\ v <= H - 1 /\ H * k \in Nat
        /\ H * (H - 1 - k) \in Nat
    BY <1>1, SMT
  <2>2. H * H = H * k + H * (H - 1 - k) + H
    BY <1>1, <2>1, SMT
  <2> DEFINE a == H * k
             b == H * (H - 1 - k)
  <2>3. a \in Nat /\ b \in Nat /\ H * H = a + b + H
    BY <2>1, <2>2
  <2> HIDE DEF a, b
  <2>4. a + v \in 0..((a + b + H) - 1)
    BY <1>1, <2>1, <2>3, SMT
  <2> QED
    BY <2>3, <2>4 DEF a
<1>5. q \in 0..(H - 1)
  <2>1. SUFFICES ASSUME q >= H PROVE FALSE
    BY <1>1, <1>3, SMT
  <2>2. PICK k \in Nat : q = H + k
    <3>1. q - H \in Nat /\ q = H + (q - H)
      BY <1>1, <1>3, <2>1, SMT
    <3> QED
      BY <3>1
  <2>3. H * q = H * H + H * k /\ H * k \in Nat
    BY <1>1, <2>2, SMT
  <2> DEFINE s == H * H
             a == H * k
  <2>4. s \in Nat /\ a \in Nat /\ ref = s + a + m /\ ref < s /\ m \in Nat
    BY <1>1, <1>2, <1>3, <2>3
  <2> HIDE DEF s, a
  <2> QED
    BY <2>4, SMT
<1>6. CASE half = "low"
  <2>1. Half(ref, half, value) = ref - m + value
    BY <1>6 DEF Half, m, H
  <2>2. H * q + value \in 0..(H * H - 1)
    BY <1>1, <1>4, <1>5
  <2> DEFINE a == H * q
  <2>3. a \in Int /\ ref = a + m /\ m \in Int /\ value \in Int
    BY <1>1, <1>3
  <2> HIDE DEF a
  <2>4. ref - m + value = a + value
    BY <2>3, SMT
  <2> QED
    BY <2>1, <2>2, <2>4 DEF a, H
<1>7. CASE half = "high"
  <2>1. Half(ref, half, value) = m + H * value
    BY <1>7 DEF Half, m, H
  <2>2. H * value + m \in 0..(H * H - 1)
    BY <1>1, <1>3, <1>4
  <2> DEFINE a == H * value
  <2>3. a \in Int /\ m \in Int
    BY <1>1, <1>3
  <2> HIDE DEF a
  <2>4. m + a = a + m
    BY <2>3, SMT
  <2> QED
    BY <2>1, <2>2, <2>4 DEF a, H
<1> QED
  BY <1>6, <1>7

LEMMA SignExtendTyped ==
    ASSUME NEW ref \in Int
    PROVE  SignExtend(ref) \in Int
BY Quotients, PpuAssumption DEF SignExtend

LEMMA FieldsTyped ==
    ASSUME TypeOK, NEW b \in Affine, NEW a \in Axes
    PROVE  /\ affine[b][a] \in Coordinates /\ affine[b] \in [Axes -> Coordinates]
           /\ affine[b][a].internal \in Int /\ affine[b][a].down \in Int
           /\ affine[b][a].ref \in Int /\ affine[b][a].ref \in 0..(HalfSpan * HalfSpan - 1)
           /\ SignExtend(affine[b][a].ref) \in Int
           /\ moved[b][a] \in Moved
<1>1. affine[b][a] \in Coordinates /\ affine[b] \in [Axes -> Coordinates] /\ moved[b][a] \in Moved
  BY DEF TypeOK, Moved
<1>2. /\ affine[b][a].internal \in Int /\ affine[b][a].down \in Int
      /\ affine[b][a].ref \in 0..(HalfSpan * HalfSpan - 1)
  BY <1>1 DEF Coordinates
<1>3. affine[b][a].ref \in Int
  BY <1>2
<1> QED
  BY <1>1, <1>2, <1>3, SignExtendTyped

\* Coordinates that have just been loaded.
LEMMA FreshTyped ==
    /\ Unmoved \in [Affine -> [Axes -> Moved]] /\ \A b \in Affine, a \in Axes : Unmoved[b][a] = 0
    /\ NewAffine \in [Affine -> [Axes -> Coordinates]]
    /\ \A b \in Affine, a \in Axes : /\ NewAffine[b][a].internal = 0
                                     /\ NewAffine[b][a].ref = 0 /\ NewAffine[b][a].down \in Int
    /\ SignExtend(0) = 0 /\ 0 # Unsteady
<1>1. Unit \in Nat /\ HalfSpan * HalfSpan - 1 \in Nat /\ 0 \in Moved
  <2>1. HalfSpan * HalfSpan \in Nat \ {0}
    BY PpuAssumption, SMT
  <2>2. 0 \in 0..Lines
    BY Screen
  <2> QED
    BY <2>1, <2>2, PpuAssumption DEF Moved
<1>2. \A a \in Axes : [across |-> IF a = "x" THEN Unit ELSE 0, down |-> IF a = "y" THEN Unit ELSE 0,
                       ref |-> 0, internal |-> 0] \in Coordinates
  <2>1. 0 \in 0..(HalfSpan * HalfSpan - 1)
    BY <1>1
  <2> QED
    BY <1>1, <2>1 DEF Coordinates
<1>3. SignExtend(0) = 0
  <2>1. 0 % RefSpan = 0 /\ RefSpan \in Nat \ {0}
    BY PpuAssumption, ModSmall
  <2> QED
    BY <2>1, SMT DEF SignExtend
<1> QED
  BY <1>1, <1>2, <1>3 DEF Unmoved, NewAffine, Unsteady

LEMMA InitIInv == Init => IInv
<1> SUFFICES ASSUME Init PROVE IInv
  OBVIOUS
<1>1. row \in [0..(Columns - 1) -> Colour] /\ 0 \in 0..Lines
  BY Screen, SMT DEF Init, Colour
<1>2. TypeOK
  BY <1>1, FreshTyped DEF Init, TypeOK, Moved
<1>3. MovedWithLines /\ AffineFollowsLines
  BY FreshTyped DEF Init, MovedWithLines, AffineFollowsLines
<1> QED
  BY <1>2, <1>3 DEF IInv

LEMMA ResetSteps ==
    ASSUME IInv, Reset
    PROVE  IInv'
<1>1. TypeOK'
  <2>1. 0 \in 0..Lines
    BY Screen
  <2> QED
    BY <2>1, FreshTyped DEF IInv, TypeOK, Reset, Moved
<1>2. MovedWithLines' /\ AffineFollowsLines'
  BY FreshTyped DEF Reset, MovedWithLines, AffineFollowsLines
<1> QED
  BY <1>1, <1>2 DEF IInv

LEMMA VblankEndSteps ==
    ASSUME IInv, OnVblankEnd
    PROVE  IInv'
<1>1. /\ affine' = [b \in Affine |-> [a \in Axes |->
           [affine[b][a] EXCEPT !.internal = SignExtend(affine[b][a].ref)]]]
      /\ line' = 0 /\ moved' = Unmoved /\ UNCHANGED <<regs, row>>
  BY DEF OnVblankEnd
<1>2. ASSUME NEW b \in Affine, NEW a \in Axes
      PROVE  /\ [affine[b][a] EXCEPT !.internal = SignExtend(affine[b][a].ref)] \in Coordinates
             /\ affine'[b][a].internal = SignExtend(affine'[b][a].ref)
             /\ affine'[b][a].down \in Int
  <2> DEFINE c == affine[b][a]
  <2>1. c \in Coordinates /\ SignExtend(c.ref) \in Int /\ c.down \in Int
    BY FieldsTyped DEF IInv
  <2>2. affine'[b][a] = [c EXCEPT !.internal = SignExtend(c.ref)]
    BY <1>1
  <2> HIDE DEF c
  <2>3. /\ [c EXCEPT !.internal = SignExtend(c.ref)].internal = SignExtend(c.ref)
        /\ [c EXCEPT !.internal = SignExtend(c.ref)].ref = c.ref
        /\ [c EXCEPT !.internal = SignExtend(c.ref)].down = c.down
        /\ [c EXCEPT !.internal = SignExtend(c.ref)] \in Coordinates
    BY <2>1 DEF Coordinates
  <2> QED
    BY <2>1, <2>2, <2>3 DEF c
<1>3. affine' \in [Affine -> [Axes -> Coordinates]]
  BY <1>1, <1>2
<1>4. TypeOK'
  <2>1. 0 \in 0..Lines
    BY Screen
  <2> QED
    BY <1>1, <1>3, <2>1, FreshTyped DEF IInv, TypeOK, Moved
<1>5. MovedWithLines' /\ AffineFollowsLines'
  <2>1. \A b \in Affine, a \in Axes : moved'[b][a] = 0
    BY <1>1, FreshTyped
  <2>2. ASSUME NEW b \in Affine, NEW a \in Axes
        PROVE  affine'[b][a].internal
                 = SignExtend(affine'[b][a].ref) + moved'[b][a] * affine'[b][a].down
    <3>1. SignExtend(affine'[b][a].ref) \in Int
      <4>1. affine'[b][a].ref \in Int
        BY <1>3, SMT DEF Coordinates
      <4> QED
        BY <4>1, SignExtendTyped
    <3> DEFINE v == SignExtend(affine'[b][a].ref)
               d == affine'[b][a].down
    <3>2. v \in Int /\ d \in Int /\ affine'[b][a].internal = v
      BY <1>2, <3>1
    <3>3. affine'[b][a].internal = v + moved'[b][a] * d
      <4> HIDE DEF v, d
      <4> QED
        BY <2>1, <3>2
    <3> QED
      BY <3>3
  <2> QED
    BY <1>1, <2>1, <2>2 DEF MovedWithLines, AffineFollowsLines
<1> QED
  BY <1>4, <1>5 DEF IInv

LEMMA WriteRegistersSteps ==
    ASSUME IInv, WriteRegisters
    PROVE  IInv'
BY DEF IInv, TypeOK, WriteRegisters, MovedWithLines, AffineFollowsLines

\* A parameter of a coordinate that has moved makes it unsteady, or is not the step.
LEMMA WriteParameterSteps ==
    ASSUME IInv, WriteParameter
    PROVE  IInv'
<1>1. PICK s \in Steps :
        /\ affine' = [affine EXCEPT ![s.bg][s.axis][s.way] = s.value]
        /\ moved' = IF s.way = "down" /\ s.value # affine[s.bg][s.axis].down
                    THEN [moved EXCEPT ![s.bg][s.axis] = IF @ = 0 THEN 0 ELSE Unsteady] ELSE moved
        /\ UNCHANGED <<line, regs, row>>
  BY DEF WriteParameter
<1>2. s.bg \in Affine /\ s.axis \in Axes /\ s.way \in {"across", "down"} /\ s.value \in Int
  BY PpuAssumption
<1> DEFINE c == affine[s.bg][s.axis]
           d == [c EXCEPT ![s.way] = s.value]
<1>3. TypeOK /\ MovedWithLines /\ AffineFollowsLines
  BY DEF IInv
<1>4. c \in Coordinates
  BY <1>2, <1>3, FieldsTyped
<1>5. /\ d \in Coordinates /\ d.internal = c.internal /\ d.ref = c.ref
      /\ d.down = IF s.way = "down" THEN s.value ELSE c.down
  <2> HIDE DEF c
  <2>1. CASE s.way = "across"
    BY <1>2, <1>4, <2>1 DEF Coordinates
  <2>2. CASE s.way = "down"
    BY <1>2, <1>4, <2>2 DEF Coordinates
  <2> QED
    BY <1>2, <2>1, <2>2
<1>6. /\ affine' \in [Affine -> [Axes -> Coordinates]]
      /\ \A b \in Affine : \A a \in Axes :
           affine'[b][a] = IF b = s.bg /\ a = s.axis THEN d ELSE affine[b][a]
  <2>1. affine' = [affine EXCEPT ![s.bg] = [affine[s.bg] EXCEPT ![s.axis] = d]]
    BY <1>1
  <2> HIDE DEF c, d
  <2>2. affine \in [Affine -> [Axes -> Coordinates]]
    BY <1>3 DEF TypeOK
  <2> QED
    BY <1>2, <1>5, <2>1, <2>2
<1>7. /\ moved' \in [Affine -> [Axes -> Moved]]
      /\ \A b \in Affine : \A a \in Axes :
           \/ moved'[b][a] = moved[b][a] /\ (b = s.bg /\ a = s.axis => s.way = "across" \/ s.value = c.down)
           \/ moved'[b][a] = 0 /\ moved[b][a] = 0
           \/ moved'[b][a] = Unsteady
  <2>1. moved \in [Affine -> [Axes -> Moved]]
    BY <1>3 DEF TypeOK, Moved
  <2>2. CASE s.way = "down" /\ s.value # c.down
    <3> DEFINE m == IF moved[s.bg][s.axis] = 0 THEN 0 ELSE Unsteady
    <3>1. m \in Moved
      BY Screen DEF Moved
    <3>2. moved' = [moved EXCEPT ![s.bg] = [moved[s.bg] EXCEPT ![s.axis] = m]]
      BY <1>1, <2>2
    <3>3. (m = 0 /\ moved[s.bg][s.axis] = 0) \/ m = Unsteady
      OBVIOUS
    <3> HIDE DEF m, c
    <3> QED
      BY <1>2, <2>1, <3>1, <3>2, <3>3
  <2>3. CASE ~(s.way = "down" /\ s.value # c.down)
    BY <1>1, <1>2, <2>1, <2>3
  <2> QED
    BY <2>2, <2>3
<1> HIDE DEF c, d
<1>8. TypeOK'
  BY <1>1, <1>3, <1>6, <1>7 DEF TypeOK, Moved
<1>9. MovedWithLines'
  <2>1. 0 <= line
    BY <1>3, SMT DEF TypeOK
  <2> QED
    BY <1>1, <1>3, <1>7, <2>1 DEF MovedWithLines
<1>10. AffineFollowsLines'
  <2> SUFFICES ASSUME NEW b \in Affine, NEW a \in Axes, moved'[b][a] # Unsteady
               PROVE  affine'[b][a].internal
                        = SignExtend(affine'[b][a].ref) + moved'[b][a] * affine'[b][a].down
    BY DEF AffineFollowsLines
  <2>1. /\ affine'[b][a].internal = affine[b][a].internal /\ affine'[b][a].ref = affine[b][a].ref
        /\ affine'[b][a].down = affine[b][a].down \/ (moved'[b][a] = 0 /\ moved[b][a] = 0)
        /\ moved'[b][a] = moved[b][a]
    BY <1>2, <1>5, <1>6, <1>7 DEF c
  <2>2. affine[b][a].internal = SignExtend(affine[b][a].ref) + moved[b][a] * affine[b][a].down
    BY <1>3, <2>1 DEF AffineFollowsLines
  <2>3. affine'[b][a].down \in Int /\ affine[b][a].down \in Int
    BY <1>3, <1>6, FieldsTyped DEF Coordinates
  <2>4. moved'[b][a] * affine'[b][a].down = moved[b][a] * affine[b][a].down
    BY <2>1, <2>3, SMT
  <2> QED
    BY <2>1, <2>2, <2>4, Zenon
<1> QED
  BY <1>8, <1>9, <1>10 DEF IInv

LEMMA WriteReferenceSteps ==
    ASSUME IInv, WriteReference
    PROVE  IInv'
<1>1. PICK w \in References :
        LET ref == Half(affine[w.bg][w.axis].ref, w.half, w.value)
        IN  /\ affine' = [affine EXCEPT ![w.bg][w.axis].ref = ref,
                                        ![w.bg][w.axis].internal = SignExtend(ref)]
            /\ moved' = [moved EXCEPT ![w.bg][w.axis] = 0]
            /\ UNCHANGED <<line, regs, row>>
  BY DEF WriteReference
<1>2. /\ w.bg \in Affine /\ w.axis \in Axes
      /\ w.half \in {"low", "high"} /\ w.value \in 0..(HalfSpan - 1)
  BY PpuAssumption
<1> DEFINE c == affine[w.bg][w.axis]
           ref == Half(c.ref, w.half, w.value)
           d == [c EXCEPT !.ref = ref, !.internal = SignExtend(ref)]
<1>3. TypeOK /\ MovedWithLines /\ AffineFollowsLines
  BY DEF IInv
<1>4. c \in Coordinates /\ c.ref \in 0..(HalfSpan * HalfSpan - 1)
  BY <1>2, <1>3, FieldsTyped
<1>5. ref \in 0..(HalfSpan * HalfSpan - 1) /\ ref \in Int /\ SignExtend(ref) \in Int
  <2>1. ref \in 0..(HalfSpan * HalfSpan - 1)
    BY <1>2, <1>4, ReferenceTyped
  <2> HIDE DEF ref
  <2>2. ref \in Int
    BY <2>1, SMT
  <2> QED
    BY <2>1, <2>2, SignExtendTyped
<1>6. d \in Coordinates /\ d.internal = SignExtend(ref) /\ d.ref = ref /\ d.down \in Int
  <2> HIDE DEF c, ref
  <2> QED
    BY <1>4, <1>5 DEF Coordinates
<1>7. /\ affine' \in [Affine -> [Axes -> Coordinates]]
      /\ \A b \in Affine : \A a \in Axes :
           affine'[b][a] = IF b = w.bg /\ a = w.axis THEN d ELSE affine[b][a]
  <2> DEFINE e == [c EXCEPT !.ref = ref]
             half == [affine EXCEPT ![w.bg] = [affine[w.bg] EXCEPT ![w.axis] = e]]
             f == [half[w.bg][w.axis] EXCEPT !.internal = SignExtend(ref)]
  <2>1. affine' = [half EXCEPT ![w.bg] = [half[w.bg] EXCEPT ![w.axis] = f]]
    BY <1>1
  <2>2. affine \in [Affine -> [Axes -> Coordinates]]
    BY <1>3 DEF TypeOK
  <2>3. e \in Coordinates /\ d = [e EXCEPT !.internal = SignExtend(ref)]
    <3> HIDE DEF c, ref
    <3> QED
      BY <1>4, <1>5 DEF Coordinates
  <2> HIDE DEF c, d, e, ref
  <2>4. /\ half \in [Affine -> [Axes -> Coordinates]] /\ half[w.bg][w.axis] = e
        /\ \A b \in Affine : \A a \in Axes :
             half[b][a] = IF b = w.bg /\ a = w.axis THEN e ELSE affine[b][a]
    BY <1>2, <2>2, <2>3
  <2>5. f = d
    BY <2>3, <2>4
  <2> HIDE DEF half, f
  <2> QED
    BY <1>2, <1>6, <2>1, <2>4, <2>5
<1>8. /\ moved' \in [Affine -> [Axes -> Moved]]
      /\ \A b \in Affine : \A a \in Axes :
           moved'[b][a] = IF b = w.bg /\ a = w.axis THEN 0 ELSE moved[b][a]
  <2>1. moved \in [Affine -> [Axes -> Moved]] /\ 0 \in Moved
    BY <1>3, Screen DEF TypeOK, Moved
  <2>2. moved' = [moved EXCEPT ![w.bg] = [moved[w.bg] EXCEPT ![w.axis] = 0]]
    BY <1>1, SMTT(40)
  <2> QED
    BY <1>2, <2>1, <2>2
<1> HIDE DEF c, ref, d
<1>9. TypeOK'
  BY <1>1, <1>3, <1>7, <1>8 DEF TypeOK, Moved
<1>10. MovedWithLines'
  <2>1. 0 <= line
    BY <1>3, SMT DEF TypeOK
  <2> QED
    BY <1>1, <1>3, <1>8, <2>1 DEF MovedWithLines
<1>11. AffineFollowsLines'
  <2> SUFFICES ASSUME NEW b \in Affine, NEW a \in Axes, moved'[b][a] # Unsteady
               PROVE  affine'[b][a].internal
                        = SignExtend(affine'[b][a].ref) + moved'[b][a] * affine'[b][a].down
    BY DEF AffineFollowsLines
  <2>1. CASE b = w.bg /\ a = w.axis
    <3>1. affine'[b][a] = d /\ moved'[b][a] = 0
      BY <1>7, <1>8, <2>1
    <3>2. SignExtend(ref) = SignExtend(ref) + 0 * d.down
      <4> DEFINE v == SignExtend(ref)
      <4>1. v \in Int
        BY <1>5
      <4> HIDE DEF v
      <4>2. v = v + 0 * d.down
        BY <1>6, <4>1, SMT
      <4> QED
        BY <4>2 DEF v
    <3> QED
      BY <1>6, <3>1, <3>2
  <2>2. CASE ~(b = w.bg /\ a = w.axis)
    <3>1. affine'[b][a] = affine[b][a] /\ moved'[b][a] = moved[b][a]
      BY <1>7, <1>8, <2>2
    <3> QED
      BY <1>3, <3>1, Zenon DEF AffineFollowsLines
  <2> QED
    BY <2>1, <2>2
<1> QED
  BY <1>9, <1>10, <1>11 DEF IInv

\* A line moves exactly the coordinates that the history counts it for.
LEMMA RenderScanlineSteps ==
    ASSUME IInv, RenderScanline
    PROVE  IInv'
<1> DEFINE Showed(b) == ~regs.blank /\ b \in regs.bgs /\ regs.mode \in (IF b = 2 THEN 1..7 ELSE {2})
           Next0(b, a) == IF Showed(b) /\ moved[b][a] # Unsteady THEN moved[b][a] + 1 ELSE moved[b][a]
           c(b, a) == affine[b][a]
           d(b, a) == [c(b, a) EXCEPT !.internal = c(b, a).internal + c(b, a).down]
<1>1. /\ line < Lines /\ line' = line + 1 /\ UNCHANGED regs
      /\ row' = [x \in 0..(Columns - 1) |-> Pixel(regs, affine, x, line)]
      /\ affine' = [b \in Affine |-> IF Moves(b) THEN [a \in Axes |-> d(b, a)] ELSE affine[b]]
      /\ moved' = [b \in Affine |-> [a \in Axes |-> Next0(b, a)]]
  BY DEF RenderScanline
<1>2. TypeOK /\ MovedWithLines /\ AffineFollowsLines
  BY DEF IInv
<1>3. line \in 0..(Lines - 1) /\ line' \in 0..Lines
  BY <1>1, <1>2, Screen, SMT DEF TypeOK
<1>4. \A b \in Affine : Moves(b) <=> Showed(b)
  <2>1. regs.mode \in 0..7
    BY <1>2, Typed DEF IsRegisters
  <2>2. Moves(2) <=> Showed(2)
    BY <2>1, SMT DEF Moves
  <2>3. Moves(3) <=> Showed(3)
    BY <2>1, SMT DEF Moves
  <2> QED
    BY <2>2, <2>3 DEF Affine
<1> HIDE DEF Showed
<1>5. ASSUME NEW b \in Affine, NEW a \in Axes
      PROVE  /\ d(b, a) \in Coordinates
             /\ d(b, a).internal = c(b, a).internal + c(b, a).down
             /\ d(b, a).ref = c(b, a).ref /\ d(b, a).down = c(b, a).down
             /\ affine'[b][a] = IF Showed(b) THEN d(b, a) ELSE c(b, a)
             /\ moved'[b][a] = Next0(b, a)
  <2>1. c(b, a) \in Coordinates /\ c(b, a).internal \in Int /\ c(b, a).down \in Int
    BY <1>2, FieldsTyped
  <2>2. c(b, a).internal + c(b, a).down \in Int
    BY <2>1
  <2>3. /\ affine'[b][a] = IF Showed(b) THEN d(b, a) ELSE c(b, a)
        /\ moved'[b][a] = Next0(b, a)
    BY <1>1, <1>4
  <2> HIDE DEF c
  <2>4. /\ d(b, a) \in Coordinates
        /\ d(b, a).internal = c(b, a).internal + c(b, a).down
        /\ d(b, a).ref = c(b, a).ref /\ d(b, a).down = c(b, a).down
    BY <2>1, <2>2 DEF Coordinates
  <2> QED
    BY <2>3, <2>4
<1>6. ASSUME NEW b \in Affine, NEW a \in Axes
      PROVE  Next0(b, a) \in Moved /\ (Next0(b, a) # Unsteady => Next0(b, a) <= line')
  <2>1. moved[b][a] \in Moved /\ (moved[b][a] # Unsteady => moved[b][a] <= line)
    BY <1>2, FieldsTyped DEF MovedWithLines
  <2> DEFINE m == moved[b][a]
  <2> HIDE DEF m
  <2>2. /\ m # Unsteady => m + 1 \in 0..Lines /\ m + 1 <= line + 1 /\ m <= line + 1
    BY <1>3, <2>1, Screen, SMT DEF m, Moved, Unsteady
  <2> QED
    BY <1>1, <2>1, <2>2 DEF Moved, m
<1>7. affine' \in [Affine -> [Axes -> Coordinates]]
  <2>1. \A b \in Affine : (IF Moves(b) THEN [a \in Axes |-> d(b, a)] ELSE affine[b]) \in [Axes -> Coordinates]
    <3> SUFFICES ASSUME NEW b \in Affine
                 PROVE  [a \in Axes |-> d(b, a)] \in [Axes -> Coordinates]
                        /\ affine[b] \in [Axes -> Coordinates]
      OBVIOUS
    <3>1. \A a \in Axes : d(b, a) \in Coordinates
      BY <1>5
    <3>2. affine[b] \in [Axes -> Coordinates]
      BY <1>2 DEF TypeOK
    <3> HIDE DEF d
    <3> QED
      BY <3>1, <3>2
  <2> HIDE DEF d
  <2> QED
    BY <1>1, <2>1
<1>8. moved' \in [Affine -> [Axes -> Moved]]
  <2> HIDE DEF Next0
  <2> QED
    BY <1>1, <1>6
<1>9. row' \in [0..(Columns - 1) -> Colour]
  BY <1>1, <1>2, PixelTyped DEF Column
<1>10. TypeOK'
  BY <1>1, <1>2, <1>3, <1>7, <1>8, <1>9 DEF TypeOK, Moved
<1>11. MovedWithLines'
  BY <1>5, <1>6 DEF MovedWithLines
<1>12. AffineFollowsLines'
  <2> SUFFICES ASSUME NEW b \in Affine, NEW a \in Axes, moved'[b][a] # Unsteady
               PROVE  affine'[b][a].internal
                        = SignExtend(affine'[b][a].ref) + moved'[b][a] * affine'[b][a].down
    BY DEF AffineFollowsLines
  <2> DEFINE m == moved[b][a]
             v == SignExtend(c(b, a).ref)
             s == c(b, a).down
  <2>1. m # Unsteady /\ m \in Int /\ v \in Int /\ s \in Int /\ c(b, a).internal \in Int
    <3>1. m # Unsteady
      BY <1>5
    <3>2. m \in Moved
      BY <1>2, FieldsTyped
    <3>3. m \in Int
      BY <3>2, SMT DEF Moved, Unsteady
    <3> QED
      BY <1>2, <3>1, <3>3, FieldsTyped
  <2>2. c(b, a).internal = v + m * s
    BY <1>2, <2>1 DEF AffineFollowsLines
  <2>3. CASE Showed(b)
    <3>1. moved'[b][a] = m + 1 /\ affine'[b][a] = d(b, a)
      BY <1>5, <2>1, <2>3
    <3>2. /\ affine'[b][a].internal = c(b, a).internal + s
          /\ affine'[b][a].ref = c(b, a).ref /\ affine'[b][a].down = s
      BY <1>5, <3>1
    <3> HIDE DEF m, v, s
    <3>3. (v + m * s) + s = v + (m + 1) * s
      BY <2>1, SMT
    <3>4. affine'[b][a].internal = v + (m + 1) * s
      BY <2>2, <3>2, <3>3, Zenon
    <3> QED
      BY <3>1, <3>2, <3>4, Zenon DEF v
  <2>4. CASE ~Showed(b)
    <3>1. moved'[b][a] = m /\ affine'[b][a] = c(b, a)
      BY <1>5, <2>4
    <3> QED
      BY <2>2, <3>1, Zenon
  <2> QED
    BY <2>3, <2>4
<1> QED
  BY <1>10, <1>11, <1>12 DEF IInv

LEMMA StepIInv ==
    ASSUME IInv, [Next]_vars
    PROVE  IInv'
<1>1. CASE UNCHANGED vars
  BY <1>1 DEF vars, IInv, TypeOK, MovedWithLines, AffineFollowsLines
<1> QED
  BY <1>1, WriteRegistersSteps, WriteParameterSteps, WriteReferenceSteps, ResetSteps,
     RenderScanlineSteps, VblankEndSteps
  DEF Next

LEMMA Invariance == Spec => []IInv
<1>1. Init => IInv
  BY InitIInv
<1>2. IInv /\ [Next]_vars => IInv'
  BY StepIInv
<1> QED
  BY <1>1, <1>2, PTL DEF Spec

\* Whatever the registers, OAM and the pictures hold, a line is made of colours:
\* the effects stay within five bits and no picture is read outside of it.
THEOREM TypeCorrect == Spec => []TypeOK
<1>1. IInv => TypeOK
  BY DEF IInv
<1> QED
  BY <1>1, Invariance, PTL

\* An affine coordinate is its reference point moved once for each line of the frame
\* drawn with the background switched on, in a mode that moves it, since the point
\* was loaded.
THEOREM AffineCorrect == Spec => []AffineFollowsLines
<1>1. IInv => AffineFollowsLines
  BY DEF IInv
<1> QED
  BY <1>1, Invariance, PTL

\* The layer to blend with is one that shows below the top one, and the highest of
\* them under a sprite or under the last background; its colour comes with it.
THEOREM SecondCorrect == Spec => []SecondIsBelow
<1>1. TypeOK => SecondIsBelow
  BY SecondBelow
<1> QED
  BY <1>1, TypeCorrect, PTL

\* One pass over the backgrounds and one over the sprites, each from one end to the
\* other, find the layer that is highest in the order of the manual, through windows
\* that may wrap around the screen, and an effect blends it with the layer found
\* below it.
THEOREM LinesCorrect == Spec => LinesShowTheHighest
<1>1. TypeOK /\ [Next]_vars =>
        [line < Lines /\ line' = line + 1 =>
           \A x \in 0..(Columns - 1) :
             IF regs.blank THEN row'[x] = White
             ELSE \E second \in Seconds(x) : row'[x] = Effected(second, x)]_vars
  <2> SUFFICES ASSUME TypeOK, [Next]_vars, line < Lines, line' = line + 1, NEW x \in Column
               PROVE  IF regs.blank THEN row'[x] = White
                      ELSE \E second \in Seconds(x) : row'[x] = Effected(second, x)
    BY SMTT(40) DEF Column
  <2>1. RenderScanline
    <3>1. line \in Int /\ line # line + 1 /\ 0 # line + 1
      BY SMT DEF TypeOK
    <3> QED
      BY <3>1 DEF Next, vars, WriteRegisters, WriteParameter, WriteReference, Reset, OnVblankEnd
  <2>2. row'[x] = Pixel(regs, affine, x, line)
    BY <2>1 DEF RenderScanline, Column
  <2> QED
    BY <2>2, PixelIsHighest, Zenon
<1> QED
  BY <1>1, TypeCorrect, PTL DEF Spec, LinesShowTheHighest

=============================================================================
