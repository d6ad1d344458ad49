-------------------------------- MODULE Ppu --------------------------------
(***************************************************************************)
(* The picture, line by line (ppu.rs, bus.rs): a line is drawn when it     *)
(* ends, with the registers as they are then, and moves the affine         *)
(* backgrounds' internal coordinates on; the end of VBlank takes these     *)
(* back to the reference points.  The guest writes registers between any   *)
(* two lines; Layers says what a line looks like.                          *)
(***************************************************************************)
EXTENDS Layers

CONSTANTS
    HalfSpan,       \* reference points are written in halves: 2^16
    RefSpan,        \* and have a sign: 2^28, a multiple of HalfSpan
    PowerOn,        \* the registers of Ppu::new
    Settings,       \* what guests write to them,
    Steps,          \*   to the parameters [bg, axis, way, value]
    References      \*   and to the halves of reference points [bg, axis, half, value]

Affine == {2, 3}
Axes == {"x", "y"}

ASSUME PpuAssumption ==
    /\ Columns \in 1..WindowSpan /\ Lines \in 1..WindowSpan /\ WindowSpan \in Nat
    /\ MapSize \in Nat \ {0} /\ Unit \in Nat \ {0} /\ XSpan \in Nat /\ YSpan \in Nat
    /\ Transparent \notin Colour
    /\ Maps \in [0..3 -> Picture(MapSize, MapSize)] /\ Frames \in [0..1 -> Picture(Columns, Lines)]
    /\ HalfSpan \in Nat \ {0} /\ RefSpan \in Nat \ {0} /\ RefSpan % HalfSpan = 0
    /\ PowerOn.blank /\ \A r \in Settings \cup {PowerOn} : IsRegisters(r)
    /\ Steps \subseteq [bg: Affine, axis: Axes, way: {"across", "down"}, value: Int]
    /\ References \subseteq [bg: Affine, axis: Axes, half: {"low", "high"}, value: 0..(HalfSpan - 1)]

VARIABLES
    line,       \* current_scanline; Lines stands for all of VBlank
    regs,       \* the registers that Layers reads, palette and OAM
    affine,     \* pa to pd, ref_x, ref_y, internal_x, internal_y
    row,        \* the row of the framebuffer drawn last
    moved       \* history: lines that moved a coordinate since it was loaded (drawn
                \* with the background switched on in a mode that moves it), or
                \* Unsteady once its step has changed since

vars == <<line, regs, affine, row, moved>>

Unsteady == -1
Unmoved == [b \in Affine |-> [a \in Axes |-> 0]]

\* Bits above the sign are ignored.
SignExtend(ref) ==
    LET v == ref % RefSpan IN IF 2 * v >= RefSpan THEN v - RefSpan ELSE v

NewAffine ==
    [b \in Affine |->
       [a \in Axes |-> [across |-> IF a = "x" THEN Unit ELSE 0, down |-> IF a = "y" THEN Unit ELSE 0,
                        ref |-> 0, internal |-> 0]]]

Init ==
    /\ line = 0
    /\ regs = PowerOn
    /\ affine = NewAffine
    /\ row = [x \in 0..(Columns - 1) |-> 0]
    /\ moved = Unmoved

-----------------------------------------------------------------------------
(***************************************************************************)
(* Register writes.                                                        *)
(***************************************************************************)
\* DISPCNT, BGxCNT, scroll, windows, MOSAIC and effects; palette and OAM.
WriteRegisters ==
    /\ regs' \in Settings
    /\ UNCHANGED <<line, affine, row, moved>>

\* BGxPA to BGxPD.
WriteParameter ==
    \E s \in Steps :
      /\ affine' = [affine EXCEPT ![s.bg][s.axis][s.way] = s.value]
      /\ moved' = IF s.way = "down" /\ s.value # affine[s.bg][s.axis].down
                  THEN [moved EXCEPT ![s.bg][s.axis] = IF @ = 0 THEN 0 ELSE Unsteady] ELSE moved
      /\ UNCHANGED <<line, regs, row>>

\* A half of BGxX or BGxY: the internal coordinate follows at once.
Half(ref, half, value) ==
    IF half = "low" THEN ref - (ref % HalfSpan) + value
    ELSE (ref % HalfSpan) + HalfSpan * value

WriteReference ==
    \E w \in References :
      LET ref == Half(affine[w.bg][w.axis].ref, w.half, w.value)
      IN  /\ affine' = [affine EXCEPT ![w.bg][w.axis].ref = ref,
                                      ![w.bg][w.axis].internal = SignExtend(ref)]
          /\ moved' = [moved EXCEPT ![w.bg][w.axis] = 0]
          /\ UNCHANGED <<line, regs, row>>

Reset ==
    /\ line' = 0
    /\ regs' = PowerOn
    /\ affine' = NewAffine
    /\ moved' = Unmoved
    /\ UNCHANGED row

-----------------------------------------------------------------------------
(***************************************************************************)
(* The end of a line.                                                      *)
(***************************************************************************)
\* Mutant of Moves: a blanked line counts too.
MovesUnlessOff(b) ==
    CASE b = 2 -> regs.mode >= 1 /\ 2 \in regs.bgs
      [] b = 3 -> regs.mode = 2 /\ 3 \in regs.bgs

\* Background 2 moves in the bitmap modes too, and in modes 6 and 7, which show
\* nothing; windows do not matter.
Moves(b) ==
    /\ ~regs.blank
    /\ CASE b = 2 -> regs.mode >= 1 /\ 2 \in regs.bgs
         [] b = 3 -> regs.mode = 2 /\ 3 \in regs.bgs

RenderScanline ==
    /\ line < Lines
    /\ row' = [x \in 0..(Columns - 1) |-> Pixel(regs, affine, x, line)]
    /\ affine' = [b \in Affine |->
         IF Moves(b) THEN [a \in Axes |-> [affine[b][a] EXCEPT !.internal = @ + affine[b][a].down]]
         ELSE affine[b]]
    /\ line' = line + 1
    /\ moved' = [b \in Affine |-> [a \in Axes |->
         IF /\ ~regs.blank /\ b \in regs.bgs /\ regs.mode \in (IF b = 2 THEN 1..7 ELSE {2})
            /\ moved[b][a] # Unsteady
         THEN moved[b][a] + 1 ELSE moved[b][a]]]
    /\ UNCHANGED regs

OnVblankEnd ==
    /\ line = Lines
    /\ affine' = [b \in Affine |->
         [a \in Axes |-> [affine[b][a] EXCEPT !.internal = SignExtend(affine[b][a].ref)]]]
    /\ line' = 0
    /\ moved' = Unmoved
    /\ UNCHANGED <<regs, row>>

Next ==
    \/ WriteRegisters \/ WriteParameter \/ WriteReference \/ Reset
    \/ RenderScanline \/ OnVblankEnd

Spec == Init /\ [][Next]_vars

-----------------------------------------------------------------------------
(***************************************************************************)
(* Properties                                                              *)
(***************************************************************************)
Coordinates == [across: Int, down: Int, ref: 0..(HalfSpan * HalfSpan - 1), internal: Int]

TypeOK ==
    /\ line \in 0..Lines
    /\ regs \in Settings \cup {PowerOn}
    /\ affine \in [Affine -> [Axes -> Coordinates]]
    /\ row \in [0..(Columns - 1) -> Colour]
    /\ moved \in [Affine -> [Axes -> {Unsteady} \cup 0..Lines]]

\* What shows at a column of the current line, in the words of the manual:
\* windows are intervals on a circle, the front sprite is the first of the
\* least priority, and the layers lie in the order of Above.
OnCircle(v, first, end) == (v - first) % WindowSpan < (end - first) % WindowSpan

Lit(x) ==
    LET open == {w \in {0, 1} \cap regs.windows :
                   /\ OnCircle(x, regs.window[w].left, regs.window[w].right)
                   /\ OnCircle(line, regs.window[w].up, regs.window[w].down)}
    IN  IF regs.windows = {} THEN 0..5
        ELSE IF open = {} THEN regs.outside
        ELSE regs.window[IF 0 \in open THEN 0 ELSE 1].inside

Sprites(x) ==
    {i \in DOMAIN regs.oam : Drawn(regs.oam[i]) /\ SpriteTexel(regs.oam[i], x, line) # Transparent}

FrontSprite(x) ==
    CHOOSE i \in Sprites(x) : \A j \in Sprites(x) \ {i} :
      \/ regs.oam[i].priority < regs.oam[j].priority
      \/ regs.oam[i].priority = regs.oam[j].priority /\ i < j

Shown(x) ==
    {b \in regs.bgs \cap Lit(x) : BgPixel(regs, affine, b, x, line) # Transparent}
      \cup {l \in {Sprite} \cap Lit(x) : regs.objs /\ Sprites(x) # {}}

PriorityOf(layer, x) ==
    IF layer = Sprite THEN regs.oam[FrontSprite(x)].priority ELSE regs.bg[layer].priority

Above(k, l, x) ==
    \/ PriorityOf(k, x) < PriorityOf(l, x)
    \/ PriorityOf(k, x) = PriorityOf(l, x) /\ (k = Sprite \/ (l # Sprite /\ k < l))

Highest(layers, x) ==
    IF layers = {} THEN Backdrop
    ELSE CHOOSE k \in layers : \A l \in layers \ {k} : Above(k, l, x)

ColourOf(layer, x) ==
    CASE layer = Backdrop -> regs.backdrop
      [] layer = Sprite -> SpriteTexel(regs.oam[FrontSprite(x)], x, line)
      [] OTHER -> BgPixel(regs, affine, layer, x, line)

\* What a pixel may be blended with: a layer that shows through the same windows
\* below the top one, and the highest of them if the top one is a sprite or the
\* background with the greatest number.
Seconds(x) ==
    LET top == Highest(Shown(x), x)
        below == Shown(x) \ {top}
    IN  IF top = Sprite \/ (\A k \in below : k < top) THEN {Highest(below, x)} ELSE below

\* The highest layer at x after the colour effect, over the layer second.
Effected(second, x) ==
    LET top == Highest(Shown(x), x)
    IN  Effect([top |-> top, colour |-> ColourOf(top, x),
                second |-> second, below |-> ColourOf(second, x)],
               top = Sprite /\ regs.oam[FrontSprite(x)].mode = 1,
               Effects \in Lit(x), regs.blend)

\* Every line shows, column by column, the highest layer that the windows let
\* through, with the affine coordinates as they were before the line; where a
\* colour effect applies, its colour blended with that of one of Seconds, or
\* faded.
LinesShowTheHighest ==
    [][line < Lines /\ line' = line + 1 =>
         \A x \in 0..(Columns - 1) :
           IF regs.blank THEN row'[x] = White
           ELSE \E second \in Seconds(x) : row'[x] = Effected(second, x)]_vars

\* The layer a pixel is blended with, whether or not an effect asks for it, is one
\* of Seconds, and the colour is that layer's at the same column.
SecondIsBelow ==
    line < Lines /\ ~regs.blank =>
      \A x \in 0..(Columns - 1) :
        LET composed == Composed(regs, affine, x, line)
        IN  composed.second \in Seconds(x) /\ composed.below = ColourOf(composed.second, x)

\* An affine coordinate is its reference point moved by one step for each line
\* drawn with the background switched on, in a mode in which the code moves it,
\* since the point was written or the frame began: blanked lines, lines with the
\* background switched off and whatever else the guest writes do not count.
AffineFollowsLines ==
    \A b \in Affine, a \in Axes :
      moved[b][a] # Unsteady =>
        affine[b][a].internal = SignExtend(affine[b][a].ref) + moved[b][a] * affine[b][a].down
=============================================================================
