------------------------------- MODULE Layers -------------------------------
(***************************************************************************)
(* What render_scanline (ppu.rs) puts at one column of a line: the pixel   *)
(* of each background, the front sprite, the windows, the two layers that  *)
(* lie highest and what the colour effects make of them.                   *)
(*                                                                         *)
(* Tiles, palettes and video memory are pictures of colours, and a colour  *)
(* is one of its three channels, all treated alike.  A bitmap is           *)
(* transparent where its memory is zero: index 0 in mode 4, and in modes 3 *)
(* and 5 the colour that is black in all three channels, which the code    *)
(* takes for no pixel (0x8000).  Backgrounds are 0 to 3.                   *)
(***************************************************************************)
EXTENDS Integers, Sequences

CONSTANTS
    Columns, Lines,     \* of the screen: 240 and 160
    WindowSpan,         \* edges of windows: 256
    XSpan, YSpan,       \* sprite coordinates wrap: 512 and 256
    SmallBitmap,        \* columns and lines of mode 5: 160 and 128
    MapSize,            \* of the backgrounds' maps
    Unit,               \* of affine coordinates: 256
    Maps, Frames,       \* the pictures of the backgrounds and of the bitmaps
    Transparent

Sprite == 4
Backdrop == 5
Effects == 5            \* in the windows: whether effects are on
Colour == 0..31
Texel == Colour \cup {Transparent}
Picture(columns, lines) == [(0..(columns - 1)) \X (0..(lines - 1)) -> Texel]

\* OAM and the palette: a sprite's place, size, mode, priority, flips or matrix,
\* and its picture.  An empty matrix is that of a sprite without one.
IsSprite(s) ==
    /\ s.x \in Nat /\ s.y \in Nat /\ s.w \in Nat /\ s.h \in Nat
    /\ s.double \in BOOLEAN /\ s.hflip \in BOOLEAN /\ s.vflip \in BOOLEAN
    /\ s.matrix \in {<<>>} \cup (Int \X Int \X Int \X Int)
    /\ s.mode \in 0..3 /\ s.priority \in 0..3
    /\ s.art \in Picture(s.w, s.h)

Layer == 0..Backdrop
Edge == 0..(WindowSpan - 1)

IsRegisters(r) ==
    \* DISPCNT: mode, forced blank, displayed frame, what is switched on; window 2
    \* is that of the sprites.
    /\ r.mode \in 0..7 /\ r.blank \in BOOLEAN /\ r.frame \in 0..1
    /\ r.bgs \subseteq 0..3 /\ r.objs \in BOOLEAN /\ r.windows \subseteq 0..2
    \* BGxCNT and scroll.
    /\ r.bg \in [0..3 -> [priority: 0..3, mosaic: BOOLEAN, wraps: BOOLEAN, x: Nat, y: Nat]]
    \* WINx: edges and the layers inside; WINOUT, MOSAIC.
    /\ r.window \in [0..1 -> [left: Edge, right: Edge, up: Edge, down: Edge, inside: SUBSET Layer]]
    /\ r.outside \subseteq Layer
    /\ r.mosaic \in [across: Nat \ {0}, down: Nat \ {0}]
    \* BLDCNT, BLDALPHA and BLDY.
    /\ r.blend \in [mode: 0..3, first: SUBSET Layer, second: SUBSET Layer,
                    eva: Nat, evb: Nat, evy: Nat]
    \* Colour 0 of the palette, and the sprites.
    /\ r.backdrop \in Colour
    /\ Len(r.oam) \in Nat /\ DOMAIN r.oam = 1..Len(r.oam)
    /\ \A i \in DOMAIN r.oam : IsSprite(r.oam[i])

-----------------------------------------------------------------------------
(***************************************************************************)
(* Backgrounds.                                                            *)
(***************************************************************************)
Mosaic(on, v, size) == IF on THEN v - (v % size) ELSE v

TextPixel(r, b, x, line) ==
    LET bg == r.bg[b]
    IN  Maps[b][<<(Mosaic(bg.mosaic, x, r.mosaic.across) + bg.x) % MapSize,
                  (Mosaic(bg.mosaic, line, r.mosaic.down) + bg.y) % MapSize>>]

\* at.x and at.y are where the line starts in the map, across the way from
\* column to column.
AffinePixel(r, b, at, x) ==
    LET Coordinate(axis) == (at[axis].internal + x * at[axis].across) \div Unit
        sx == Coordinate("x")
        sy == Coordinate("y")
    IN  IF r.bg[b].wraps \/ {sx, sy} \subseteq 0..(MapSize - 1)
        THEN Maps[b][<<sx % MapSize, sy % MapSize>>]
        ELSE Transparent

BitmapPixel(r, x, line) ==
    CASE r.mode = 3 -> Frames[0][<<x, line>>]
      [] r.mode = 4 -> Frames[r.frame][<<x, line>>]
      [] r.mode = 5 -> IF x < SmallBitmap.columns /\ line < SmallBitmap.lines
                       THEN Frames[r.frame][<<x, line>>] ELSE Transparent

BgPixel(r, affine, b, x, line) ==
    CASE r.mode = 0 \/ (r.mode = 1 /\ b \in {0, 1}) -> TextPixel(r, b, x, line)
      [] (r.mode \in {1, 2} /\ b = 2) \/ (r.mode = 2 /\ b = 3) -> AffinePixel(r, b, affine[b], x)
      [] r.mode \in 3..5 /\ b = 2 -> BitmapPixel(r, x, line)
      [] OTHER -> Transparent

-----------------------------------------------------------------------------
(***************************************************************************)
(* Sprites.                                                                *)
(***************************************************************************)
Rotates(s) == s.matrix # <<>>
Extent(s, size) == IF Rotates(s) /\ s.double THEN 2 * size ELSE size

Drawn(s) == (Rotates(s) \/ ~s.double) /\ s.mode # 3

SpriteTexel(s, x, line) ==
    LET lx == x - (IF s.x >= Columns THEN s.x - XSpan ELSE s.x)
        ly == line - (IF s.y >= Lines THEN s.y - YSpan ELSE s.y)
        ix == lx - (Extent(s, s.w) \div 2)
        iy == ly - (Extent(s, s.h) \div 2)
        tx == IF Rotates(s) THEN ((s.matrix[1] * ix + s.matrix[2] * iy) \div Unit) + (s.w \div 2)
              ELSE IF s.hflip THEN s.w - 1 - lx ELSE lx
        ty == IF Rotates(s) THEN ((s.matrix[3] * ix + s.matrix[4] * iy) \div Unit) + (s.h \div 2)
              ELSE IF s.vflip THEN s.h - 1 - ly ELSE ly
    IN  IF /\ lx \in 0..(Extent(s, s.w) - 1) /\ ly \in 0..(Extent(s, s.h) - 1)
           /\ tx \in 0..(s.w - 1) /\ ty \in 0..(s.h - 1)
        THEN s.art[<<tx, ty>>]
        ELSE Transparent

NoSprite == [colour |-> Transparent, priority |-> 4, semi |-> FALSE]

\* Mutant of Covers: of equal sprites the last one stays in front.
CoversIfAbove(s, out) == out.priority > s.priority

Covers(s, out) == out.priority >= s.priority

Overlay(s, out, x, line) ==
    LET c == SpriteTexel(s, x, line)
    IN  IF Drawn(s) /\ c # Transparent /\ Covers(s, out)
        THEN [colour |-> c, priority |-> s.priority, semi |-> s.mode = 1]
        ELSE out

\* From the last sprite to the first: front[k] is in front of k of them.
SpritePixel(oam, x, line) ==
    LET front[k \in 0..Len(oam)] ==
          IF k = 0 THEN NoSprite ELSE Overlay(oam[Len(oam) + 1 - k], front[k - 1], x, line)
    IN  front[Len(oam)]

-----------------------------------------------------------------------------
(***************************************************************************)
(* Windows: the layers that show at a column, and Effects.                 *)
(***************************************************************************)
Between(v, first, end) ==
    IF first <= end THEN first <= v /\ v < end ELSE v >= first \/ v < end

InWindow(w, x, line) == Between(x, w.left, w.right) /\ Between(line, w.up, w.down)

\* Window 0 is in front.
WindowFlags(r, x, line) ==
    LET Open(w) == w \in r.windows /\ InWindow(r.window[w], x, line)
    IN  CASE r.windows = {} -> 0..5
          [] Open(0) -> r.window[0].inside
          [] Open(1) /\ ~Open(0) -> r.window[1].inside
          [] OTHER -> r.outside

-----------------------------------------------------------------------------
(***************************************************************************)
(* The top layer and the second one.                                       *)
(***************************************************************************)
Bottom(colour) == [top |-> Backdrop, priority |-> 4, colour |-> colour,
                   second |-> Backdrop, below |-> colour]

Over(p, layer, priority, colour) ==
    [top |-> layer, priority |-> priority, colour |-> colour, second |-> p.top, below |-> p.colour]

Under(p, layer, colour) == [p EXCEPT !.second = layer, !.below = colour]

AddBackground(p, b, priority, colour) ==
    IF priority < p.priority \/ (priority = p.priority /\ b < p.top)
    THEN Over(p, b, priority, colour)
    ELSE Under(p, b, colour)

\* Mutant of AddSprite: a sprite below the top layer is not blended with.
AddSpriteIfTop(p, sprite) ==
    IF sprite.priority <= p.priority
    THEN Over(p, Sprite, sprite.priority, sprite.colour)
    ELSE p

AddSprite(p, sprite) ==
    IF sprite.priority <= p.priority
    THEN Over(p, Sprite, sprite.priority, sprite.colour)
    ELSE Under(p, Sprite, sprite.colour)

\* A background that is switched on, let through, and shows something.
WithBackground(r, affine, x, line, p, b) ==
    LET c == BgPixel(r, affine, b, x, line)
    IN  IF b \in r.bgs \cap WindowFlags(r, x, line) /\ c # Transparent
        THEN AddBackground(p, b, r.bg[b].priority, c) ELSE p

Composed(r, affine, x, line) ==
    LET With(p, b) == WithBackground(r, affine, x, line, p, b)
        backgrounds == With(With(With(With(Bottom(r.backdrop), 0), 1), 2), 3)
        sprite == IF r.objs THEN SpritePixel(r.oam, x, line) ELSE NoSprite
    IN  IF sprite.colour # Transparent /\ Sprite \in WindowFlags(r, x, line)
        THEN AddSprite(backgrounds, sprite) ELSE backgrounds

-----------------------------------------------------------------------------
(***************************************************************************)
(* Colour effects.  Factors above 16 count as 16.                          *)
(***************************************************************************)
Factor(v) == IF v > 16 THEN 16 ELSE v

\* Mutant of AlphaBlend: the sum is not capped.
AlphaSum(top, below, blend) ==
    (top * Factor(blend.eva) + below * Factor(blend.evb)) \div 16

AlphaBlend(top, below, blend) ==
    LET sum == (top * Factor(blend.eva) + below * Factor(blend.evb)) \div 16
    IN  IF sum > 31 THEN 31 ELSE sum

Brighter(c, blend) == c + (((31 - c) * Factor(blend.evy)) \div 16)
Darker(c, blend) == c - ((c * Factor(blend.evy)) \div 16)

\* The colour of a pixel p whose front sprite is semitransparent or not.
Effect(p, semi, on, blend) ==
    LET first == p.top \in blend.first
        second == p.second \in blend.second
    IN  CASE ~on -> p.colour
          [] on /\ p.top = Sprite /\ semi /\ second -> AlphaBlend(p.colour, p.below, blend)
          [] OTHER ->
               CASE blend.mode = 1 /\ first /\ second -> AlphaBlend(p.colour, p.below, blend)
                 [] blend.mode = 2 /\ first -> Brighter(p.colour, blend)
                 [] blend.mode = 3 /\ first -> Darker(p.colour, blend)
                 [] OTHER -> p.colour

White == 31

Pixel(r, affine, x, line) ==
    IF r.blank THEN White
    ELSE Effect(Composed(r, affine, x, line), SpritePixel(r.oam, x, line).semi,
                Effects \in WindowFlags(r, x, line), r.blend)
=============================================================================
