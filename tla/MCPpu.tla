------------------------------- MODULE MCPpu -------------------------------
(***************************************************************************)
(* An instance of Ppu for TLC: a screen of three columns and two lines,    *)
(* maps of four by four, and settings that bring together each kind of     *)
(* background, sprites that overlap, windows that wrap and every effect.   *)
(***************************************************************************)
EXTENDS Ppu

Square(w, h) == (0..(w - 1)) \X (0..(h - 1))

MCMaps == [b \in 0..3 |-> [p \in Square(4, 4) |->
             IF (p[1] + 2 * p[2] + b) % 3 = 0 THEN Transparent ELSE 7 * b + p[1] + p[2]]]

MCFrames == [f \in 0..1 |-> [p \in Square(3, 2) |->
               IF (p[1] + p[2] + f) % 3 = 2 THEN Transparent ELSE (p[1] + p[2] + f) % 3]]

MCSmallBitmap == [columns |-> 2, lines |-> 1]

\* Sprites: plain, flipped and off the left edge, semitransparent, doubled
\* behind a matrix that halves it, and two that are not drawn.
SpriteAt(x, y, priority) ==
    [x |-> x, y |-> y, w |-> 2, h |-> 2, double |-> FALSE, mode |-> 0, matrix |-> <<>>,
     hflip |-> FALSE, vflip |-> FALSE, priority |-> priority,
     art |-> [p \in Square(2, 2) |-> IF p = <<0, 1>> THEN Transparent ELSE 20 + 2 * p[1] + p[2]]]

Oams ==
    {<<[SpriteAt(0, 0, 2) EXCEPT !.mode = 1], [SpriteAt(7, 0, 1) EXCEPT !.hflip = TRUE],
       [SpriteAt(0, 3, 1) EXCEPT !.vflip = TRUE, !.art = [p \in Square(2, 2) |-> 28]]>>,
     <<[SpriteAt(0, 0, 0) EXCEPT !.double = TRUE],
       [SpriteAt(7, 0, 1) EXCEPT !.double = TRUE, !.matrix = <<1, 0, 0, 2>>],
       [SpriteAt(1, 0, 0) EXCEPT !.mode = 3], [SpriteAt(2, 0, 3) EXCEPT !.mode = 2]>>}

Bgs(priorities, mosaic, wraps) ==
    [b \in 0..3 |-> [priority |-> priorities[b + 1], mosaic |-> mosaic, wraps |-> wraps,
                     x |-> b, y |-> 3 - b]]

NoEffect == [mode |-> 0, first |-> {}, second |-> {}, eva |-> 0, evb |-> 0, evy |-> 0]

MCPowerOn ==
    [mode |-> 0, blank |-> TRUE, frame |-> 0, bgs |-> {}, objs |-> FALSE, windows |-> {},
     bg |-> [b \in 0..3 |-> [priority |-> 0, mosaic |-> FALSE, wraps |-> FALSE, x |-> 0, y |-> 0]],
     window |-> [w \in 0..1 |-> [left |-> 0, right |-> 0, up |-> 0, down |-> 0, inside |-> {}]],
     outside |-> {}, mosaic |-> [across |-> 1, down |-> 1], blend |-> NoEffect,
     backdrop |-> 0, oam |-> <<>>]

MCWindows ==
    [w \in 0..1 |-> IF w = 0 THEN [left |-> 2, right |-> 1, up |-> 0, down |-> 1, inside |-> {0, 2, 4}]
                    ELSE [left |-> 0, right |-> 2, up |-> 1, down |-> 0, inside |-> {1, 3, 4, 5}]]

Shows(mode, priorities, oam) ==
    [MCPowerOn EXCEPT !.mode = mode, !.blank = FALSE, !.bgs = 0..3, !.objs = TRUE,
       !.bg = Bgs(priorities, FALSE, TRUE), !.window = MCWindows, !.outside = {1, 2, 4, 5},
       !.backdrop = 30, !.oam = oam]

Blend(mode) ==
    [mode |-> mode, first |-> {0, 2, 4}, second |-> {1, 2, 3, 4, 5}, eva |-> 12, evb |-> 20, evy |-> 8]

MCSettings ==
    LET plain == {Shows(mode, <<2, 1, 2, 1>>, oam) : mode \in {0, 1, 2}, oam \in Oams}
        some == {s \in plain : Len(s.oam) = 3}
        bitmaps == {[s EXCEPT !.mode = mode, !.frame = 1, !.bgs = {2}] :
                      s \in {t \in some : t.mode = 0}, mode \in {3, 4, 5, 6}}
        blended == {[Shows(0, priorities, oam) EXCEPT !.blend = Blend(1)] :
                      priorities \in {<<0, 1, 2, 3>>, <<3, 2, 1, 0>>}, oam \in Oams}
        faded == {[s EXCEPT !.blend = Blend(mode)] : s \in {t \in some : t.mode = 0}, mode \in {2, 3}}
        windowed == {[s EXCEPT !.windows = windows] :
                       s \in {t \in blended : Len(t.oam) = 3}, windows \in {{0, 1}, {2}}}
        partial == {[s EXCEPT !.bg = Bgs(<<2, 1, 2, 1>>, TRUE, FALSE), !.bgs = {1, 3},
                              !.mosaic = [across |-> 2, down |-> 2]] : s \in some}
        blanked == {[s EXCEPT !.blank = TRUE] : s \in {t \in some : t.mode = 2}}
    IN  {MCPowerOn} \cup blanked \cup plain \cup bitmaps \cup blended \cup faded \cup windowed \cup partial

Step(bg, axis, way, value) == [bg |-> bg, axis |-> axis, way |-> way, value |-> value]
MCSteps == {Step(2, "x", "down", 3), Step(2, "x", "across", -1)}

Ref(bg, axis, half, value) == [bg |-> bg, axis |-> axis, half |-> half, value |-> value]
MCReferences == {Ref(2, "x", "low", 3), Ref(2, "x", "high", 3), Ref(3, "y", "high", 1)}
=============================================================================
