-------------------------------- MODULE MCGba --------------------------------
(***************************************************************************)
(* Instances of Gba for TLC: a line of four cycles with HBlank in the last *)
(* one, a frame of two visible and three VBlank lines (so that there is a  *)
(* line that sets the VBlank flag, one that sets it again and one that     *)
(* leaves it alone), and VCount settings below and above the top bit.      *)
(***************************************************************************)
EXTENDS Gba

Setting(vb, hb, vc, n) == [vbirq |-> vb, hbirq |-> hb, vcirq |-> vc, lyc |-> n]

\* Every interrupt off, every one on with VCount on a reachable line, and
\* VCount on a line that the top bit of the setting makes unreachable.
MCSettings == {Setting(FALSE, FALSE, FALSE, 0), Setting(TRUE, TRUE, TRUE, 2),
               Setting(TRUE, FALSE, TRUE, 4)}
MCVBlankSettings == {Setting(FALSE, TRUE, FALSE, 0), Setting(TRUE, FALSE, FALSE, 0)}

Ctl(en, rep, irq, t) == [enable |-> en, repeat |-> rep, irq |-> irq, timing |-> t]

MCControls == {Ctl(FALSE, FALSE, FALSE, "immediate"), Ctl(TRUE, FALSE, FALSE, "immediate"),
               Ctl(TRUE, TRUE, FALSE, "hblank"), Ctl(TRUE, FALSE, FALSE, "vblank")}
MCHBlankControls == {Ctl(TRUE, TRUE, TRUE, "hblank"), Ctl(FALSE, FALSE, FALSE, "immediate")}
==============================================================================
