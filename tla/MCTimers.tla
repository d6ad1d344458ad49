------------------------------ MODULE MCTimers ------------------------------
(***************************************************************************)
(* The instance of Timers for TLC.                                         *)
(***************************************************************************)
EXTENDS Timers

Ctl(en, cas, irq, p) == [enabled |-> en, cascade |-> cas, irq |-> irq, prescaler |-> p]

MCControls == {Ctl(FALSE, FALSE, FALSE, 1), Ctl(TRUE, FALSE, FALSE, 1),
               Ctl(TRUE, FALSE, TRUE, 2), Ctl(TRUE, TRUE, FALSE, 1)}
==============================================================================
