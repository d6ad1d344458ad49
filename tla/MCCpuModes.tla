----------------------------- MODULE MCCpuModes -----------------------------
(***************************************************************************)
(* An instance of CpuModes for TLC.                                        *)
(***************************************************************************)
EXTENDS CpuModes

\* User and system programs run with interrupts on, FIQ mode with interrupts off.
MCGuestPsrs == [mode: {"usr", "sys"}, masked: {FALSE}] \cup [mode: {"fiq"}, masked: {TRUE}]

MCLists == {{}, {"r8"}, {"lr"}}
=============================================================================
