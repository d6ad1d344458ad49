------------------------------- MODULE MCPsg -------------------------------
(***************************************************************************)
(* An instance of Psg for TLC: the tone channel with sweep and the wave    *)
(* channel.                                                                *)
(***************************************************************************)
EXTENDS Psg

MCLongest == [c \in Channels |-> IF c = 3 THEN 1 ELSE 2]

MCEnvelopes == {[start |-> 1, up |-> FALSE, pace |-> 1], [start |-> 0, up |-> TRUE, pace |-> 2]}

MCSweeps == {[pace |-> 1, down |-> FALSE, divisor |-> 2], [pace |-> 1, down |-> TRUE, divisor |-> 2]}
=============================================================================
