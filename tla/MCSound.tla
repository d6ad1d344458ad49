------------------------------ MODULE MCSound -------------------------------
(***************************************************************************)
(* The instance of Sound for TLC.  The code copies bytes and never looks   *)
(* at one, so it is enough to follow few bytes that differ from the        *)
(* silence around them: where one of them is, is where any byte would be.  *)
(***************************************************************************)
EXTENDS Sound, FiniteSets

CONSTANT MarkBound      \* the bytes other than Silence in the rings at once

Marks == {<<f, k>> \in Fifos \X Slots : ring[f].buf[k] # Silence}

MarksAreFew == Cardinality(Marks) <= MarkBound
=============================================================================
