---------------------------- MODULE MCLoadStore ----------------------------
(***************************************************************************)
(* The instance of LoadStore for TLC: bytes of two bits and words of eight,*)
(* so that all addresses are few; every kind of memory is mapped.          *)
(***************************************************************************)
EXTENDS LoadStore, TLC

CONSTANTS
    Datum, Pointer, \* Values
    MarkBound       \* the bytes outside the stack that are not 0

MCLayout == 0 :> "palette" @@ 1 :> "iwram" @@ 2 :> "vram" @@ 3 :> "oam"
              @@ 4 :> "rom" @@ 5 :> "rom" @@ 6 :> "open" @@ 7 :> "sram"
MCSize == [iwram |-> 16, ewram |-> 4, palette |-> 4, vram |-> 12, oam |-> 4, sram |-> 4]
\* Two mirrors of every memory but VRAM, and two windows of that.
MCFollowed == (24..103) \cup (128..135) \cup (224..231)
MCRom == <<1, 2, 3, 0, 3, 1>>

Marks == {<<r, i>> \in Ram \X (0..15) : i < Size[r] /\ mem[r][i] # 0}
StackCells == {<<Region[a], Index[a]>> :
    a \in UNION {AddressOnStack(k)..(AddressOnStack(k) + 3) : k \in 1..Depth}}

\* What TLC goes on from: the stack and r1 hold values, the other registers data;
\* no memory but the stack is marked, or MarkBound bytes are while a full
\* descending one is empty.
StaysSmall ==
    /\ \/ Marks \subseteq StackCells
       \/ Cardinality(Marks) <= MarkBound /\ Depth = 0 /\ kind = [up |-> FALSE, full |-> TRUE]
    /\ \A i \in 1..Depth : StackFound[i] \in Values
    /\ \A r \in Elsewhere : regs[r] \in (IF r = 1 THEN {Pointer} ELSE {0, Datum})
=============================================================================
