------------------------------ MODULE MCFetch ------------------------------
(***************************************************************************)
(* An instance of Fetch for TLC: a BIOS of two words, which are the        *)
(* vectors, and two words of cartridge.                                    *)
(***************************************************************************)
EXTENDS Fetch

MCMap == [a \in Address |-> IF a < 8 THEN "bios" ELSE "rom0"]

MCCode ==
    LET Arm(A) == {Context(a, FALSE) : a \in A}
        Thumb(A) == {Context(a, TRUE) : a \in A}
    IN  [usr |-> Arm({8, 12}) \cup Thumb({10, 12}), svc |-> Arm({0, 4}) \cup Thumb({14}),
         irq |-> Arm({4, 8}) \cup Thumb({12})]

MCAccesses == {<<>>, <<[region |-> "rom0", addr |-> 8, wide |-> TRUE, store |-> FALSE]>>}

\* The slowest settings without prefetch and the fastest with it.
MCSettings ==
    {UpdateWaitcnt([a \in Areas |-> 3], [a \in Areas |-> 0], FALSE),
     UpdateWaitcnt([a \in Areas |-> 2], [a \in Areas |-> 1], TRUE)}
=============================================================================
