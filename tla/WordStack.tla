----------------------------- MODULE WordStack ------------------------------
(***************************************************************************)
(* What a program expects of its stack: words that come back in the        *)
(* registers that are asked for, the last ones first, whatever else it     *)
(* does in between.  A list of registers goes to memory in the order of    *)
(* their numbers, so that on a stack that grows upwards the last is on     *)
(* top.                                                                    *)
(***************************************************************************)
EXTENDS Integers, Sequences, FiniteSets, SequencesExt

CONSTANTS
    Word,
    Registers,  \* register numbers
    Sp          \* the one that points to the stack

VARIABLES
    stack,      \* the words pushed, the top first
    held,       \* the other registers
    upwards     \* the stack grows to higher addresses

Rest == Registers \ {Sp}

\* Words in the order of their registers, as they lie on the stack, and back.
Lie(words) == IF upwards THEN Reverse(words) ELSE words

Rank(list, r) == Cardinality({s \in list : s <= r})

Init == stack = << >>

\* What is stored of Sp itself is left open.
Push(list) ==
    LET n == Cardinality(list)
        pushed == Lie(SubSeq(stack', 1, n))
    IN  /\ Len(stack') = Len(stack) + n
        /\ SubSeq(stack', n + 1, Len(stack')) = stack
        /\ \A r \in list \ {Sp} : pushed[Rank(list, r)] = held[r]
        /\ UNCHANGED held

\* A word popped into Sp is lost, and so are `below` more.
Pop(list, below) ==
    LET n == Cardinality(list)
    IN  /\ n + below <= Len(stack)
        /\ held' = [r \in Rest |->
                      IF r \in list THEN Lie(SubSeq(stack, 1, n))[Rank(list, r)]
                      ELSE held[r]]
        /\ stack' = SubSeq(stack, n + below + 1, Len(stack))

Poke(i, r) == stack' = [stack EXCEPT ![i] = held[r]] /\ UNCHANGED held

\* All else that the program does.
Elsewhere == UNCHANGED stack /\ held' \in [Rest -> Word]

Next ==
    /\ UNCHANGED upwards
    /\ \/ Elsewhere
       \/ \E list \in SUBSET Registers : Push(list)
       \/ \E list \in SUBSET Registers, below \in 0..Len(stack) : Pop(list, below)
       \/ \E i \in DOMAIN stack, r \in Rest : Poke(i, r)

Spec == Init /\ [][Next]_<<stack, held, upwards>>
=============================================================================
