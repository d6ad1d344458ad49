---------------------------- MODULE RegisterFile ----------------------------
(***************************************************************************)
(* What the banked registers of the ARM7TDMI are to a program: one file of *)
(* physical registers, each of them owned by a group of modes.  The mode   *)
(* decides which of them a register name means; a change of mode changes   *)
(* none of them, an instruction those of one group at most.                *)
(***************************************************************************)
CONSTANTS
    Groups,     \* the groups of modes with registers of their own
    Low,        \* the registers only FIQ has a copy of (r8-r12)
    Banked,     \* the registers every group has a copy of (r13, r14)
    Values,     \* what a register may hold
    Lr,         \* the register an exception writes its return address to
    BootFile    \* the registers after a reset

VARIABLES
    file,       \* the value of physical register <<g, r>>
    group       \* the group of the mode the processor is in

vars == <<file, group>>

Regs == Low \cup Banked

\* The physical register that r means to group g.
Phys(g, r) == IF r \in Low /\ g # "fiq" THEN <<"usr", r>> ELSE <<g, r>>

Physical == {Phys(g, r) : g \in Groups, r \in Regs}

Owned(g) == {Phys(g, r) : r \in Regs}

Init == file = BootFile /\ group = "svc"

\* The registers in P take values, no other register changes.
OnlyWrites(P) ==
    /\ file' \in [Physical -> Values]
    /\ \A p \in Physical \ P : file'[p] = file[p]

\* An instruction writes registers of its own mode, or of user mode.
Execute ==
    /\ UNCHANGED group
    /\ \E g \in {group, "usr"} : OnlyWrites(Owned(g))

\* A mode is entered; an exception also writes its return address.
Enter ==
    /\ group' \in Groups
    /\ OnlyWrites({Phys(group', Lr)})

\* A block load that also returns writes registers of the mode it leaves, and
\* its base register once more in the mode it enters.
LoadAndEnter ==
    /\ group' \in Groups
    /\ \E r \in Regs : OnlyWrites(Owned(group) \cup {Phys(group', r)})

Reset == file' = BootFile /\ group' = "svc"

Next == Execute \/ Enter \/ LoadAndEnter \/ Reset

Spec == Init /\ [][Next]_vars
=============================================================================
