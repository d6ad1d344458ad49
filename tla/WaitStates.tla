----------------------------- MODULE WaitStates -----------------------------
(***************************************************************************)
(* The cycles that memory adds to an instruction (bus.rs): those of its    *)
(* loads and stores, of the fetches it displaces, and of a fetch that the  *)
(* instruction before it was too short to cover.  The cartridge is seen    *)
(* through three wait state areas, each with its own speed.                *)
(***************************************************************************)
EXTENDS Integers, Sequences

Areas == {"rom0", "rom1", "rom2"}
InRom(region) == region \in Areas

\* WAITCNT: cycles of a first access (n) and of one in sequence (s), and the
\* prefetch buffer.  Until it is written, code in the cartridge runs as if there
\* were nothing to wait for.
PowerOnWaits ==
    [n |-> [a \in Areas |-> 5], s |-> [rom0 |-> 3, rom1 |-> 5, rom2 |-> 9],
     prefetch |-> FALSE, written |-> FALSE]

FirstAccess == <<4, 3, 2, 8>>
SecondAccess == [rom0 |-> <<2, 1>>, rom1 |-> <<4, 1>>, rom2 |-> <<8, 1>>]

\* A write with the setting of the first and the second access of each area.
UpdateWaitcnt(first, second, prefetch) ==
    [n |-> [a \in Areas |-> 1 + FirstAccess[first[a] + 1]],
     s |-> [a \in Areas |-> 1 + SecondAccess[a][second[a] + 1]],
     prefetch |-> prefetch, written |-> TRUE]

-----------------------------------------------------------------------------
(***************************************************************************)
(* Loads and stores.  An access in the cartridge costs less if it follows  *)
(* the previous one of the same instruction.                               *)
(***************************************************************************)
NoWaits == [data |-> 0, write |-> 0, accessed |-> FALSE, next |-> {}]

AddDataWait(w, sum, region, addr, wide) ==
    IF InRom(region) THEN
      LET first == IF addr \in sum.next THEN w.s[region] ELSE w.n[region]
          more == IF wide THEN w.s[region] ELSE 0
      IN  [sum EXCEPT !.data = @ + first + more - 1, !.accessed = TRUE,
                      !.next = {addr + 2, addr + 4}]
    ELSE IF region = "ewram" THEN
      [sum EXCEPT !.data = @ + (IF wide THEN 5 ELSE 2), !.accessed = TRUE, !.next = {}]
    ELSE [sum EXCEPT !.next = {}]

AddWriteWait(sum, region, wide) ==
    IF region = "ewram" THEN [sum EXCEPT !.write = @ + (IF wide THEN 5 ELSE 2), !.next = {}]
    ELSE sum

AddWait(w, sum, a) ==
    IF a.store THEN AddWriteWait(sum, a.region, a.wide)
    ELSE AddDataWait(w, sum, a.region, a.addr, a.wide)

\* The sum over an instruction's accesses, each [region, addr, wide, store].
Waits(w, accesses) ==
    LET sum[i \in 0..Len(accesses)] ==
          IF i = 0 THEN NoWaits ELSE AddWait(w, sum[i - 1], accesses[i])
    IN  sum[Len(accesses)]

-----------------------------------------------------------------------------
(***************************************************************************)
(* Fetches.                                                                *)
(***************************************************************************)
Branched == -1      \* for the cycles of an instruction that branched

Slow(w, region) == InRom(region) /\ w.written /\ ~w.prefetch

\* The fetch of an instruction in sequence.
FetchTime(w, region, thumb) == IF thumb THEN w.s[region] ELSE 2 * w.s[region]

\* What the work of the instruction before did not cover of a fetch in sequence.
PipelineStall(w, work, region, thumb) ==
    IF Slow(w, region) /\ work # Branched /\ work < FetchTime(w, region, thumb)
    THEN FetchTime(w, region, thumb) - work
    ELSE 0

BranchRefill(w, region) ==
    IF Slow(w, region) THEN w.n[region] + w.s[region] - 1 ELSE 0

\* After a load or store took the bus, the next fetch is no longer in sequence.
CodeFetchExtra(w, region, thumb) ==
    CASE InRom(region) ->
           IF w.prefetch THEN 0
           ELSE (w.s[region] - 1) + (IF thumb THEN 0 ELSE w.n[region] - 1)
      [] region = "ewram" -> IF thumb THEN 2 ELSE 4
      [] OTHER -> 0

\* The cycles of an instruction at region here, its stall aside.
Work(w, cycles, accesses, here, thumb, taken, target) ==
    LET sum == Waits(w, accesses)
        fetch == IF taken THEN BranchRefill(w, target)
                 ELSE IF sum.accessed \/ sum.write > 0 THEN CodeFetchExtra(w, here, thumb)
                 ELSE 0
    IN  cycles + sum.data + sum.write + fetch
=============================================================================
