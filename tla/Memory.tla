------------------------------- MODULE Memory -------------------------------
(***************************************************************************)
(* The memory map of bus.rs as data accesses see it: read8, ..., write32.  *)
(* An address names a region by its top byte and repeats the region's      *)
(* memory over the rest.  I/O registers are other modules' state, and the  *)
(* BIOS holds no data.  What an access costs is in WaitStates.             *)
(***************************************************************************)
EXTENDS Integers, Sequences

CONSTANTS
    ByteValues,     \* the values of a byte (256); a word has four of them
    Span,           \* the bytes of a region (2^24)
    Layout,         \* the region of each top byte
    Size,           \* the bytes of each memory
    VramWindow,     \* the space that VRAM fills three quarters of (128K)
    Rom             \* the cartridge, a sequence of bytes

Ram == {"iwram", "ewram", "palette", "vram", "oam", "sram"}
Regions == Ram \cup {"rom", "open"}

Byte == 0..(ByteValues - 1)

\* What the lowest bit of byte k weighs.
Place(k) ==
    CASE k = 0 -> 1
      [] k = 1 -> ByteValues
      [] k = 2 -> ByteValues * ByteValues
      [] k = 3 -> ByteValues * (ByteValues * ByteValues)
      [] k = 4 -> (ByteValues * ByteValues) * (ByteValues * ByteValues)

WordModulus == Place(4)
Word == 0..(WordModulus - 1)

ASSUME MemoryAssumption ==
    /\ ByteValues \in Nat \ {0, 1} /\ ByteValues % 2 = 0
    /\ Span \in Nat \ {0} /\ Span % 4 = 0 /\ WordModulus % Span = 0
    /\ Layout \in [0..((WordModulus \div Span) - 1) -> Regions]
    /\ Size \in [Ram -> Nat \ {0}]
    /\ \A r \in Ram : Size[r] % 4 = 0
    /\ VramWindow \in Nat /\ 3 * VramWindow = 4 * Size.vram
    /\ Rom \in Seq(Byte)

\* A memory's contents: bytes by memory and index.
IsMemory(m) ==
    m = [r \in Ram |-> m[r]] /\ \A r \in Ram : m[r] \in [0..(Size[r] - 1) -> Byte]
Blank == [r \in Ram |-> [i \in 0..(Size[r] - 1) |-> 0]]

Region == [a \in Word |-> Layout[a \div Span]]

\* Mutant of VramMirror: the last quarter of the window repeats the first.
WrappingMirror(a) == (a % VramWindow) % Size.vram

VramMirror(a) ==
    LET offset == a % VramWindow
    IN  IF offset >= Size.vram THEN offset - (VramWindow - Size.vram) ELSE offset

Index == [a \in Word |->
    CASE Region[a] = "vram" -> VramMirror(a)
      [] Region[a] \in Ram \ {"vram"} -> a % Size[Region[a]]
      [] OTHER -> 0]

Aligned(a, n) == a - (a % n)

\* Mutant of ByteOf: not cut to a byte.
UncutByteOf(v, k) == v \div Place(k)

ByteOf(v, k) == (v \div Place(k)) % ByteValues

\* The word of n bytes f[first], f[first + 1] ..., the lowest first.
Joined(f, first, n) ==
    CASE n = 1 -> f[first]
      [] n = 2 -> f[first] + ByteValues * f[first + 1]
      [] n = 4 -> f[first] + ByteValues * (f[first + 1]
                    + ByteValues * (f[first + 2] + ByteValues * f[first + 3]))

\* SRAM has a bus of one byte.
Replicated(b, n) == Joined([k \in 0..3 |-> b], 0, n)

\* A halfword or word that the cartridge does not hold whole reads as 0.
RomRead(offset, n) ==
    IF offset + n <= Len(Rom) THEN Joined(Rom, offset + 1, n) ELSE 0

\* read8, read16 and read32 align their address.
Read(m, address, n) ==
    LET a == Aligned(address, n)
        r == Region[a]
    IN  CASE r = "open" -> 0
          [] r = "rom" -> RomRead(a % (2 * Span), n)
          [] r = "sram" -> Replicated(m.sram[Index[a]], n)
          [] OTHER -> Joined(m[r], Index[a], n)

\* f with the n lowest bytes of v from `first` on.
Placed(f, first, n, v) ==
    [i \in DOMAIN f |-> IF i - first \in 0..(n - 1) THEN ByteOf(v, i - first) ELSE f[i]]

\* The video memories have no bytes: palette and VRAM take a byte twice, OAM not
\* at all.
Write8(m, a, v) ==
    LET r == Region[a]
    IN  CASE r \in {"iwram", "ewram", "sram"} -> [m EXCEPT ![r] = Placed(@, Index[a], 1, v)]
          [] r \in {"palette", "vram"} ->
               [m EXCEPT ![r] = Placed(@, Aligned(Index[a], 2), 2, v * (ByteValues + 1))]
          [] OTHER -> m

\* write16 and write32: SRAM takes the lowest byte.
WriteWide(m, address, n, v) ==
    LET a == Aligned(address, n)
        r == Region[a]
    IN  CASE r = "sram" -> [m EXCEPT !.sram = Placed(@, Index[a], 1, v)]
          [] r \in Ram \ {"sram"} -> [m EXCEPT ![r] = Placed(@, Index[a], n, v)]
          [] OTHER -> m

Write(m, a, n, v) == IF n = 1 THEN Write8(m, a, v % ByteValues) ELSE WriteWide(m, a, n, v)
=============================================================================
