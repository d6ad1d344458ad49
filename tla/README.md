# A TLA+ model of the Game Boy Advance emulator

All paths are relative to the repository root, `src/`; the Rust crate is in
`src/src/`.

## 1. Inventory: the parts of the system

The emulator is a single-threaded library (`lib.rs`) that a host drives through
`emu_*` calls. What makes it hard is not threads but *simulated* concurrency:
five devices (CPU, DMA, timers, sound, video) share one bus object and one
interrupt-flag register, and are advanced one after the other, in steps of very
different length, by `Gba::step` and `Bus::tick`.

| component | state | operations | interacts with |
|---|---|---|---|
| host interface, `lib.rs` | the `GBA` singleton, ROM buffer | `emu_init`, `emu_load_rom`, `emu_reset`, `emu_set_keys`, `emu_run_frame`, `emu_audio_samples` ... | everything, between frames |
| step loop, `lib.rs:191-219` | `elapsed` | `run_frame`, `step`: DMA before HALT before CPU, then `tick` | DMA, CPU, tick |
| video timing, `bus.rs:883-959` | `scanline_cycles`, `current_scanline`, `frame_count`, DISPSTAT | `tick`, `advance_scanline` | raises IF bits 0-2, triggers DMA, clears `halted` |
| interrupt control, `bus.rs`, `cpu.rs:233` | `ime`, `ie`, `if_`, `halted`, CPSR.I | IE/IF/IME/HALTCNT writes, `check_irq` | set by video, timers, DMA; read by CPU |
| DMA, `dma.rs`, `bus.rs:801-881` | four channels: programmed and internal registers, `active` | `write_reg`, `check_enable`, `trigger`, `run_dma` | bus writes (also to its own registers), IF bits 8-11 |
| timers, `timer.rs` | four timers | `write_reload`, `write_control`, `tick` | IF bits 3-6, sound FIFOs |
| sound FIFOs, `apu.rs:238-283` | two 32-byte rings | `write_fifo_a/b`, `on_timer_overflow`, reset by SOUNDCNT_H | timers, DMA request (dropped by the caller) |
| tone channels, `apu.rs:285-439` | length, envelope, sweep, frame sequencer | `trigger_ch1..4`, `tick_frame_sequencer` | register writes |
| mixer and audio output, `apu.rs:441-540`, `bus.rs:1140-1153` | `audio_cycles`, `audio_samples_ready` | `generate_audio`, `generate_sample`, drained by the host | tick, host |
| CPU modes, `cpu.rs:63-263`, `arm.rs:238-281` | r0-r15, banked registers, CPSR, SPSRs, `pipeline_valid` | `switch_mode`, `check_irq`, `software_interrupt`, MSR/MRS, exception return | bus |
| CPU instructions, `arm.rs`, `thumb.rs`, `cpu.rs:376-536` | registers, flags | decode, ALU, shifter, load/store, LDM/STM, branches | bus, wait states |
| memory map and I/O registers, `bus.rs:283-795` | memories, I/O registers | `read8/16/32`, `write8/16/32`, `io_*` | all devices |
| wait states, `bus.rs:166-235, 961-1072` | WAITCNT tables, `prev_exec_cycles` ... | `add_data_wait`, `pipeline_stall`, `branch_refill`, `code_fetch_extra` | CPU cycle counts |
| video rendering, `ppu.rs` | registers, affine counters | `render_scanline`, `compose_scanline` | VRAM, palette, OAM, framebuffer |
| allocator, `allocator.rs` | `HEAP_END` | `alloc`, no-op `dealloc` | WebAssembly memory |

### What is hard, and what makes each part correct

There are no threads. What can go wrong is the *order* in which one thread
advances devices that belong together, and how far: an instruction costs a few
cycles, a halted CPU sleeps to the end of the line, a DMA transfer may take a
hundred lines, and each of these is handed to every device as one lump.

* **Step loop and video timing.** No cycle is lost or counted twice
  (`TimeKept`); a lump of several lines raises the flags and interrupts of
  every line it crosses and leaves the flags the guest polls in agreement with
  the beam (`FlagsFollowBeam`); only a long step can pass over an HBlank
  (`HBlankSkippedOnlyByLongStep`); a host call returns (`CallReturns`) and has
  finished one picture or two (`CallDrawsAFrame`).
* **Interrupts and HALT.** No lost wake-up (`SafeHalt`), also when the store
  that makes an interrupt eligible comes after the request, or comes from a DMA
  transfer; a CPU that waits for VBlank wakes (`VBlankWakes`); a request is
  served although DMA goes first, as long as VBlank has room for a transfer
  (`IrqServed`).
* **DMA.** A due channel always has units to move, whatever order of control
  writes, triggers and completions led there, the transfer's writes to its own
  registers included (`DmaActiveHasWork`).
* **Timers.** A running timer tells exact time however the step loop slices it
  (`TimerKeepsTime`, `OverflowsOnTime`); no overflow is lost in a chain of
  cascaded timers, except in a step in which a timer wraps twice
  (`CascadeCountsOverflows`).
* **Sound FIFOs.** Bytes play in the order written, none twice and none from
  before a reset; what does not fit is dropped, newest first (`PlaysInOrder`).
* **Tone channels.** A sounding channel can still be silenced by its counter
  (`SoundingHasTime`), an envelope keeps its pace through everything else that
  happens (`EnvelopeKeepsPace`), and a bounded note ends (`NotesEnd`).
* **CPU modes.** The seven arrays that registers are copied to and from behave
  as one banked register file (`BanksAreOneFile`), and a user program cannot
  choose its mode (`UserLeavesByException`).
* **Audio output.** The host hears each sample once, in order and as it was
  when its time came: one for every 512 cycles, however the steps cut them
  (`HostHearsAll`).
* **Arithmetic.** Sums and differences of several words come out exact through
  the carry flag (`SumsAreExact`), the conditions tell how numbers compare, at
  the edges of the signed and the unsigned range too (`OrderIsTold`), and a
  shift by n is n shifts by one, whichever of the two shifters does it
  (`ShiftIsRepeated`).
* **Loads and stores.** A byte is found where it was stored, through every
  mirror and by every width (`StoresAreFound`); the instructions that push and
  pop, of both instruction sets and in every direction, make one stack
  (`StackIsKept`).
* **Fetches.** A program runs in order although r15 is ahead of it by a
  different distance in each state, a flush comes late and exceptions come
  anywhere: each kind of instruction goes on to the next or where it says, a
  software interrupt returns behind itself and an interrupt to the instruction
  it came before (`RunsInOrder`). Calls return, with interrupts between the two
  halves of a Thumb call too (`CallsReturn`); a fetch waits only for what the instruction before it did not
  cover (`StallIsTheRest`).
* **Video rendering.** Every column shows the highest layer that the windows let
  through, under the colour effect that is asked for (`LinesShowTheHighest`),
  blended only with a layer below it and in that layer's colour
  (`SecondIsBelow`); affine coordinates follow the lines drawn with the
  background switched on (`AffineFollowsLines`).

`PROJECT.json` lists the single hazards, each at its line.

## 2. The modules and how they correspond to the code

```
Dma <- Bus <- Gba               MCGba        irq, dma, live, drift   Gba_proofs
Timers                          MCTimers     timers                  Timers_proofs
SampleQueue <= SoundFifo, AudioOut
  <- Sound => AudioStream       MCSound      sound                   Apu_proofs
Psg                             MCPsg        psg                     Apu_proofs
RegisterFile <= CpuModes        MCCpuModes   modes                   Cpu_proofs
Shifter <- Alu                               alu                     Cpu_proofs
Memory <- LoadStore => WordStack   MCLoadStore  memory               LoadStore_proofs
WaitStates <- Fetch => ProgramOrder   MCFetch   fetch                Fetch_proofs
Layers <- Ppu                   MCPpu        video                   Ppu_proofs
Numbers: lemmas about % and \div, and induction over 0..n, for the proofs
(<- : used by the module on its right, or instantiated by the one on its left;
 A <= B, B => A : B implements the abstract A)
```

### Dma, Bus, Gba: the machine

`Gba` is the whole of `lib.rs:191-219`, `Bus::tick`, `run_dma` and the register
writes that steer them. The code is sequential, but a step is not atomic for
the properties: a transfer can rewrite the registers of the channel that
performs it, and one step can cross many lines. So the loops of the code are
loops of actions, and `stage` says which function runs:

| `stage` | the code is | actions |
|---|---|---|
| `step` | between two calls of `Gba::step` | `DmaTurn`, `HaltTurn`, `CpuTurn`, `BootTurn`, host calls |
| `cpu` | inside an instruction | `CpuStore` (one I/O store), `CpuEnd` |
| `dma` | in the loop of `run_dma` | `DmaUnit`, `DmaEnd` |
| `tick` | at the start of `Bus::tick` | `TickStart`: timers, `scanline_cycles += cycles` |
| `lines` | in the loop of `tick` | `AdvanceScanline`, then `TickEnd`: HBlank, waking |

Exactly one stage is enabled at a time, so nothing is interleaved that the code
does not interleave. The invariants that speak of a state the guest or the host
can observe are guarded by `stage = "step"`.

State: `line`, `cyc`, `dispstat`, `ie`, `if_`, `ime`, `halted`, `frames` are
the fields of `Bus` and `Ppu`; `ie` and `if_` are sets of bit numbers;
`dma[ch]` holds a channel's count, control and internal count, and whether it
is due (`active`). Addresses and data of a transfer are abstracted to which I/O
register, if any, a unit lands on; a word store writes two halfwords, and where
both are registers that matter here (IE and IF, the count and control of a
channel) it is one action (`WriteIeIf`, `WriteWord`). The CPU is what the rest of the machine sees
of it: it takes interrupts (`check_irq`), it may change CPSR.I, it stores to
I/O registers (`MaxStores` per instruction), it costs a number of cycles out of
`InstrCosts`. The timers are any subset of `TimerBits` raised at any tick,
which covers whatever `Timers` does; sound neither raises interrupts nor
changes anything here.

`emu_load_rom` calls `Cpu::step` directly, without HALT or DMA turns, then lets
the rest of the boot time pass in one `tick`; `BootTurn` and `BootEnds` are
that loop and that tick. The BIOS itself is no part of the repository: it is
any sequence of instructions. `start` is the one history variable; it records
where the beam was when a host call began.

### Timers

One record per timer, as in `timer.rs`. `Tick(n)` gives all four timers a step
of n cycles at once. The loop `while internal_counter >= prescaler` is written
in closed form (`Counts`, `Counted`, `Advanced`, `Overflows`), because a closed
form can be proved about; `CountLoop` is the loop as the code has it,
a recursive function, and `ClosedFormIsLoop` says that the two agree in every
reachable state.
`age` and `steady` are history: the cycles (or overflows) each timer has been
given since it was started, and the timers whose settings have not been touched
since; a cascaded timer is no longer steady once the timer before it wraps twice
in one step (`Wraps`), for `tick` remembers *whether* a timer overflowed and not
how often.

### SoundFifo, AudioOut, Sound; SampleQueue and AudioStream

`SoundFifo` has the rings with their three indices; `SampleQueue` is what they
promise, queues of bounded length. A halfword store to either half of a FIFO
register pushes four bytes, two of them zero, because `write_reg` takes it for
a word; a word store is two such halfwords, which `Writes` enumerates.
`OnTimerOverflows(T)` is what the loop at the end of `Timers::tick` does with
the timers that overflowed in one step; a FIFO listens to one of them, so their
order does not matter. The other bits of SOUNDCNT_H concern the mixer.

`AudioOut` has `audio_cycles`, `audio_samples_ready` and the buffer; the loop of
`generate_audio` is written in closed form. `emu_audio_samples` hands over a
count and the host copies afterwards, from a buffer that is still the machine's:
`owed` is what it has not copied yet. The host is the one of
`bin/test_gba.rs:47-52`, which copies at once. `Sound` composes the two in the
order of `Bus::tick`: the timers' overflows first, then the samples, which are
made of the bytes that play after them. A pair of samples is known by these
bytes, or is silent if the master switch is off (either may be the case in any
step; the switch is state of `Psg`). `AudioStream` is what the host expects:
time conserved (`n * Period + phase' = phase + cycles`), samples appended as far
as there is room, handed over whole, once.

### CpuModes and RegisterFile

`cpu` is a record of the current registers, the PSR and the arrays (`regs`,
`cpsr`, `r13_14_*`, `r8_12_usr`, `r8_14_fiq`), so that `Switched`, the
translation of `switch_mode`, is a function of a record and can be composed: a
user-bank LDM is `Switched`, a write, `Switched` back, and an LDM that returns
is a write, a switch and one more write. `RegisterFile` knows one physical
register for each bank and name; the refinement mapping `FileOf` looks each up
where the code keeps it at the moment (`View`). r0-r7 and r15 are never banked;
T and the flags do not influence a change of mode; all are left out. Guests use
the seven architectural modes and do not return through an SPSR that was never
written (`MayReturn`); the code would set mode 0, which banks nothing.

### Psg

Registers, counters, envelope and sweep of the four channels, the triggers and
the frame sequencer (`Sample` is `generate_sample` as far as it changes state).
A byte store goes through `io_write8`, which reads the register, replaces half
of it and writes it back; `read_reg` leaves bits out, so byte stores have their
own actions (`WriteLengthByte`, `WriteEnvelopeByte`, `WriteControlByte`). A
sweep's shift is given as the power of two it divides by. Duty, wave table,
noise, panning and mixing are data. `steady` and `age` are history: the
channels whose envelope register is as it was at the trigger, and the envelope
clocks heard since, up to `AgeBound`.

### Alu and Shifter

`flags` is CPSR 31-28. The registers are left out: an instruction's operands are
any two words, since registers may hold any, and its result is any word of the
next one. What could go wrong over several instructions is kept as history in
`chain`: the number that a run of carrying instructions (ADDS, ADCS, ADCS ... or
SUBS, SBCS ..., RSC and the comparisons too) has computed so far, its operands,
its weight, and whether the carry out of its last word is still in C (`open`).
`fresh` says that N, Z and V are still those of the last of them. The ARM and
Thumb forms are actions of their own: ARM passes the second operand through
`BarrelShift`, which *writes C* and has it put back (`CarryIn`), Thumb has a
shifter of its own (`ThumbShifted`). `OneStep` is a shift by one, `Repeated` n of
them, and `ShiftIsRepeated` compares both shifters with it for every word and
amount. A multiplication is its effect on the flags.

### Memory, LoadStore and WordStack

`Memory` is the memory map as data accesses see it: `Region` and `Index` are the
`match` on the top byte and the masks; `Read`, `Write8` and `WriteWide` are the
three widths with their alignment, the 16-bit bus of palette, VRAM and OAM, the
8-bit bus of SRAM, and the end of the cartridge. `LoadStore` has one operator per
instruction handler, with pre- and post-indexing, write-back, rotation and sign
extension, and the block transfers as a function of their list (`BlockStart`,
`StoreBlock`, `LoadedBlock`): in a store the base is written back after the first
word, in an ARM load after the last one and in a Thumb load not if it was loaded.
The guest keeps a stack of one of the four kinds and is free to do whatever does
not store into it (`Harmless`, which looks through mirrors). `told` is history:
the byte a program that knows the documented map expects at each address, computed
from ranges of addresses (`Alias`, `Covered`) and not through `Index`. `Place(k)`
is the weight of byte k, and `StoreBlock` a recursive function over the turns of
the loop. `WordStack` is a sequence of words and a register file; the refinement
mapping reads the sequence off memory at r13. `Slot(k, j)` is where the j-th word
from the bottom lies in a stack of kind k.

### Fetch, WaitStates and ProgramOrder

One action is one `Cpu::step`. `r15` and `valid` are the pipeline as the code has
it: r15 is two instructions ahead while `valid`, and is advanced at the start of
the next step after a jump (`FlushPipeline`). The instructions are classes by what
they do to r15, lr and the CPSR: in sequence, branch, load of r15, BX, BL, the two
halves of a Thumb BL, SWI, IRQ, return. The guest keeps to the rules of the
processor: code lies where `Code` says for each mode, a handler keeps its lr and
spsr and returns with S set, and an IRQ handler leaves interrupts off. The model
starts where the BIOS has started a program in system mode: `Cpu::reset` enters the
BIOS, masked and in supervisor mode, and there is no reset on the way.
`ProgramOrder` is a program counter and a stack of suspended contexts, with one
action for each thing that can happen to a program: `Advance`, `Branch`, `Goto`,
`SoftwareInterrupt` (suspends the instruction after itself), `Interrupt` (suspends
the one it comes before), `Resume`. `Branch` and `Goto` could pass for any of the
others, so it is not enough that each step is one of them: `IsItsOwnStep` says, for
each action of `Fetch`, which one it is and with which offset or target, and
`RunsInOrder` is the refinement together with that.
`WaitStates` is the cycle count of an instruction as a function of its accesses;
`waits` and `prev` are the WAITCNT tables and `prev_exec_cycles`. `spent` and
`last` are history: the work of the last instruction and what follows it in order.

### Layers and Ppu

`Layers` is `render_scanline` and `compose_scanline` for one column, as functions
of a record of registers: the pixel of each background, the front sprite, the
windows, the two highest layers and the colour effects. Tiles, palettes and VRAM
are pictures (`Maps`, `Frames`, a sprite's `art`), a colour is one channel. A bitmap
says itself where it is transparent, since the code asks for all three channels:
memory of zero, which is index 0 or black (section 5).
`Ppu` is the passage of lines: the guest writes registers between any two, a line
is drawn with the registers as they are when it ends and moves the internal affine
coordinates on, VBlank (one step) takes these back. The properties restate what
should show without the code's order of drawing: windows as arcs of a circle, the
front sprite as the least of an order, the top layer as the highest of a set.
`Seconds(x)` are the layers that a pixel may be blended with, one only if the top
layer is a sprite or the last background, and `Effected` is the pixel with one of
them. `moved` is history: the lines drawn with a background switched on, in a mode in
which the code moves its coordinates, whether or not anything of it was to be seen.

## 3. The runs

| run | module, cfg | asks | bounds |
|---|---|---|---|
| `irq` | MCGba, `MCGba_irq.cfg` | interrupts, HALT and the beam without DMA | lines of 4 cycles with HBlank in the last one, 2 visible lines of 5; steps of 1-4 cycles, a boot padding of up to 9 (more than two lines) |
| `dma` | MCGba, `MCGba_dma.cfg` | two channels, every control word and unit order | transfers of 4 and 8 cycles and lines of 4, frames of 12; each unit may write any DMA register |
| `live` | MCGba, `MCGba_live.cfg` | wake-up, service, return of a call, under fairness | lines of 2 cycles, 2 visible ones of 4; one channel in HBlank repeat mode, transfers of 2, 4 and 8 cycles: a line, VBlank, a frame |
| `drift` | MCGba, `MCGba_drift.cfg` | *violation*: one frame per call | frames of 15 cycles, instructions of 2 |
| `timers` | MCTimers, `MCTimers.cfg` | closed form, exact time, chains of three | modulus 3, prescalers 1 and 2, steps of 1 and 4 cycles |
| `sound` | MCSound, `MCSound.cfg` | FIFO, output buffer and host together | a ring of 9 slots, a buffer of 3 pairs, samples every 2 cycles, steps of 1 and 5 |
| `modes` | MCCpuModes, `MCCpuModes.cfg` | register banking, user confinement | five modes, one register of each kind, two values |
| `psg` | MCPsg, `MCPsg.cfg` | lengths, envelopes, sweep | channels 1 and 3, all limits scaled down |
| `alu` | Alu, `Alu.cfg` | multi-word arithmetic, conditions, shifts | words of 2 bits, numbers of two words, shifts by 0-5 |
| `memory` | MCLoadStore, `MCLoadStore.cfg` | mirrors, widths, the stack | words of 8 bits, 8 regions of 32 bytes, a stack of 3 words |
| `fetch` | MCFetch, `MCFetch.cfg` | program order, calls, stalls | 16 addresses: a BIOS of two words, which are the vectors, and two words of cartridge |
| `video` | MCPpu, `MCPpu.cfg` | layers, blending, affine coordinates | 3 columns, 2 lines, maps of 4 x 4 |

Why these bounds are enough to be interesting: what matters to the code is not
the size of a number but how it compares with another one. Every instance has
steps shorter than, as long as and longer than the thing they are compared with
(an HBlank, a line, a timer period, a ring), a value on each side of every
boundary (a VCount setting below and above its top bit, a visible line, the
line that sets the VBlank flag, one that sets it again and the last one, which
leaves it alone), and two of every device that could disturb another. In
detail:

* **Frame geometry.** 1232 cycles, HBlank at 960, 160 of 228 lines, top bit 128
  become, in `irq`, 4, 3, 2 of 5 and 4; the other cfgs scale them in the same
  way. `TotalLines <= 2 * HighBit` is kept, since 228 <= 256 is why a setting
  with its top bit set is out of reach. Cycles within a line are bounded by the
  longest step; `elapsed` by a frame and one step. `frames` is counted from the
  start of a call.
* **DMA.** `ShortMax` and `LongMax` stand for 0x4000 and 0x10000, the units a
  count of 0 means for channels 0-2 and for channel 3. In `live` a transfer has one
  unit (as long as a line), two (as VBlank) or four (as a frame). The last always ends
  in HBlank of a drawn line again and starves the CPU: `IrqServed` without its
  condition fails in this instance.
* **Timers.** 2^16 becomes 3 and {1, 64, 256, 1024} becomes {1, 2}; reloads are
  0 (after a reset) and 1, so that periods are 2 to 6 cycles. A step of 4 cycles
  wraps the fastest of them twice, one of 1 none.
* **Sound.** 9 slots hold a word store (8 bytes as the code pushes it) and one
  more, so writes fit, wrap and are cut at each byte. One byte other than silence
  is in the ring at a time (`MarkBound`): the code copies bytes and never looks
  at one, so where that byte is, is where any byte would be. The buffer of 3
  pairs is filled by two long steps and by six short ones, so it fills exactly,
  is cut in the middle of a step, and is read empty, partly filled and full. The
  run has one FIFO; that two of them do not disturb each other is part of the
  theorem, which holds for any set of them.
* **Modes.** One register only FIQ has a copy of stands for r8-r12, `lr` for
  r13 and r14: the code copies the registers of a kind by the same statements.
  Abort and undefined mode are entered by no exception of the code and behave
  as IRQ mode does; the theorem covers them.
* **Psg.** Lengths 64 and 256 become 2 and 1, volumes 15 -> 1, paces 7 -> 2,
  frequencies 2047 -> 3, 64 samples per sequencer step -> 1. Channel 2 is
  channel 1 without its sweep and channel 4 has the same counters; the theorems
  cover all four. `AgeBound` only limits the history.
* **Alu.** Two bits per word are the least that have a sign and a value; 4 x 4
  operand pairs with every flag setting reach every edge, and two words of it
  every carry. `AmountBound` is past twice the width, so amounts of 0, below, at
  and above the width and a full turn occur. The theorems cover every width.
* **Memory.** Bytes of two bits make words of eight and thus 256 addresses: each
  top byte is a region with at least two mirrors, VRAM in its window with the
  folded quarter. `Followed` leaves out repetitions of what is followed already.
  `StaysSmall` is where TLC stops: two bytes outside the stack, r1 as the pointer
  of data accesses, the other registers one of two values. Every store is tried
  in every one of these states.
* **Fetch.** The vectors lie in the BIOS, code in both instruction sets at both
  parities of a word, and the addresses wrap. `Operands` are even and odd, aligned
  and not, so that a jump aligns what it is given and BX chooses either state; a
  branch has any offset that leads to code. The slowest wait states without and
  the fastest with prefetch are on each side of every comparison, with work of 1
  and 2 cycles and an access that covers a whole fetch.
* **Video.** Two lines and VBlank are the least in which a coordinate moves, stands
  still and is taken back. `Settings` are whole sets of registers chosen so that
  each background mode, priorities equal and unequal, sprites that overlap, flip,
  rotate and wrap, windows that wrap in both directions and each effect occur;
  the guest may go from any to any other between lines.

`CHECK_DEADLOCK` is on everywhere: no instance can stop. No symmetry is used:
channels and timers are ordered by their numbers, the FIFO instances are small.

**The finding** (`drift`). `run_frame` drops the cycles by which a call
overshoots the frame, and the beam keeps them. Calls therefore drift against
frames until one call crosses the end of two frames (`CallDrawsAFrame` holds:
one or two). The test program's frame dumps take one call for one frame.

### Fairness

* `Gba!FairSpec` has `WF(Machine)`: the machine is one thread that goes on
  until the host's call returns; and `WF(RunFrame)`: a host calls
  `emu_run_frame` again and again, which the wake-up from HALT needs, since a
  call ends after a frame. Nothing is assumed of the guest: it may never end
  HALT, mask interrupts or rewrite DMA for ever. `CallReturns` holds of transfers of
  any length, since a transfer ends and its cycles count. `IrqServed` does not: an
  HBlank channel is due again whenever its transfer ends in HBlank of a drawn line,
  and then the CPU has no turn. Its condition `BriefTransfers` is that from some time
  on one channel at most is programmed, with transfers that VBlank has room for: such
  a channel leaves the CPU a turn in VBlank at the latest.
* `Psg!Spec` has `WF(Sample)`: the step loop produces samples for ever.
  `NotesEnd` is conditional on the guest leaving the registers alone.

## 4. What is proved

Every theorem is for all values of the constants that satisfy the module's
named assumption, the real ones included. No theorem assumes more than the code
guarantees, except where the table says so.

| theorem | property | argument |
|---|---|---|
| `Gba_proofs!TypeCorrect`, `DmaHasWork` | `TypeOK`, `DmaActiveHasWork` | `IInv`: types, the stage's cycles, `DmaOK` (every due channel has a positive count, also between the units of a transfer that rewrites it) and the transfer's bookkeeping. One lemma for each DMA operation. |
| `HaltIsSafe` | `SafeHalt` | `tick` looks at the whole of IF *last*, and no other action leads back to `step` with `halted` set. |
| `FlagsAreRight` | `FlagsFollowBeam` | `FlagInv`: the VBlank flag is right at *every* stage, since the last line, which does not touch it, comes after one that set it; HBlank needs the whole loop. |
| `HBlankSkips` | `HBlankSkippedOnlyByLongStep` | from `FlagInv`: before the step the flag was right, so it was raised or the step began before HBlank. |
| `VCountLines` | `VCountOnlyBelowHighBit` | action property; `CompareLine` is either below the top bit or beyond the frame. |
| `TimeIsKept` | `TimeKept` | inductive with `IInv`; `AdvanceKeepsTime` splits on the last line. |
| `CallsDrawFrames` | `CallDrawsAFrame` | `CallInv`: no step is longer than a frame (`CostAssumption`; a step has a few hundred cycles, a transfer 2 * 65536, a frame 280 896), so a call stops short of two frames; with `TimeKept` the crossings are one or two. |
| `Timers_proofs!TypeCorrect`, `StaysSteady`, `KeepsTime`, `OverflowIsOnTime`, `CascadeKeepsCount` | `TypeOK`, `TimerKeepsTime`, `OverflowsOnTime`, `CascadeCountsOverflows` | `IInv` adds to the types that a steady timer has its reload value behind it and less than a count's worth of cycles in hand, and that `age` is what they amount to; `AdvancedKeepsTime` carries it through a step of any length with the modulo lemmas of `Numbers`. A cascaded timer's `age` counts the wraps of the timer before it, which is 0 or 1 in a step that leaves it steady. |
| `Apu_proofs!StaysSound`, `IndicesStayInAgreement` | | the ring invariant `write = (read + count) % Size`, on which the next three rest. |
| `Apu_proofs!Refinement` | `PlaysInOrder` | under the ring invariant, `Pushed`, `Popped` and `Emptied` map to `Write`, `Play` and `Forget` of `SampleQueue` (lemmas `PushedWaits`, `PoppedWaits`, `EmptiedWaits`). |
| `Apu_proofs!SoundHasFifos`, `SoundTypeCorrect` | `SoundTypeOK` | every step of `Sound` is a step of `SoundFifo` or leaves it alone, so that the refinement above holds of `Sound` too. |
| `Apu_proofs!HostHears` | `HostHearsAll` | `SamplesOfStep`: quotient and remainder account for all cycles of a step; `GeneratedWait`: what the buffer then holds is the longest prefix that fits; nothing is written while pairs are owed. |
| `Cpu_proofs!TypeCorrect`, `UserIsConfined` | `TypeOK`, `UserLeavesByException` | one step per action of `Next`. |
| `Cpu_proofs!Refinement` | `BanksAreOneFile` | `SwitchKeepsFile`: a change of mode changes no physical register; `WriteKeepsOthers`: a write changes those of one bank; `Frame` combines them for every action. |
| `Apu_proofs!PsgTypeCorrect`, `TimeLeft`, `PaceKept` | `PsgTypeOK`, `SoundingHasTime`, `EnvelopeKeepsPace` | `IInv` adds `Following`: the envelope timer of a steady channel is `pace - age % pace`. Without it the volume could not be known to move at the right clock. |
| `Cpu_proofs!AluTypeCorrect`, `SumsExact`, `OrderTold` | `SumsAreExact`, `OrderIsTold` | for every width of words and length of numbers. The invariant says of the whole chain what the flags say of one word: `z` is `x + y` or `x - y` up to a multiple of the weight that C tells, and N and V place the signed result. The lemmas take an adder (`AdcWithFlags`, `SbcWithFlags`) apart into cases of carry and sign, and one lemma adds a word at the top. |
| `Cpu_proofs!ShiftsCorrect` | `ShiftIsRepeated` | for words of every width and every amount. `Weights` and `WeightSum` give the powers of two their laws, `NextBit` says how a number's bits move by one division; `LslSteps`, `LsrSteps`, `AsrSteps` and `RorSteps` say that the shifter's answer for n + 1 is one shift more than the one for n, over the edges at the width and at a full turn. `RepeatedIs` puts the steps together, and `ImmediateIs` and `ThroughCarry` treat the encodings of an amount of 0. |
| `Timers_proofs!LoopIsClosed` | `ClosedFormIsLoop` | `CountLoopIs`: after k turns of the loop the counter is the closed form for the cycles of k turns; a turn is `CountOnceSteps`. |
| `Fetch_proofs!TypeCorrect`, `StallsAreTheRest` | `TypeOK`, `StallIsTheRest` | the same `IInv` gives the types: what lr and spsr hold must be an address to return to. `WorkKnown`: `prev_exec_cycles` is the work of the instruction before this one, unless it jumped or an interrupt came between, and then the fetch is from the BIOS. The wait states of a burst are a recursion over its accesses. |
| `Fetch_proofs!InOrder` | `RunsInOrder` | `Nested`: which modes can be suspended below the one that runs, and that lr and spsr of each lead back to it; `HalfIsEven` of a half call. With these each action maps to its own step of `ProgramOrder`, with its offset, its target or the context it suspends, wherever the pipeline is; the refinement follows. |
| `Fetch_proofs!CallsComeBack` | `CallsReturn` | lr between the halves of a call, and after it, whatever came between them. |
| `Ppu_proofs!TypeCorrect`, `AffineCorrect` | `TypeOK`, `AffineFollowsLines` | a steady coordinate is the reference point and `moved` steps of a line, modulo its width; `MovedWithLines` bounds the lines it can have moved by the lines of the frame. |
| `Ppu_proofs!LinesCorrect` | `LinesShowTheHighest` | `BetweenIsOnCircle`: the window's comparison is the arc; `FrontOver` and `SpritePixelIsFront`: the loop over sprites leaves the least of the order; `WithBackgroundSteps` and `ComposedIsHighest`: the loop over backgrounds keeps the two highest so far, each with its colour (`LayerColours`). |
| `Ppu_proofs!SecondCorrect` | `SecondIsBelow` | from the same invariant of the loop (`TwoHighest`). |
| `LoadStore_proofs!TypeCorrect` | `TypeOK` | block transfers by recursion over the 16 turns of their loop (`StoreBlockHolds`). |
| `LoadStore_proofs!StoresCorrect` | `StoresAreFound` | `Agree`: a byte that is followed lies in its cell. `AliasIsCell`: two addresses are aliases (ranges) exactly when they have one cell (masks). `WriteByte` gives every cell after a store of any width to any region, `CoveredIs` and `ToldIs` every followed byte, `WriteAgrees` joins the two; `WideIsJoined` goes from bytes to halfwords and words. |
| `LoadStore_proofs!StackKept` | `StackIsKept` | `StackInv`: r13 points to the place that some depth has, which makes the words found in memory the `d` slots below it (`Found`). `HitsAlias`: a store changes a word only at an alias of one of its bytes, so that stores into two slots, or elsewhere, keep apart (`SlotsApart`, `HarmlessApart`). `BlockGoes` follows one word of memory through the 16 turns of a block transfer, `BlockEnds` and `SpotsAre` say where its words lie for each of the four kinds. With these every operation is a `Push`, `Pop` or `Poke` of `WordStack` or leaves the stack alone (`Pushes`, `Pops`, `Pokes`, `Stills`; one lemma `...Follows` for each action). |

Each `IInv` was run as an invariant by TLC before it was proved.

What is computed by a loop is proved by an invariant of the loop. Where the model
writes the loop as a recursive function (`StoreBlock`, `CountLoop`, `Repeated`,
`Weight`, the sprites of a column, the waits of a burst), the proofs use three lemmas of `Numbers` about
sets of numbers: `SetInduction` (from the well-foundedness of <),
`RecursionExists` (such a function exists) and `RecursionStays` (a sequence stays
within sets that each of its steps leads into). They take the place of an
induction theorem about predicates.

What the theorems assume of the constants, besides their types:

* `MemoryAssumption`: a byte has an even number of values, the regions are
  aligned and fill the address space, each memory is a multiple of a word, and VRAM
  is three quarters of its window. All are constants of `bus.rs`.
* `LoadStoreAssumption`: with a byte all bytes of its word are followed, and the
  program's stack begins on a word.
* `StackAssumption`: what the stack may reach does not wrap around the address
  space, lies in memory that holds words (not SRAM, the cartridge or nothing), is
  followed, and does not reach a mirror of itself. A guest that broke it would
  lose words on the hardware too.
* `ShifterAssumption`: `Half` is the weight of the top bit.
* `FetchAssumption`: code is aligned as its instruction set asks, the vectors are
  words of the BIOS, WAITCNT is one of the values that it can be given, what is loaded
  into r15 is an address.
* `PpuAssumption`: `Settings` are sets of registers as the registers' widths allow
  them (`IsRegisters`), a map is not empty, lines and columns fit the window
  registers.
* `CostAssumption`: no step is longer than a frame, as in the table.

Model-checked only: the liveness properties (`VBlankWakes`, `IrqServed`,
`CallReturns`, `NotesEnd`), which need fairness. Every other property of a
passing run is the statement of a theorem.

## 5. What the code does that one might not expect

Nothing in the repository says otherwise, so these are observations and no
findings; the models have them as they are.

* A halted step always ends at cycle 0 of a line, so a CPU halted with only
  HBlank enabled never wakes, and HBlank DMA does not run while the CPU sleeps.
* The sound FIFOs are never refilled by DMA: `Timers::tick` drops the request
  of `on_timer_overflow`, and `trigger_sound_fifo` has no caller. A halfword
  store to a FIFO pushes two zeros with it.
* Disabling a DMA channel does not cancel a transfer that is due. Two channels
  that reprogram each other can keep the CPU from running for good. So can one HBlank
  channel in repeat mode: a transfer of a line's length keeps the CPU out until
  VBlank, but one whose length brings the beam back to HBlank of a drawn line each
  time, as 76 lines (46 816 units of channel 3) do, ends only to begin again.
* A VCount setting of 128 or more never matches.
* A byte store to IF acknowledges every pending interrupt of the *other* byte.
  A byte store to SOUNDCNT_H repeats a FIFO reset; one to a sound control
  register repeats its trigger; one to a length register erases the envelope;
  one to an envelope register zeroes the length of channels 1 and 2 and loads
  channel 3's from its volume.
* Channels can be triggered while sound is off, and sound once it is on again.
* Duty and wave positions never move, because nothing advances the frequency
  counters.
* LDM with `{..., pc}^` and write-back writes its base register in the mode it
  returns to.
* The second blend layer is the last background below the top one in the order
  of their numbers, not the one next in priority; `SecondIsBelow` says when the
  two are the same.
* ADCS and SBCS with a shifted operand add the carry of the *shifter* and not the
  old C: `barrel_shift` writes C, and it is put back only if the instruction does
  not set the flags. `SumsAreExact` therefore speaks of carrying instructions
  whose operand leaves C as it was.
* An ARM LDM with write-back and its base in the list loses the loaded base; a
  Thumb LDMIA keeps it.
* The SP- and PC-relative loads and POP of Thumb state do not rotate an unaligned
  word, as LDR does.
* A halfword or word that reaches past the end of the cartridge reads as 0, while
  its bytes are still readable one by one.
* Black pixels (all three channels zero) of the direct-colour modes 3 and 5 are
  transparent.
* Sprites in window mode are drawn as ordinary ones (only mode 3 is skipped,
  `ppu.rs:355`), and the window they should make does not exist: with that window
  alone switched on, everything is outside.
* Modes 6 and 7 show no background, but lines drawn in them move background 2's
  affine coordinates.
* A doubled sprite of 128 lines that starts below line 128 does not wrap to the
  top.
* A write to either half of a reference point loads the internal coordinate at
  once, with the other half as it was.
* `Bus::reset` clears SRAM and keeps the framebuffer and the output buffer. Each
  `emu_load_rom` leaks the ROM before it, since the allocator never frees.
* `prev_exec_cycles` is not reset when an interrupt is taken; that is harmless,
  as the vectors lie in the BIOS, where no fetch waits (`StallIsTheRest`).
* A host that does not fetch its samples for 65 536 / 2 of them (one second of
  sound) loses the newest.

## 6. Plan

Written so far, the most important behaviour first: Dma, Bus, Gba; Timers;
SoundFifo; CpuModes; Psg; Alu; Memory and LoadStore; WaitStates and Fetch; Layers
and Ppu; the composition Sound; each with its proofs. Next:

1. **Timers in Gba.** Every step of `Timers` is a `TickStart` of `Bus`, and
   `Timers` drives `Sound`.
2. **Lifecycle** (`lib.rs`, `allocator.rs`): host calls in any order.

## 7. What is not modelled

* Instruction decoding: which bits make which operation. The modules start at the
  handlers.
* Thumb's `ADD SP, #-n`: `LoadStore` moves SP down by pushes only. Words that SP
  passes over would be on the stack with whatever was in memory, and a `WordStack`
  that allowed them would take any push that stores nothing for one.
* The products of the multiplications (their flags are in `Alu`), block transfers
  with an empty list, and r15 in the lists of `LoadStore` (a load of r15 is a jump
  of `Fetch`; the user bank is in `CpuModes`).
* The BIOS read latch and the values of open bus; what a BIOS routine does. The
  BIOS itself is no part of the repository.
* Pictures: tile and palette lookup, and colours beyond one channel.
* The mixer's arithmetic, panning, duty and wave tables. Their inputs are in
  `Psg`, their place in time is in `Sound`.
* The allocator, whose `alloc` moves one pointer and whose `dealloc` does nothing,
  and the accessors of `lib.rs` that return a pointer.
* `bin/test_gba.rs`, a driver that reads and writes files, except for the order in
  which it fetches samples.
