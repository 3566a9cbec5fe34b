# Riscv-Sym in TLA+

TLA+ specifications of the RISC-V emulator and simulator in this repository, the TLC
configurations that check them on small instances, and proofs that TLAPS checks for every
value of the constants. Paths below are relative to the repository, core files to `src/core`.

## The system

Riscv-Sym is a C++ emulator of a 32-bit RISC-V hart (RV32IMAC, privilege modes, Sv32) with two
front ends. The command line (`src/cli/main.cpp`) loads a kernel and a disk image and runs the
hart until it meets a zero instruction at address 0. The GUI (`src/gui`) executes the lines of an
assembly editor one by one. Everything runs in one thread: concurrency comes from interrupts, which
the run loop samples between instructions; from signals and the terminal; from the timers and
buttons of the GUI; and from the guest program, which may do anything at any time.

| Component | State | Operations | Talks to | What makes it correct |
|---|---|---|---|---|
| Hart (`RiscvCpu.cpp`, `CsrUnit.cpp`, `instruction/SystemInstruction.cpp`) | mode, pc, next pc, registers, CSRs | run loop, `takeTrap`, `returnFromTrap`, CSR instructions, ECALL, EBREAK, MRET, SRET | memory (fetch, time, UART line) | enabled interrupts are taken and masked ones are not; traps nest and are undone by returns; lower modes do not reach M-mode's registers |
| Virtual memory (`Memory.cpp`) | pages, SATP copy | `translateAddress`, `read*`, `write*`, `setSATP` | hart (mode, SUM), devices | U-mode stays in its pages, also across page boundaries |
| Reservation (`RiscvCpu.cpp:353-380`, LR, SC, AMO) | reserved address, valid bit | LR, SC, AMO, `notifyStore`, `cancelReservation` | virtual memory, traps | SC fails after a store to the word or a trap |
| SD card (`Memory.cpp:388-464`) | SPI engine, disk | a byte written to or read from the data register | guest driver | a disk of atomic blocks; checksums match the data |
| UART, PLIC (`Memory.cpp:365-386, 487-557`) | one-key slot, LCR, IER, transmitter flag | register reads and writes, `pollKeyboard` | terminal, hart's poll | keys are not lost on the way, doubled or reordered; an interrupt is held until served |
| CLINT (`Memory.cpp:354-363, 470-485`) | mtime, mtimecmp, stimecmp (a pair of CSRs) | reads and writes of halves, `incrementTime` | hart's poll | a deadline raises the timer, and only then; a read of the clock in halves is a time |
| Semihosting (`SystemInstruction.cpp:15-145`) | stdin's buffer | open, write, read, readc | terminal, virtual memory | as for keys and stores; a key is lost only when its store faults |
| Command line (`src/cli/main.cpp`) | terminal modes, signal flag | `enableRawMode`, `disableRawMode`, `signalHandler` | terminal, hart | the terminal is restored; Ctrl+C stops |
| Simulator page (`MainPage.qml`, `cpuwrapper.cpp`) | displayed pc, running flag, highlighted line, two timers | Run, Step, Pause, Stop, Reset, edit | `executeAsmCommand`, `resetGUI` | the page follows the processor; stopped means rewound; a failing line ends the run |
| Decoder, arithmetic, compressed instructions (`instruction/*`) | none | `execute` of each format, `decompress` | registers, memory | decode inverts encode; expansions lose no bit; results as RISC-V defines them |
| Assembler (`AssemblyCompiler.cpp`) | none | `compile` | decoder | what it emits decodes to what was written |
| Other GUI pages, build, tests | - | - | - | static |

The hard behaviours: interrupts of two levels with delegation and masks that change in the same
iteration; nested traps; aliases of CSRs; page-crossing accesses that fault half way; reservations
kept by physical address while stores report virtual ones; a byte-wise device protocol that any
guest can drive out of step; 64-bit registers programmed and read in halves while they
move; two readers of one terminal; signals between two system calls; two GUI
timers racing with buttons. `PROJECT.json` lists each as a hazard with its line.

## Modules

| Module | Models | Checked by |
|---|---|---|
| `Hart` | hart: run loop iteration, traps, CSRs, interrupt poll | `MCHart`, proved in `PlatformProofs` |
| `Platform` | the hart with its clock, timer comparators, UART interrupt and PLIC; extends `Hart` | `MCPlatform`, proved in `PlatformProofs` |
| `VirtualMemory` | Sv32, crossing accesses, LR/SC/AMO | `MCVirtualMemory`, proved in `VirtualMemoryProofs` |
| `BlockDevice` | what the SD card promises: atomic blocks | as a property of `SdCard` |
| `SdCard` | the SPI engine, byte by byte | `MCSdCard`, proved in `SdCardProofs` |
| `Console` | `main`, terminal, UART, semihosting input, Ctrl+C | `MCConsole`, proved in `ConsoleProofs` |
| `Simulator` | the GUI's main page with `CpuWrapper` | `MCSimulator`, proved in `SimulatorProofs` |
| `Binary` | powers of two, a number as the set of its 1 bits and back | used by `SdCard`, `Alu` and `Words`; lemmas in `BinaryProofs` |
| `Words` | instruction words as sets of bits, `getBits` | used by the next four |
| `Assembler` | `AssemblyCompiler`: operand ranges, formats, the instruction table | through `Codec` |
| `Decompressor` | `CType::decompress` and its word builders | through `Codec` |
| `Decoder` | `Instruction::execute` and the dispatchers, up to the handler and its arguments | through `Codec` |
| `Codec` | the ways an instruction comes to be executed: a line, or a halfword | `MCCodec`, proved in `CodecProofs` |
| `Alu` | registers and every instruction that computes, branches or jumps | `MCAlu`, proved in `AluProofs` |

`PROJECT.json` maps every definition to the lines it stands for. Operators named
after a definition with a suffix (`Warl_unchecked`) are that definition with a plausible bug; the
comment above each says which. They show that each property can fail.

**Hart.** A register is the set of its 1 bits, so masks are set operations. One action is one
iteration of the loop: `ExecuteOther`, `ExecuteCsr`, `CsrRefused`, `ExecuteEcall`, `ExecuteEbreak`,
`ExecuteMret`, `ExecuteSret`, `PrivilegedRefused` end with the poll (`Retire`), while
`IllegalInstruction` and `PageFault` trap and skip it, as `continue` and `catch` do. `TrapToS`
contains every CSR write of `takeTrap`, the acknowledgement through `SIP` included. What the program
executes is open: any instruction at any time, subject to the mode. The actions that poll take the device
lines as a parameter: `Next` leaves them open, and `Platform` gives them. `trap` is a history variable.

**Platform.** Extends `Hart` with what raises its lines. An iteration that retires an instruction ticks
the clock (`Tick`), performs the access, and polls with `Lines`, computed from the new time, comparators
and UART; the iterations that trap without a poll leave the devices alone (`NoTick`). A 64-bit register is a
number below `Half * Half`. The guest programs a comparator in three writes (all ones to the low half, the
high half, the low half) and reads the clock through its halves, as the RISC-V manual recommends; `guest`
says where it is in doing so, with traps, handlers, other instructions and keys in between. UART accesses
are those with DLAB clear. `PlatformImplementsHart` proves that the composition implements `Hart`.

**VirtualMemory.** An address is `<<hi, lo, off>>`; pages and tables have `N` cells, a table entry is
one cell and a word two, so that words straddle pages as they do at 4 KiB. `Translate` is the walk
with the checks at both levels, `WriteWord` keeps what was written before a fault, `AfterNotify`
compares as `notifyStore` does. `fate` records what happened to the reserved word since LR.
The choice of the trap's target is left open here: `Hart` has it.

**SdCard, BlockDevice.** Each state of the engine is an action; any byte may come in any state.
`BlockDevice` has two operations, a whole block read and a whole block written. The refinement maps
its disk to `before`, the disk as it was before the block that is being transferred, which becomes
the real one with the block's last byte.

**Console.** `enableRawMode` is one system call a step, each of which may fail, so that Ctrl+C falls
between them. An iteration of the run loop polls the keyboard when the counter is 0 and executes one
guest instruction: a UART access, a semihosting read, or another. Keys are numbers in the order of
typing. SYSREAD stores the key after `fgetc` has taken it (`SystemInstruction.cpp:111-113`), and the
store may page-fault; `Returned` then records the key as dropped. `taken` is a history variable: the keys
that instructions took, and how.

**Simulator.** Each function of `MainPage.qml` is an operator on the page's state, as functions call
one another; each button and timer is an action. A line of the program is what it does to the page
and to the program counter.

**Words, Assembler, Decompressor, Decoder, Codec.** A word is the set of the positions of its 1 bits:
`|` is a union, and each shift with a mask in the code is one `Move`. The first three follow the code
function by function; the tables of codes that the assembler and the dispatchers hold separately are
separate here too. `Codec` takes one instruction at a time: `Compile` a line or `Fetch` a halfword, then
`Execute`. A line is a mnemonic with numbers for its operands, valid or not; splitting and reading text
is left out.

**Alu.** Each operation is a function of words with its handler's casts; an action applies one to registers
and moves the program counter by 2 or 4 bytes, `SetRegister` keeping x0. Words have `W` bits, 32 in the code,
and bytes and halfwords scale with it (a quarter and a half of a word). `SLL`, `SRL` and
`SRA` take one bit more of the amount than a word needs, as the code does (`getBits(rs2, 0, 5)`, six bits,
where `InstructionsPage.qml:34` says five); what C++ leaves undefined is any of the outcomes a build has.

The other modules are not composed into one: they meet at narrow interfaces, over-approximated on each
side. `Hart` takes any device lines at each poll, and `Platform` only those the devices show;
`VirtualMemory` takes a trap to either level, which covers `Hart`; `Console` lets the guest do
anything.

## Runs

| Run | Shows | Instance and bounds |
|---|---|---|
| `hart` | enabled interrupts are taken and only those, traps are undone by returns, privilege rises only into handlers, lower modes are confined | two addresses; the trap stack's bits; machine and supervisor timers, one at a time; mideleg with none, the supervisor's, or these and M-mode's timer; exceptions 2, 3, 12 and the ECALLs. No bound on length |
| `platform` | timers are never early, interrupts have causes, clock reads are consistent, time slices end | `Half` = 3, `MaxTime` = 7 of 8, deadlines 3 and 7; both interrupts of the UART enabled together; M-mode maps the devices; mie, mideleg and MIE set or not |
| `hart_ssip` | *violation*: SSIP is lost | as `hart`, with software and UART interrupts |
| `vm` | U-mode is confined by its page tables; valid reservations are honest | `N` = 2, all eight addresses, both sizes; four images: two sealed, one with the leaf table mapped to U-mode, one with an identity and an alias mapping; stores of a user leaf entry. Memory differs from an image in at most two cells, and in at most one while a reservation is held (`FewRewritten`) |
| `vm_alias` | *violation*: a store through an alias is not seen | as `vm`: the identity and alias mappings, stores of zero, no constraint |
| `simulator` | the page follows the processor and ends failing runs | programs of one or two lines, counters of 4 bits: aligned, unaligned, past the end, negative |
| `simulator_step` | *violation*: Step does not advance | as `simulator` |
| `sdcard` | the card is a disk of atomic blocks | blocks of 2 bytes, an image of 3, 8 addresses, one argument byte, four byte values |
| `console` | keys arrive, once and in order, and only a faulting store loses one; the terminal is restored | 3 keys typed (`MaxTyped`), a poll every 2 iterations (`PollEvery`) |
| `codec` | what is written is what is executed; expansions agree with the assembler and lose no bit | all 49152 compressed halfwords; registers 0, 5, 10, 31 and the invalid 32; 20 immediates at and beyond each limit, and alternating bits |
| `alu` | division, multiplication, comparisons, extensions and calls are right for all operands | `W` = 4: all pairs of values; registers 0, 1, 2; immediates -8, -1, 0, 3, offsets of both signs |
| `console_shutdown` | *violation*: Ctrl+C does not stop | no keys |

Why the bounds are enough. Two cells a page are the least in which a word can lie in one page, fill
it, and straddle two; two levels of two entries give superpages, pointers, leaf pages and holes. The
card's image of one block and a half has a whole block, one the image cuts, one beyond it, and with 8
addresses block numbers that wrap. The halfwords are all there are; the immediates include, for each width,
the last number inside and the first outside of either end. Four bits are the least of which a load's byte
and halfword are different parts, and have every combination of signs, zero, one and both extremes. A
`Half` of 3 is the least for which all ones is neither 0 nor 1; up to 7 the clock carries twice into its high half,
and the two deadlines lie in different halves, before and after those carries. Three keys fill the slot, stdin's buffer and the terminal at once.
`Hart` has no bound: its state space is finite with the CSR values given. `FewRewritten` bounds `vm`: two rewritten cells are one
word stored, within a page or across two, and enough to give U-mode its leaf table, to write
through an alias and past the top of memory; further stores only rewrite the tables in more ways. Where a property is also
proved - all but those listed at the end of Proofs - the instance only confirms that it is not vacuous.

One property of `Hart`, two of `Simulator` and four of `Console` need explanation. `InterruptWasEnabled` says
what the code's masks do, not what their names suggest: SIE masks the supervisor's interrupts in S-mode, and
a machine-level interrupt delegated through mideleg, which `CsrUnit` stores as written, enters S-mode's own
handler with SIE clear, as the poll asks only for MIE and only in M-mode (`RiscvCpu.cpp:190-202`). The run reaches that case. `TypeOK` of `Simulator` has the
range of a C++ int, which the mutant breaks. `TerminalRestored` is about `main` returning: a signal
between `tcsetattr` and `signal()` kills the process and leaves the terminal raw, which the model
reaches and the property excludes. `OnlyFaultsLoseKeys` lets the key 0xFF, which `pollKeyboard` stores
as -1, be in no place, but never in two, nor at the cost of another key; an ordinary key is in no place exactly when
SYSREAD has dropped it, which the run reaches: the code does not put back what `fgetc` took. `InterruptHeld` takes every
change of IER for the guest's own decision, also one by a write of the divisor's high byte, which the code stores in IER
whatever DLAB is (`Memory.cpp:376-379`). `KeysArrive` excludes a guest that waits for a key on a terminal that could not be made raw.

Deadlock is checked for `Hart`'s companions that never stop (`VirtualMemory`, `SdCard`, `Codec`, `Alu`). It is not for
`Hart` and `Platform` (the loop ends at a zero instruction; the clock stops at its bound), `Console` (the process ends) and `Simulator` (only users
and timers act).

**Fairness.** `Simulator`: a QML timer that runs fires (`WF` of the two timer actions); nothing is
assumed of the user. `Console`: the process is scheduled (`WF` of `EnableRawMode`, of one neutral
iteration, and of a `fgetc` that has a key), and for `KeysArrive` the guest has a driver that does not leave DLAB set and
keeps reading the receive register. `CtrlCStops` is refuted under the same fairness.

## Findings

1. `takeTrap` acknowledges an interrupt by writing SIP with its bit alone (`RiscvCpu.cpp:265`): a
   pending supervisor software interrupt is lost (`hart_ssip`).
2. `notifyStore` compares virtual addresses with the reserved physical one (`RiscvCpu.cpp:353-365`):
   SC succeeds after a store to the word under a mapping that is not the identity (`vm_alias`).
3. `executeAsmCommand` does not advance the counter nor commit jumps (`RiscvCpu.cpp:65-77`): Step and
   Run stay at one line (`simulator_step`).
4. Ctrl+C sets a flag that nobody reads (`cli/main.cpp:21-26`, `RiscvCpu.cpp:134`): `console_shutdown`.

## Proofs

`PlatformProofs` begins with `Hart` alone, for all addresses, CSR operands, exceptions and device lines:

- `TypeCorrect`: `Spec => []TypeOK`. `TypeOK` is inductive because it contains `LegalCsr`: mstatus
  holds implemented bits only and never MPP = 2. Lemmas state that each of CSR read and write, trap,
  return, sample and poll keeps a legal hart legal; each action then applies them in its order.
- `TrapsAreReversible`: from the type invariant, by computing the bits of mstatus through `TakeTrap`
  and the return.
- `InterruptsAreTaken`: a poll that does not trap had no eligible interrupt, and what it leaves is
  what it looked at. The invariant is inductive with `TypeOK`.
- `RaisesEnterHandlers`, `LowerModesConfined`: action properties under `TypeOK`.
- `OnlyEnabledInterrupts`: of `InterruptWasEnabled`, with no assumption on what software writes to mideleg.
  A trap stacks the mode and the enable bit that the poll looked at (`SupervisorTrap`, `MachineTrap`), so that they can
  be read off the hart it leads to (`PollAllowed`). Every iteration begins without a trap, hence the
  property is inductive with `TypeOK`.

`VirtualMemoryProofs`, for all page sizes `N > 1`, images, stored words, root tables and programs:

- `TypeCorrect`, with lemmas on the types of `Succ`, `Translate`, `WriteCell` and `WriteWord`.
- `ReservationsAreHonest`: a store that writes a reserved cell by its own address inside its range has
  that cell in `Span`, so `AfterNotify` cancels.
- `UserIsConfined`: an action property. A U-mode store that does not fault goes to a page in
  `UserWritable`; as no page table lies in one, the walk for the second half of a crossing store sees
  the same tables as the first, and so does the next instruction.

`PlatformProofs` goes on with `Platform`, for every width of a half, every bound of the clock, deadlines, device modes and all that
`Hart` leaves open:

- `PlatformImplementsHart`: `PlatformSpec => Spec` of `Hart`, step by step: a ticking iteration is one of
  `Hart`'s with the lines that the devices show, a key is a stutter. So every theorem about `Hart` above
  holds of the composition.
- `PlatformInv` is inductive: `Hart`'s types; the devices' types with the guest's place in its access and what it
  has stored so far (`GuestOK`); and `InterruptsOK`, that a timer bit set in mip means that its
  comparator has been reached. From it follow `PlatformTypeCorrect`, `ClockReadsAreConsistent`, `NoTimerIsEarly` (the mixture after
  each of the three stores is no earlier than the earlier deadline, `ThreeStores`), `InterruptsHaveCauses` and
  `TimeSlicesEnd` (a poll that leaves U-mode running had no machine timer, and an iteration without a poll does not
  tick).

`SimulatorProofs`, for every set of programs and range of the counter: `TypeCorrect`, `DisplayFollows`,
`StoppedIsRewound`, `TimersArePausable`. `PageInv` conjoins the four on the page as a value, because functions of the
page call one another in the middle of an action: each lemma says that a function takes a good page to a good one.

`SdCardProofs`, for every size of block, image, argument and address: `WaitsAreRearmed`, and
`CardImplementsBlockDevice`, the refinement: initial states map to initial states, a transfer's last byte is
`BlockDevice`'s operation, and every other step a stutter. The invariant says what has been transferred, and that
`before` and the disk differ in the transferred bytes only. `SdCardTypeCorrect` and `ChecksumsMatch` (`ChecksumInv`)
need a few facts about `CrcOf`: it depends on the block alone, gives two bytes, and is two zeros for a block of
zeros, which is what the code answers past the end of the image. That its polynomial is the one of the SD standard
is not claimed.

`ConsoleProofs`, for any number of keys and any interval between polls: `TerminalIsRestored` (what has been changed
is marked by `raw_mode_enabled` from where `enableRawMode` cannot fail), `InterruptIsHeld`, `ConsoleTypeCorrect`,
`KeysLostByFaultsOnly` and `KeysArriveInOrder`. `Route` is their invariant: what has left the terminal came before what is
still in it, the buffer and the slot hold their keys in order, and what has been taken, dropped keys included, is in order for each way. One
lemma for each of the moves of a key: typed, polled, read from the slot, taken into the buffer, taken from it by `fgetc`,
for the guest or for a store that faults.

`BinaryProofs` has what the next two need: `Pow2[m + n] = Pow2[m] * Pow2[n]`, a number below `Pow2[n]` is put
together again from its lowest `n` bits (`NumberOfLowBits`), and the bits of a negative number (`SignBits`,
`Complement`). The induction theorem of the library takes an operator, which the provers cannot instantiate. Here
induction over the naturals is about a set of numbers instead (`Induction`): if it were not all of them, there would be
a least number outside it (`LeastNumber`, from the theorem that `<` is well-founded). `RecursionIsDefined` derives
from it that a recursive function of a natural number is what its equation says.

`AluProofs`, for every width `W`, a power of two from 4 on, and all operands: the six invariants of the run. `TypeOK` is
inductive as it stands; the other five follow from it alone, since they are about whatever values two registers hold. They are arithmetic:
two integers are the `Same` when they differ by a multiple of `Modulus`, `ToWord` is the only word that is the same
as its argument, and sums and products of the same are the same. `UpAndDown` moves a field to the top
of a word and back; `PutBack` says that a quotient and its remainder make up the dividend, whatever the signs.

`CodecProofs`, for all integers as registers and immediates, and all halfwords: first `CodecTypeCorrect` and
`LinesAreExecuted`. A word is a union of fields that do not overlap, so that reading one field gives back what was put
in it (`FieldOfPlace`, `MoveBack`), and a sign bit that is copied upwards gives back a negative number (`SignRestored`).
One lemma for each format says what each field of a built word reads as (`RFields`, `IFields`, `BFields`, `JFields`,
and so on); one for each group of mnemonics goes on through the assembler's table and the
dispatcher's, which are separate in the code and in the model (the `Written` lemmas); `LinesFaithful` joins them. The
invariant adds to the property that the word of a line waiting to be executed is `Assemble` of it, without
which nothing is known when `Execute` comes.

`ExpansionsAreAssembly` and `JumpsGoWhereTheyAreMeantTo` are about halfwords. What decompress builds has no
assembler's number in it, only bits, so that the argument runs the other way: the immediates of all formats are `Extended`
(`CompressedImmediates`), and a word is got back from the number it stands for (`NumberOfWord`, from `BitsOfNumber` of
`BinaryProofs`: the bits of a number that is put together from bits are those). Then a builder of `Decompressor` makes
the very union that the encoder of `Assembler` makes of that number, and the `Written` lemmas say what it is
executed as: `Expands`, with one lemma for each format. `Expansion` goes through the cases of decompress; what is left
of them is an illegal word, an instruction that `Expands` (`Plain`), one of the two jumps, or a long
shift (`Understood`). The second part of the invariant, `WordOfHalfword`, says that the word executed is still the one of the
halfword; it needs that no line is `Unrecognised`. For the jumps, each of the eleven bits of the offset is
followed from the halfword to the word and back (`JumpOffsetBits`, `JumpEncoded`).

`EveryBitReachesTheWord` (`NoBitIsIgnored`) follows a flipped bit. It changes exactly the fields it belongs to
(`FlippedField`, `FlippedOperands`), and each immediate that has it as a source (the `Has` lemmas,
`FlippedImmediates`). For the bits 2 to 12 both halfwords come to the same case of decompress, and the word gives the
operands of that case back, so that they would be equal (`QuadrantsInjective`): by `Expands` and `SameOperands` where
the word is the assembly of one instruction; from its fields for the shifts, whose sixth bit the dispatcher does
not read (`IRead`, `SameI`); and for c.lui and c.addi16sp, or c.jr, c.mv, c.add and c.ebreak, which share a case, by
the mnemonic first. The bits 0, 1, 13, 14 and 15 lead to another case. `Roles` says which instructions a case is
expanded to, by mnemonic and registers (c.lwsp is a load from x2, c.lw one from x8 or above), and
no two cases a bit apart have one in common (`RolesApart`). Cases that are further apart do: c.addi and c.addi16sp
both make `addi x2, x2, 16`. The exception comes out of `MiscAluInjective`: the register forms do not look at bit 12.

Assumptions are the named `ASSUME`s on constants, which TLC evaluates on every run.

Only model-checked: liveness (`FailureEndsRun`, `KeysArrive`), which is out of the prover's reach. Every other
property of a passing run is the subject of a theorem.

## Not modelled

How the assembler splits and reads text and numbers; output, logging and layout; the Windows build; an
exception thrown through Qt's event loop, whose outcome the build decides; shifts by 32 or more beyond the
outcomes named above; the run loop's counter as an int that overflows after 2^31 iterations.

## Plan

Done in the order of the first plan: the modules of the components, then `Platform` and `Alu`, then the proofs of every
module with state, then those about words. What is left is
composing `VirtualMemory` with `Hart`, so that the handler of a page fault is the one that repairs its table.
