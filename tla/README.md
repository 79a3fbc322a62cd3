# A TLA+ model of urv86t

`urv86t` is a single-threaded emulator of an RV32 IMFD hart, written in C: it
loads a statically linked ELF file, executes it instruction by instruction,
passes a few Linux system calls on to the host, and stops at a breakpoint to
let the user step. This directory holds a specification of it, the TLC runs
that check the specification on small instances, and theorems checked by TLAPS.
Paths below are relative to the repository, whose root is `src/` in
`PROJECT.json`.

## The system

| Component | Source | State | Operations | Model |
|---|---|---|---|---|
| Hart | `src/emu.c`, `src/dispatch.c` | `regs`, `pc`, `suspended` | `rvstate_init`, `rvemu_step`, `rvemu_dispatch` | `Hart`, `BaseInsns`, `Emulator` |
| Arithmetic | `src/dispatch.c` 77-150, 290-331 | none | one C expression per instruction | `Bits`, `Alu`, `AluUnit` |
| Guest memory | `src/elf.c` 7-21, `src/emu.c` 27-43 | regions and their buffers | translation, load, store, fetch | `Memory` |
| System calls | `src/syscall.c`, `src/dispatch.c` 8-57 | the heap's `sz_alloc` | read, write, exit, fstat, brk | `Syscalls` |
| Breakpoints | `src/bkpt.c` | `bkpt_ev_arr` | add, check, poll | `Bkpt`, `BkptApi` |
| Main loop, prompt | `src/main.c` | the control of `main()` | step, poll, prompt, continue | `Main`, `Session` |
| Decoder | `src/decoder.c`, `src/insn/*.c` | none | `rvdec_insn` | `Decoder`, `Decoding` |
| Floating point | `src/dispatch.c` 333-766, `src/ext/rv32fd.c` | `fregs` | 28 instructions | `FloatOps`, `FloatInsns` |
| ELF loader | `src/elf.c` 40-267, `src/main.c` 91-156 | `elf_ctx`: the regions, entry point, stack pointer | `elf_init`, `rvstate_init` | `Elf`, `Boot` |
| Printing | `src/asm/context.c`, `src/repr.c`, `src/traceback.c` | none | formatting | not modelled |

`main()` loads the file (`elf_init`), makes a hart (`rvstate_init`), registers
one breakpoint, and loops: `rvemu_step`, then `rvbkpt_poll`. A step fetches
through the region table, decodes, checks the breakpoints against the decoded
instruction, executes it, and moves the pc. A breakpoint that fired hands
control to `bkpt_user_loop`, whose `step` command calls `rvemu_step` itself. A
step that suspended the hart is seen by the next one, which returns false and
ends the loop. `rvtrbk_fatal` traps and ends the process from anywhere.

Nothing runs concurrently and nothing is persisted. What is hard here is
machine arithmetic (every address, break and offset is a u32 that may wrap),
the order of things inside one step (x0 cleared before the fetch, breakpoints
checked before and polled after the instruction), the flags of the breakpoint
table over sequences of adds, checks and polls, the ways a step may end and who
notices, and the many shifts and masks of the decoder. `PROJECT.json` lists
each hazard at its line, with the properties that cover it.

What makes each component correct:

- the hart: whatever the program does, registers and pc hold machine words, an
  even pc never becomes odd, and a suspended hart executes nothing;
- memory: a store changes the bytes it names and no other, and a load puts each byte
  of memory where it belongs, whatever the width and the register file;
- the arithmetic: results are those of the instruction set's definitions;
- the break: it stays in the heap's reserve and the guest is told where it is;
- the breakpoints: a reported trigger concerns the last instruction, matching
  instructions are not missed, registrations are neither lost nor altered;
- the loader: what it lets pass is a complete hart, with one heap and one stack in
  the last two regions; a well-formed file is never refused, and becomes a table
  of disjoint regions that hold its bytes and a stack pointer inside the stack;
- all of it to the guest: a hart of the instruction set with one flat memory;
- the session: the first execution of the instruction at the breakpoint stops the
  run, once, and the user is asked before the next instruction;
- the decoder: no bit of a word is lost, misplaced or read two ways.

## The modules

| Module | What it is |
|---|---|
| `Words` | u8, u32 and i32: wrap-around, sign, little-endian bytes. `ByteMod` is 256 in the program; with 2, a word has sixteen values and all carries still happen |
| `Memory` | the region table, `elf_vma_to_mem`, dereferencing the pointer it returns |
| `Operations` | the names of the register-register instructions and the operands on which the host's division traps |
| `Bits` | powers of two and the bits of machine integers |
| `Alu` | what those instructions compute |
| `AluUnit` | one operation on any operands, and what its result must be |
| `InsnSet` | the decoded instructions, and what `Hart` assumes of its decoder and its arithmetic |
| `Hart` | the state, the fetch, and how a step ends that executes nothing |
| `BaseInsns` | RV32I and the M extension, one action per group of instructions |
| `Syscalls` | the system calls |
| `FloatOps`, `FloatInsns` | the floating-point instructions, grouped as the switches of `rvemu_dispatch` group them |
| `Emulator` | `rvemu_step` over all of these, and the properties |
| `Isa` | the abstract specification `Emulator` implements: registers, a flat memory, a pc |
| `Bkpt` | the table and its three functions |
| `BkptApi` | the table under any caller, with history variables |
| `Main` | `Emulator` and `Bkpt` composed by the loop of `main()` and its prompt |
| `Session` | the abstract specification `Main` implements |
| `Elf` | `elf_init`: header, sections, segments, heap and stack |
| `Boot` | what `main()` does before its loop, around `Elf`, and the properties of the loader |
| `Decoder` | `rvdec_insn` as a table of patterns and the fields of each format, from the bit-fields of a word |
| `Decoding` | one call of `rvdec_insn` on any word, and what it must return, against the formats' layout bit by bit |
| `MC*` | small instances for TLC |
| `WordTheorems`, `BkptTheorems` | lemmas about words, bytes and bits, and about the breakpoint table |
| `EmulatorProofs`, `IsaProofs`, `BkptProofs`, `MainProofs`, `InsnProofs`, `BootProofs` | theorems and proofs |

How they build on each other: `Words` < `Operations` < `InsnSet`; `Memory`, `InsnSet` < `Hart` < `BaseInsns`, `Syscalls`,
`FloatInsns` < `Emulator`; `Main` extends `Emulator` and `Bkpt`; `Boot` extends `Elf`
and takes an `INSTANCE` of `Memory` on the table it built, so that the loader and the
hart speak of one translation.

`Emulator` takes the decoder (`Decode`), the arithmetic (`Compute`), the regions
and the images of memory as constants, so that the theorems about it hold for
all of them. `MCEmulator` gives it `Alu`'s `Execute` and a decoder that maps each
of the sixteen words to one instruction; `InsnProofs` proves that the program's own
decoder (`RvdecWord`, from the 32 bits of a word to its `insn_t`) and its own
arithmetic (`Execute`) are among those that `Emulator` may be given.

How `Emulator` corresponds to the code:

- One action is one call of `rvemu_step`. `X` is the register file after line 82
  of `emu.c` cleared x0: a write to x0 is visible in `regs` until the next step,
  as it is in the program's dump, and never read.
- `host` is what has become of the emulator's own process: `trapped` after
  `rvtrbk_fatal`, `sigfpe` after a division the host has no result for,
  `undefined` after control reached `__builtin_unreachable` or a store left its
  buffer. No step follows any of them.
- A read past the end of a region's buffer yields any bytes (`LoadValues`); a
  write there either changes no guest byte or breaks the host's heap
  (`ExecStoreOverrun`).
- A floating-point register is two words; a single is boxed in ones (`Boxed`). What
  arithmetic computes is any member of `FloatResults`. Which instructions execute, do
  nothing (`ExecFloatIgnored`) or run into undefined behaviour (`FloatUnreachable`)
  depends on `funct`, as in the code.
- The host's `write` and `fstat` may fail or succeed with any result they can have.
- Instructions without an effect on the hart (ebreak) still move the pc, and those
  that suspend it (fence, exit, an unknown call) do so after moving it.

How `Isa` relates to `Emulator` (`TheIsa`, `IsaKept`): `x` is the register file an
instruction reads (`X`), `flat` the guest byte at each mapped address (`Flat`),
`status` what has become of the hart and the process. `Isa` has no table, only
the sets of addresses that hang together (`Chunks`): an access reaches from its
first address as far as its chunk does, a byte it reads beyond is any byte, and what it
writes beyond is lost or ends the process. It dies only of what `Wrong` lists. The
floating-point registers and the break are hidden; what comes out of them is any
word. `Isa` is written from what each instruction means, so that it shares neither
the groups nor the operators of `BaseInsns` with the model it is compared to.

How `Elf` and `Boot` correspond to the code:

- `phase` is where `main()` is: one action per test, per header read, and per
  allocation of the break. `bp = 0` is the only sign of a failure, as in the code.
- A file is its bytes and what `elf_init` reads out of them. `inside` says that the
  tables of headers and names lie in the file; unless they do, the loader may crash
  (`WildRead`), since nothing checks it.
- The copy of a segment that leaves the file's buffer or the region's
  (`CopyOverruns`) may end the process (`OverrunSegment`) or copy anything
  (`SegmentBytes`).
- The two slots for the heap and the stack are counted by `SegmentsRead`, filled or
  not.

A `Bkpt` event's instruction condition is the set of instructions its mask and
comparand select. `Main` composes by conjunction: a step that dispatches an
instruction is `Dispatch(i) /\ CheckInsn(i, pc)`, with the pc before it.

## The runs

| Run | Shows |
|---|---|
| `boot` | 17000 files: the loader's properties, `OnlyOpeningFails`, that nothing in a well-formed file ends the program, and `WellFormedLoads`, that it comes to a hart |
| `memory` | loads and stores of all widths, crossing the ends of four regions, from an odd entry point, and brk with a heap whose end wraps around: `StoreIsFlat`, `LoadIsFlat`, `BreakInReserve`, `BrkReportsTheBreak`, the refinement `IsaKept` |
| `float` | the same for the floating-point registers, boxed singles and doubles that cross the ends of regions: `TypeOK`, `StoreIsFlat`, `LoadIsFlat`, `IsaKept` |
| `syscall` | loops over all system calls: `BreakInReserve`, `BrkReportsTheBreak`, `IsaKept` |
| `alu` | all operations on all pairs of four-bit words, against definitions bit by bit or by equation: `DivisionsSolve`, `ShiftsMoveBits`, `ComparisonsAgree`, `ProductSplits`, `BitsAddUp` |
| `bkpt` | any order of add, check and poll on two slots: `TriggersAreFresh`, `NoTwoMisses`, `RegistrationsKept` |
| `main` | loop and prompt, over arithmetic, branches, jumps and every way to stop: `EvenStaysEven`, `ArmedUntilReached`, the refinements `SessionKept` and `IsaKept`, the liveness property `SuspensionEnds` |
| `decoder` | all function codes of all opcodes against a layout given bit by bit: `FieldsInPlace`, `ImmediatesAreSigned`, `OneInstruction`, `OffsetsEven` |

Four runs show the code doing other than what it says; their counterexamples are
the findings in `PROJECT.json`:

- `alu_mulh`: MULH zero-extends its operands (`dispatch.c:297`), so it is MULHU.
- `bkpt_handled`: the check clears a trigger without comparing even if it was
  handled, against the comment at `bkpt.c:36`. `NoTwoMisses` says how bad it gets.
- `main_hit`: "Breakpoint hit at" prints the pc after the instruction.
- `decoder_unreachable`: `rvemu_dispatch` selects the precision on a field that holds
  function bits and the rounding mode, so that most floating-point arithmetic reaches
  `__builtin_unreachable`; the comparisons, FMIN and FMAX silently do nothing.
  The precision of a multiply-add, bits 25 and 26 of its word, is not in the decoded
  instruction at all.

Three more things can be seen in the model without a run. No word decodes to FCVT_x_WU,
since `insn/r_ty.c:49` names the signed conversion. An slli with function bits set
reaches `__builtin_unreachable` in the decoder itself (`insn/i_ty.c:52`), where srli
and srai report a diagnostic: `Decoder` gives it UNREACHABLE, and `Isa` allows the run to
end. A division by zero, or of the least integer by -1, ends the emulator with SIGFPE
(`ExecDivTrap`); no document here says what it should give.

### Bounds

- Words have sixteen values (`ByteMod = 2`). All wrap-arounds, sign changes and
  boundary crossings happen: an offset of -4 wraps, an immediate of -3 borrows, an
  access runs past the end of its region and of the address space. System call numbers, the shift of upper immediates
  and the size of a `struct stat` are scaled down with it; the theorems hold for the
  program's own values.
- There are two tables of regions. That of `syscall`, `float` and `main` ends one byte
  below the top of the address space, with the heap in the middle, so that a
  break can be below, inside, at the end of and above it. In that of `memory` the heap
  is the last address there is: its end wraps around to zero, so that it contains no
  address and brk refuses every break, the stack is at zero, and the code starts, as
  the pc does, at an odd address. `boot` has files whose heap ends there too.
- Programs are three words of code, since region 1 is twelve bytes. Every first
  and second word is tried in `memory`, `float`, `syscall` and `main`; the last is one of
  a few, mostly jumps back, so that runs are unbounded loops and not straight
  lines. Self-modification makes more programs from these.
- `float` uses the function codes of real words, with one exception: an FEQ with the
  function code of a single, which no word decodes to (`decoder_unreachable`), so that
  the part of `rvemu_dispatch` that would compare is exercised too.
- `boot` has files of four bytes in the same sixteen addresses, with headers, heap and
  stack of two bytes each. Every pair of twenty-two segments, every triple of four
  short ones and ten lists of sections are tried: segments that overlap, wrap around,
  lie outside the file, are empty, or have more in the file than in memory; breaks
  before, between, behind and far behind them, and at zero.
- Two breakpoint slots and four requests make the table full, contended and reused.
- `decoder` uses five settings of the register fields that between them set and clear
  each bit, all 1024 function codes, the eighteen opcodes it knows and three others.

No counter is bounded by a guard: all state spaces are finite by themselves.

### Fairness

`Main` assumes weak fairness of its loop, since the process runs, and of
`UserContinue`: standard input ends or says `c` at last. With a user who steps
forever the prompt never ends, and neither does the program. `Boot` assumes weak
fairness of all it does, since it waits for nothing: an end of the process that is
possible is a step too, and `WellFormedLoads` holds because a well-formed file
leaves none but those of the disassembly file, which comes after the hart is made. Nothing is assumed of
the guest: a guest may loop forever, and `SuspensionEnds` does not say otherwise.

## What is proved

For all constants that satisfy the named assumptions (`ByteModAssumption`,
`RegionsAssumption`, `MachineAssumption`, `DecodeAssumption`, `AluAssumption`,
`SlotsAssumption`, `RequestsAssumption`, `EntryBreakAssumption`, `ElfAssumption`,
`XLenAssumption`, `SamplesAssumption`), so for 32-bit words, all programs and all files:

- `EmulatorProofs`: `TypeOK` and `BreakInReserve` are invariants, and their conjunction
  `IInv` is inductive: the break stays in the reserve because `BrkArithmetic`
  shows that the u32 sum of `syscall.c:46` is the distance of the new break from
  the base, which needs that the old break was in the reserve, and the type of
  both. `BrkReportsTheBreak` follows from the same lemma at each step. So does
  `EvenStaysEven`, that no step makes an even pc odd: offsets are even words, jalr
  clears bit 0, and `WordMod` is even. It is a property of steps and not of states
  because nothing in `elf.c` or `emu.c` checks `e_entry`: of the entry point no more is
  assumed than that it is a word, and an odd one stays odd up to the first jalr.
- `FlatStores` and `LoadsAreFlat`: on a table whose regions contain no common address
  (`RegionsDisjoint`), `StoreIsFlat` and `LoadIsFlat`, for integer and floating-point
  accesses alike. `SpanTranslation` carries both: the bytes of an access that fits are
  translated by the region of the first. Loads need besides that the bytes of a word
  are those it was made of (`BytesOfFour`) and that sign extension fills bytes with
  the sign (`SignFills`). Where regions overlap both are false, since the first region
  shadows the others.
- `IsaProofs`: `ImplementsIsa`, again on disjoint regions: every run of `Emulator` is
  one of `Isa`. `ReachedCell` says that two addresses hang together in a chunk just
  when the second is reached by the pointer of the first; from it follow that reads,
  writes and the instructions that may be fetched are the same on both sides; then
  there is one lemma per group of instructions and one for each end of a run.
- `BkptProofs`: type correctness, `TriggersAreFresh`, `NoTwoMisses` and
  `RegistrationsKept`. The inductive invariant adds to them that an event that just
  missed is not triggered, and that an inactive slot missed nothing.
- `MainProofs`: `MainTypeOK`, `EvenStaysEven` and `ArmedUntilReached` in the composition, and
  `ImplementsSession`, the safety part of `SessionKept`. `MainImplementsIsa`: on disjoint
  regions the guest sees the hart of `Isa` under the debugger too, as every step of
  the loop is one of `Emulator` or leaves the hart alone. `MainInv` is `IInv`, which
  every call of `rvemu_step` keeps, whoever makes it; `TableInv`, that no slot but the
  first is ever used and what its conditions are; and `StageInv`, what `active` and
  `triggered` say in each phase of the loop.
- `BootProofs`: `TypeOK`, `HartHasReserves`, `TableIsDisjoint`, `ImageIsTheFile`,
  `StackPointerInStack` and `OnlyOpeningFails`. The inductive invariant follows the
  table through the phases: its first regions are copies of different segments among
  those read so far (`IsSource`), each of which that was not skipped has one, and when
  `bp` is set the last two are the heap and the stack (`Complete`). `Survives` is added
  for `OnlyOpeningFails`, the safety part of `WellFormedLoads`: with a well-formed file
  no section that was read has lost the break. `DisjointRegions` is what the theorems
  above assume as `RegionsDisjoint`, and `ReservesPlaced` gives what `Memory` and `Hart`
  assume of the table, the image, the stack pointer and the entry point, which is the
  file's `e_entry`, odd or even.
- `InsnProofs`, of the arithmetic, for every word size and all operands:
  `DivisionsSolve`, `ShiftsMoveBits`, `ComparisonsAgree`, `ProductSplits` and
  `BitsAddUp`. C's truncating division is reduced to that of the magnitudes
  (`DivisionSolves`), and `DivisionFits` says that the overflow of the least integer
  by -1, on which the host traps, is the only one. A conversion to u32 keeps the bits
  a word has (`BitsOfWrap`), and bits above the highest are its sign (`BitAbove`), so the
  shifts are known bit by bit. That &, | and ^ add up is proved from their lowest bits
  upwards (`BitsAddUpBelow`).
- `InsnProofs`, of the decoder, for every word: `FieldsInPlace`, `ImmediatesAreSigned`,
  `OneInstruction` and `OffsetsEven`. The pieces of an immediate are numbers of so many
  bits each, joined (`Join`), and a bit of the whole is a bit of one piece (`BitOfJoin`);
  `SIGNEXT` keeps the bits and repeats the highest (`BitOfSignExtended`). From these
  there is one lemma per format. `OneInstruction` groups the instructions by opcode
  (`GroupOpcode`, `GroupsApart`) and tells those of a group apart by their function
  bits (`GroupDistinct`). `BaseOfKeepsBits` ties all of it to the 32 bits fetched.
- What `Hart` assumes of its parameters holds of the program's: `DecoderDecodes` is
  `DecodeAssumption` for `RvdecWord`, with bytes of eight bits and 32 registers, and
  `ExecuteComputesWords` is `AluAssumption` for `Execute`.
- `WordTheorems` and `BkptTheorems`: the facts that these use. Induction over the
  powers of two and over the bits of a word goes by a set of numbers that holds zero and
  is closed under successor (`SetInduction`), so that no theorem takes an operator as
  a parameter; the set is named at each use.

Each of these properties of the arithmetic and of the decoder is about what one call
returns, so their invariants are short: `AluInv` and `DecodingInv` say that the
result, once there is one, is what the code computes from operands of the right
types. The work is in the lemmas.

Only model-checked is what needs fairness or ENABLED, which is out of the prover's
reach: `SuspensionEnds`, `WellFormedLoads` and the liveness of `Session`. The four
findings are counterexamples, not theorems.

## What is not modelled, and why

- The arithmetic of floating-point numbers: what it computes is left open. The third
  source register of the multiply-adds is one of the things this makes irrelevant.
- Disassembly, dumps and debug output: formatting. Two things a reader of the output
  should know: the dump prints `pc - 4` (`traceback.c:24`), which after a jump is not
  the instruction executed last, and the debug message at `main.c:147` names the
  entry point while the breakpoint is at 0x10954. `rvasm_emit` names rd where an integer
  store has rs2, and a floating-point register where FL and FS have an integer one.
- CSR and compressed instructions: no word is dispatched to them.
- Signals, `printf` buffering and exhausted host memory, so neither the allocations
  that are checked nor the two that are not (`elf.c:253`, `elf.c:258`).

Divergences seen while modelling that no run is about, since nothing of the model
depends on them:

- `elf_init` copies segments of every type; the debug text at `elf.c:203` calls the
  skipped ones non-LOAD, but the test is of `p_memsz`.
- It accepts headers of 64-bit, big-endian and other machines' files (`ReadHeader`).
- An odd `e_entry` makes a hart with an odd pc: nothing checks it. The model takes it as
  it is, and `memory` starts from one.
- `-S` ("Output disassembly to file", `main.c:19`) opens a file to which nothing is
  written, and the repository's `README.md` describes `-t`, which is not an option.

## The plan

Done: the hart, its memory, system calls, breakpoints and main loop; the decoder; the
loader and the start of `main()`; the abstract `Session` and `Isa` and that the
program implements them; the theorems above.

Left:

1. `Decoder` as the `Decode` of `Emulator`, on 32-bit words and a few fixed programs.
2. What the floating-point moves between signs and boxes compute (FSGNJ, FMIN, FMAX).
   No word that rvdec_insn accepts reaches them with a width `rvemu_dispatch` knows
   (`decoder_unreachable`), so this waits for the code.
3. That `Flat` and `Status` of a hart that `Boot` made are those `Isa` starts from, so that
   `DisjointRegions` and `ImplementsIsa` become one statement.
