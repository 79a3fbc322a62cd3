-------------------------------- MODULE Boot --------------------------------
(***************************************************************************)
(* What main() does before its loop (main.c:91-156): read the file, have   *)
(* elf_init build the context, refuse one without a stack, and make a hart *)
(* of it.  What is ready then is what Hart and Memory take as constants:   *)
(* the table of regions, the entry point and the top of the stack.         *)
(***************************************************************************)
EXTENDS Elf

VARIABLES
  pc, x2,      \* state->pc and state->regs[2]
  disasm       \* the disassembly file: "off", "requested" or "open"

vars == <<elfVars, pc, x2, disasm>>

Init ==
  /\ ElfInit
  /\ phase = "open"
  /\ pc = 0 /\ x2 = 0
  /\ disasm \in {"off", "requested"}

-----------------------------------------------------------------------------
\* fopen, calloc and fread
ReadFile ==
  /\ phase = "open" /\ phase' = "header"
  /\ UNCHANGED <<file, next, bss_start, bss_size, ctxVars, pc, x2, disasm>>

FileFails == phase = "open" /\ Dies /\ UNCHANGED <<pc, x2, disasm>>

Load == ElfStep /\ UNCHANGED <<pc, x2, disasm>>

\* "Failed to allocate stack/heap"
Refuse == phase = "returned" /\ bp = 0 /\ Dies /\ UNCHANGED <<pc, x2, disasm>>

\* rvstate_init
MakeHart ==
  /\ phase = "returned" /\ bp # 0
  /\ phase' = "state"
  /\ pc' = entry_point
  /\ x2' = sp
  /\ UNCHANGED <<file, next, bss_start, bss_size, ctxVars, disasm>>

\* rvasm_init, and the loop is next.
OpenDisasm ==
  /\ phase = "state"
  /\ phase' = "ready"
  /\ disasm' = IF disasm = "requested" THEN "open" ELSE disasm
  /\ UNCHANGED <<file, next, bss_start, bss_size, ctxVars, pc, x2>>

DisasmFails ==
  /\ phase = "state" /\ disasm = "requested"
  /\ Dies
  /\ UNCHANGED <<pc, x2, disasm>>

Next ==
  \/ ReadFile \/ FileFails \/ Load \/ Refuse \/ MakeHart
  \/ OpenDisasm \/ DisasmFails

\* Nothing waits: the process runs until the loop or its end.
Spec == Init /\ [][Next]_vars /\ WF_vars(Next)

-----------------------------------------------------------------------------
(***************************************************************************)
(* The memory the hart is given.                                           *)
(***************************************************************************)
Ready == phase \in {"state", "ready"}

\* elf_get_region_by_tag
Tagged(tag) == {i \in 1 .. nr_regions : load_regions[i].tag = tag}
RegionByTag(tag) == CHOOSE i \in Tagged(tag) : \A j \in Tagged(tag) : i <= j

\* The table and the memory as Memory and Hart take them.
Regions ==
  [i \in 1 .. nr_regions |->
     [vma_base    |-> load_regions[i].vma_base,
      sz_reserved |-> load_regions[i].sz_reserved]]

Table ==
  INSTANCE Memory
    WITH NRegions <- nr_regions, Regions <- Regions,
         Heap <- RegionByTag("HEAP")

Image == [c \in Table!Cells |-> load_regions[c[1]].bytes[c[2]]]

GuestByte(a) == Image[Table!CellOf(a)]

-----------------------------------------------------------------------------
(***************************************************************************)
(* Files that a linker makes: each segment comes from the file, no two     *)
(* share an address, and .bss ends behind all of them with room for the    *)
(* heap and the stack.                                                     *)
(***************************************************************************)
Loadable(f) == {k \in DOMAIN f.segments : f.segments[k].p_memsz # 0}

Spans(p) == p.p_vaddr .. p.p_vaddr + p.p_memsz - 1

BreakAt(f, s) ==
  LET top == s.sh_addr + s.sh_size
  IN  /\ \A k \in Loadable(f) : Spans(f.segments[k]) \subseteq 0 .. top - 1
      /\ top + HeapSize + StackSize < WordMod

WellFormed(f) ==
  /\ HeaderAccepted(f) /\ f.inside
  /\ \A k \in Loadable(f) :
       LET p == f.segments[k]
       IN  p.p_filesz <= p.p_memsz /\ p.p_offset + p.p_filesz <= Len(f.bytes)
  /\ \A j, k \in Loadable(f) :
       j # k => Spans(f.segments[j]) \cap Spans(f.segments[k]) = {}
  /\ \E k \in DOMAIN f.sections : IsBreak(f.sections[k])
  /\ \A k \in DOMAIN f.sections :
       IsBreak(f.sections[k]) => BreakAt(f, f.sections[k])

-----------------------------------------------------------------------------
(***************************************************************************)
(* Properties.                                                             *)
(***************************************************************************)
Tags == {"", "LOAD", "HEAP", "STACK"}

Buffers == UNION {[0 .. n - 1 -> Byte] : n \in Word}

LoadRegions ==
  {r \in [vma_base : Word, sz_reserved : Word, tag : Tags, bytes : Buffers] :
     DOMAIN r.bytes = 0 .. r.sz_reserved - 1}

TypeOK ==
  /\ file \in ElfFiles
  /\ phase \in {"open", "header", "sections", "segments", "break", "returned",
                "state", "ready", "dead"}
  /\ next \in Nat \ {0}
  /\ bss_start \in Word /\ bss_size \in Word
  /\ load_regions \in Seq(LoadRegions)
  /\ nr_regions \in Nat
  /\ entry_point \in Word /\ bp \in Word /\ sp \in Word
  /\ pc \in Word /\ x2 \in Word
  /\ disasm \in {"off", "requested", "open"}

\* A hart is made of a complete table only: whatever the file, the test of bp
\* (main.c:118) lets no context pass whose slots for the heap and the stack
\* (elf.c:188, 229) are missing, left unused, or not the last two, so that the
\* region brk moves in is the one and only heap.  What passes is what Memory
\* and Hart assume of their table, image, stack pointer and entry point: the
\* latter is the file's, whatever word that is.
HartHasReserves ==
  Ready =>
    /\ nr_regions = Len(load_regions)
    /\ Tagged("HEAP") = {nr_regions - 1} /\ Tagged("STACK") = {nr_regions}
    /\ Tagged("") = {}
    /\ Regions \in [1 .. nr_regions -> [vma_base : Word, sz_reserved : Word]]
    /\ RegionByTag("HEAP") \in 1 .. nr_regions
    /\ Image \in [Table!Cells -> Byte]
    /\ x2 = sp /\ x2 \in Word
    /\ pc = file.entry /\ pc \in Word

\* The regions of a well-formed file share no address, as StoreIsFlat needs:
\* the heap begins behind all data, and no sum on the way has wrapped around.
TableIsDisjoint ==
  Ready /\ WellFormed(file) =>
    \A i, j \in 1 .. nr_regions : \A a \in Word :
      Table!Contains(i, a) /\ Table!Contains(j, a) => i = j

\* What the guest reads at an address of a segment: the byte of the file, or
\* zero in the part that only memory has.
SegmentByte(f, p, a) ==
  LET k == a - p.p_vaddr
  IN  IF k < p.p_filesz THEN f.bytes[p.p_offset + k + 1] ELSE 0

\* The guest sees the file of which the hart was made: every byte of every
\* segment is at its address (elf.c:216-221), through whatever region that is
\* translated by, and all other memory there is reads as zero.
ImageIsTheFile ==
  Ready /\ WellFormed(file) =>
    \A a \in Word :
      /\ \A k \in Loadable(file) :
           LET p == file.segments[k]
           IN  a \in Spans(p) =>
                 Table!Mapped(a) /\ GuestByte(a) = SegmentByte(file, p, a)
      /\ Table!Mapped(a) /\ (\A k \in Loadable(file) : a \notin Spans(file.segments[k]))
           => GuestByte(a) = 0

\* The hart starts with its stack pointer in the stack and not, by an end that
\* is one too far, outside of all memory (elf.c:258, emu.c:16).
StackPointerInStack ==
  Ready /\ WellFormed(file) =>
    /\ Table!Mapped(x2)
    /\ Table!RegionOf(x2) = nr_regions
    /\ Table!OffsetOf(x2) = StackSize - 1

\* Nothing in a well-formed file ends the program: no copy leaves a buffer, the
\* break that one section gives is not lost to another (elf.c:168-183), nor is
\* the bp that is put behind it the zero by which main() tells an empty context
\* (main.c:118).  Only failing to read it, or to open the disassembly file, does.
OnlyOpeningFails ==
  [][phase' = "dead" /\ WellFormed(file) =>
       phase = "open" \/ (phase = "state" /\ disasm = "requested")]_vars

\* A well-formed file is never refused: from its first byte on, the loader gets
\* to the hart, past every header it skips.
WellFormedLoads == phase = "header" /\ WellFormed(file) ~> Ready
=============================================================================
