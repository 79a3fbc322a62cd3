--------------------------------- MODULE Elf ---------------------------------
(***************************************************************************)
(* elf_init (elf.c): the loader.  It checks the header, looks through the  *)
(* sections for the program break, copies each segment into a region of    *)
(* its own, and puts a heap and a stack behind the break.  The table it    *)
(* leaves is the one that Memory translates addresses by.                  *)
(***************************************************************************)
EXTENDS Words, Sequences

CONSTANTS
  Files,      \* what the file may hold
  EhdrSize,   \* sizeof (Elf32_Ehdr)
  HeapSize,   \* PROG_HEAP_SIZE
  StackSize   \* PROG_STACK_SIZE

\* A section and a segment, by the fields of their headers that are looked at;
\* bss says that the section's name is ".bss".
Sections == [sh_addr : Word, sh_size : Word, bss : BOOLEAN]
Segments == [p_offset : Word, p_vaddr : Word, p_filesz : Word, p_memsz : Word]

\* A file: its bytes, and what elf_init reads out of them.  Unless the tables
\* of headers and names are inside the file, what it reads is anything.
ElfFiles ==
  [bytes    : Seq(Byte),
   magic    : BOOLEAN,
   class    : {"NONE", "32", "64", "other"},
   data     : {"NONE", "LSB", "MSB", "other"},
   version  : {"NONE", "CURRENT", "other"},
   machine  : {"NONE", "RISCV", "other"},
   phoff    : Word,
   entry    : Word,
   sections : Seq(Sections),
   segments : Seq(Segments),
   inside   : BOOLEAN]

ASSUME ElfAssumption ==
  /\ Files \subseteq ElfFiles
  /\ EhdrSize \in Nat
  /\ HeapSize \in Word \ {0}
  /\ StackSize \in Word \ {0}

VARIABLES
  file,          \* the input file
  phase,         \* where main() is, elf_init's own phases included
  next,          \* the header that is read next (sh_idx, ph_idx; from 1)
  bss_start, bss_size,
  load_regions,  \* ctx->load_regions, as far as it is used
  nr_regions, entry_point, bp, sp   \* the rest of ctx

ctxVars  == <<load_regions, nr_regions, entry_point, bp, sp>>
elfVars  == <<file, phase, next, bss_start, bss_size, ctxVars>>

\* calloc
Zeroed(n) == [k \in 0 .. n - 1 |-> 0]

Unused == [vma_base |-> 0, sz_reserved |-> 0, tag |-> "", bytes |-> Zeroed(0)]

ElfInit ==
  /\ file \in Files
  /\ next = 1
  /\ bss_start = 0 /\ bss_size = 0
  /\ load_regions = <<>>
  /\ nr_regions = 0 /\ entry_point = 0 /\ bp = 0 /\ sp = 0

Dies == phase' = "dead" /\ UNCHANGED <<file, next, bss_start, bss_size, ctxVars>>

-----------------------------------------------------------------------------
(***************************************************************************)
(* The header.  Whatever is wrong with it, elf_init returns an empty       *)
(* context.  Neither a class of 64 bits, nor another byte order, nor the   *)
(* machine of another processor is wrong.                                  *)
(***************************************************************************)
HeaderAccepted(f) ==
  /\ Len(f.bytes) >= EhdrSize
  /\ f.magic
  /\ f.class \in {"32", "64"}
  /\ f.data \in {"LSB", "MSB"}
  /\ f.version = "CURRENT"
  /\ f.machine # "NONE"
  /\ f.phoff # 0

ReadHeader ==
  /\ phase = "header"
  /\ phase' = IF HeaderAccepted(file) THEN "sections" ELSE "returned"
  /\ UNCHANGED <<file, next, bss_start, bss_size, ctxVars>>

\* Header tables are not checked to be inside the file.
WildRead == phase \in {"sections", "segments"} /\ ~file.inside /\ Dies

-----------------------------------------------------------------------------
(***************************************************************************)
(* The sections: the last one named .bss counts.                           *)
(***************************************************************************)
IsBreak(s) == s.bss /\ s.sh_addr # 0

\* Mutant of ReadSection: a section of another name takes the break back.
TakeBreakBack ==
  /\ phase = "sections" /\ next <= Len(file.sections)
  /\ LET s == file.sections[next]
     IN  /\ bss_start' = IF IsBreak(s) THEN s.sh_addr ELSE 0
         /\ bss_size'  = IF IsBreak(s) THEN s.sh_size ELSE 0
  /\ next' = next + 1
  /\ UNCHANGED <<file, phase, ctxVars>>

ReadSection ==
  /\ phase = "sections" /\ next <= Len(file.sections)
  /\ LET s == file.sections[next]
     IN  /\ bss_start' = IF IsBreak(s) THEN s.sh_addr ELSE bss_start
         /\ bss_size'  = IF IsBreak(s) THEN s.sh_size ELSE bss_size
  /\ next' = next + 1
  /\ UNCHANGED <<file, phase, ctxVars>>

SectionsRead ==
  /\ phase = "sections" /\ next > Len(file.sections)
  /\ phase' = "segments" /\ next' = 1
  /\ UNCHANGED <<file, bss_start, bss_size, ctxVars>>

-----------------------------------------------------------------------------
(***************************************************************************)
(* The segments, of whatever type: p_type is not looked at.  The end of a  *)
(* segment in the file is a u32 sum, so one that wraps around passes for a *)
(* segment inside the file; and a segment may have more bytes in the file  *)
(* than in memory.                                                         *)
(***************************************************************************)
Skipped(f, p) ==
  p.p_memsz = 0 \/ Wrap(p.p_offset + p.p_filesz) > Len(f.bytes)

CopiedWhole(p) == p.p_memsz   \* mutant: as many bytes as the region has
Copied(p)      == p.p_filesz

\* What the region of a segment may hold after the memcpy: what is copied from
\* outside the file is anything.
SegmentBytes(f, p) ==
  {m \in [0 .. p.p_memsz - 1 -> Byte] :
     \A k \in 0 .. p.p_memsz - 1 :
       /\ k >= Copied(p) => m[k] = 0
       /\ k < Copied(p) /\ p.p_offset + k < Len(f.bytes) =>
            m[k] = f.bytes[p.p_offset + k + 1]}

\* The copy leaves the file's buffer, or the region's.
CopyOverruns(f, p) ==
  p.p_offset + p.p_filesz > Len(f.bytes) \/ p.p_filesz > p.p_memsz

AtSegment == phase = "segments" /\ next <= Len(file.segments)

\* Mutant of SkipSegment: a continue that does not advance.
SkipForever ==
  AtSegment /\ Skipped(file, file.segments[next]) /\ UNCHANGED elfVars

SkipSegment ==
  /\ AtSegment /\ Skipped(file, file.segments[next])
  /\ next' = next + 1
  /\ UNCHANGED <<file, phase, bss_start, bss_size, ctxVars>>

LoadSegment ==
  /\ AtSegment /\ ~Skipped(file, file.segments[next])
  /\ LET p == file.segments[next]
     IN  \E m \in SegmentBytes(file, p) :
           load_regions' =
             Append(load_regions,
                    [vma_base |-> p.p_vaddr, sz_reserved |-> p.p_memsz,
                     tag |-> "LOAD", bytes |-> m])
  /\ next' = next + 1
  /\ UNCHANGED <<file, phase, bss_start, bss_size, nr_regions, entry_point,
                 bp, sp>>

OverrunSegment ==
  /\ AtSegment
  /\ ~Skipped(file, file.segments[next])
  /\ CopyOverruns(file, file.segments[next])
  /\ Dies

\* Mutant of SegmentsRead: one slot is counted, as if for the stack alone.
OneSlotCounted ==
  /\ phase = "segments" /\ next > Len(file.segments)
  /\ phase' = "break"
  /\ load_regions' = load_regions \o <<Unused, Unused>>
  /\ nr_regions' = Len(load_regions) + 1
  /\ entry_point' = file.entry
  /\ UNCHANGED <<file, next, bss_start, bss_size, bp, sp>>

\* The slots for the heap and the stack are counted, used or not.
SegmentsRead ==
  /\ phase = "segments" /\ next > Len(file.segments)
  /\ phase' = "break"
  /\ load_regions' = load_regions \o <<Unused, Unused>>
  /\ nr_regions' = Len(load_regions) + 2
  /\ entry_point' = file.entry
  /\ UNCHANGED <<file, next, bss_start, bss_size, bp, sp>>

-----------------------------------------------------------------------------
(***************************************************************************)
(* The heap behind the break, and the stack behind the heap.               *)
(***************************************************************************)
NoBreak ==
  /\ phase = "break" /\ bss_start = 0
  /\ phase' = "returned"
  /\ UNCHANGED <<file, next, bss_start, bss_size, ctxVars>>

HeapBaseAtBss == bss_start              \* mutant: the heap starts where .bss does
HeapBaseWide  == bss_start + bss_size   \* mutant: wider than u32
HeapBase      == Wrap(bss_start + bss_size)
StackBase     == Wrap(HeapBase + HeapSize)
StackEnd      == Wrap(StackBase + StackSize)       \* mutant of StackTop: off by one
StackTop      == Wrap(StackBase + StackSize - 1)

Reserve(base, size, tag) ==
  [vma_base |-> base, sz_reserved |-> size, tag |-> tag, bytes |-> Zeroed(size)]

PlaceBreak ==
  /\ phase = "break" /\ bss_start # 0
  /\ phase' = "returned"
  /\ load_regions' =
       [load_regions EXCEPT
          ![nr_regions - 1] = Reserve(HeapBase, HeapSize, "HEAP"),
          ![nr_regions]     = Reserve(StackBase, StackSize, "STACK")]
  /\ bp' = StackBase
  /\ sp' = StackTop
  /\ UNCHANGED <<file, next, bss_start, bss_size, nr_regions, entry_point>>

ElfStep ==
  \/ ReadHeader  \/ WildRead    \/ ReadSection    \/ SectionsRead
  \/ SkipSegment \/ LoadSegment \/ OverrunSegment \/ SegmentsRead
  \/ NoBreak     \/ PlaceBreak
=============================================================================
