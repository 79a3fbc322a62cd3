----------------------------- MODULE BootProofs -----------------------------
(***************************************************************************)
(* What holds of the loader for every file and every width of a byte.  The *)
(* inductive invariant follows the table through the phases of elf_init:   *)
(* its first regions are copies of the segments read so far, each of       *)
(* another one, and once there is a break its last two are the reserves.   *)
(***************************************************************************)
EXTENDS Boot, WordTheorems

\* r is what LoadSegment makes of the segment p of f.
IsCopy(f, r, p) ==
  /\ ~Skipped(f, p)
  /\ r.vma_base = p.p_vaddr /\ r.sz_reserved = p.p_memsz /\ r.tag = "LOAD"
  /\ r.bytes \in SegmentBytes(f, p)

\* The first n regions of rs are copies of different segments before the m-th,
\* and each of these that was not skipped has one.
IsSource(f, rs, n, m, src) ==
  /\ src \in [1 .. n -> 1 .. m - 1]
  /\ \A i, j \in 1 .. n : i # j => src[i] # src[j]
  /\ \A i \in 1 .. n : IsCopy(f, rs[i], f.segments[src[i]])
  /\ \A k \in 1 .. m - 1 :
       Skipped(f, f.segments[k]) \/ \E i \in 1 .. n : src[i] = k

FromSegments(f, rs, n, m) == \E src : IsSource(f, rs, n, m, src)

Complete ==
  /\ nr_regions = Len(load_regions) /\ nr_regions >= 2
  /\ FromSegments(file, load_regions, nr_regions - 2, Len(file.segments) + 1)
  /\ load_regions[nr_regions - 1] = Reserve(HeapBase, HeapSize, "HEAP")
  /\ load_regions[nr_regions] = Reserve(StackBase, StackSize, "STACK")
  /\ bp = StackBase /\ sp = StackTop /\ bss_start # 0
  /\ entry_point = file.entry

\* The break is one that the file names.
BreakNamed ==
  bss_start # 0 =>
    \E k \in 1 .. Len(file.sections) :
      /\ IsBreak(file.sections[k])
      /\ bss_start = file.sections[k].sh_addr
      /\ bss_size = file.sections[k].sh_size

PhaseInv ==
  /\ phase \in {"open", "header", "sections"} => load_regions = <<>> /\ bp = 0
  /\ phase = "segments" =>
       /\ next \in 1 .. Len(file.segments) + 1
       /\ FromSegments(file, load_regions, Len(load_regions), next)
       /\ bp = 0
  /\ phase = "break" =>
       /\ nr_regions = Len(load_regions) /\ nr_regions >= 2
       /\ FromSegments(file, load_regions, nr_regions - 2, Len(file.segments) + 1)
       /\ bp = 0 /\ entry_point = file.entry
  /\ phase \in {"returned", "state", "ready"} /\ bp # 0 => Complete
  /\ Ready => bp # 0 /\ x2 = sp /\ pc = entry_point

IInv == TypeOK /\ BreakNamed /\ PhaseInv

-----------------------------------------------------------------------------
(***************************************************************************)
(* Types.                                                                  *)
(***************************************************************************)
LEMMA FileType ==
  ASSUME TypeOK
  PROVE  /\ file.bytes \in Seq(Byte)
         /\ file.sections \in Seq(Sections) /\ file.segments \in Seq(Segments)
         /\ file.entry \in Word
         /\ \A k \in 1 .. Len(file.sections) : file.sections[k] \in Sections
         /\ \A k \in 1 .. Len(file.segments) : file.segments[k] \in Segments
BY DEF TypeOK, ElfFiles

LEMMA ZeroedType ==
  ASSUME NEW n \in Word
  PROVE  Zeroed(n) \in [0 .. n - 1 -> Byte]
BY ByteModAssumption DEF Zeroed, Byte

\* A buffer of the size of its region makes a region of the table.
LEMMA RegionType ==
  ASSUME NEW base \in Word, NEW n \in Word, NEW tag \in Tags,
         NEW m \in [0 .. n - 1 -> Byte]
  PROVE  [vma_base |-> base, sz_reserved |-> n, tag |-> tag, bytes |-> m]
           \in LoadRegions
<1>1. m \in Buffers
  BY DEF Buffers
<1> QED
  BY <1>1 DEF LoadRegions

LEMMA UnusedType == Unused \in LoadRegions
<1>1. 0 \in Word
  BY ModuliType DEF Word
<1> QED
  BY <1>1, ZeroedType, RegionType DEF Unused, Tags

LEMMA BasesType ==
  ASSUME TypeOK
  PROVE  HeapBase \in Word /\ StackBase \in Word /\ StackTop \in Word
<1>1. HeapSize \in Int /\ StackSize \in Int
  BY ElfAssumption DEF Word
<1>2. bss_start \in Int /\ bss_size \in Int
  BY DEF TypeOK, Word
<1>3. HeapBase \in Word
  BY <1>2, WrapType DEF HeapBase
<1>4. StackBase \in Word
  BY <1>1, <1>3, WrapType DEF StackBase, Word
<1> QED
  BY <1>1, <1>3, <1>4, WrapType DEF StackTop, Word

-----------------------------------------------------------------------------
(***************************************************************************)
(* The steps.                                                              *)
(***************************************************************************)
LEMMA InitInv == Init => IInv
<1> SUFFICES ASSUME Init PROVE IInv
  OBVIOUS
<1>1. 0 \in Word
  BY ModuliType DEF Word
<1>2. TypeOK
  BY <1>1, ElfAssumption DEF Init, ElfInit, TypeOK
<1> QED
  BY <1>2 DEF Init, ElfInit, IInv, BreakNamed, PhaseInv, Ready

\* The end of the process keeps everything but the phase.
LEMMA DiesInv ==
  ASSUME IInv, Dies, UNCHANGED <<pc, x2, disasm>>
  PROVE  IInv'
<1>1. TypeOK'
  BY DEF IInv, Dies, TypeOK, ctxVars
<1>2. BreakNamed'
  BY DEF IInv, Dies, BreakNamed, IsBreak
<1> QED
  BY <1>1, <1>2 DEF Dies, IInv, PhaseInv, Ready

\* So does a step from one phase to the next that has the same to show.
LEMMA FrameInv ==
  ASSUME IInv, UNCHANGED <<file, bss_start, bss_size, ctxVars>>
  PROVE  BreakNamed' /\ (Complete => Complete')
BY DEF IInv, BreakNamed, IsBreak, Complete, HeapBase, StackBase, StackTop,
       Reserve, ctxVars

\* Between the file and the sections: nothing is read yet.
LEMMA HeaderInv ==
  ASSUME IInv,
         \/ ReadFile
         \/ ReadHeader /\ UNCHANGED <<pc, x2, disasm>>
  PROVE  IInv'
<1>1. /\ phase \in {"open", "header"}
      /\ phase' \in {"header", "sections", "returned"}
      /\ UNCHANGED <<file, next, bss_start, bss_size, ctxVars, pc, x2, disasm>>
  BY DEF ReadFile, ReadHeader
<1>2. TypeOK'
  BY <1>1 DEF IInv, TypeOK, ctxVars
<1>3. load_regions' = <<>> /\ bp' = 0
  BY <1>1 DEF IInv, PhaseInv, ctxVars
<1>4. BreakNamed'
  BY <1>1, FrameInv
<1> QED
  BY <1>1, <1>2, <1>3, <1>4 DEF IInv, PhaseInv, Ready

\* The last .bss read is the break.
LEMMA SectionInv ==
  ASSUME IInv, ReadSection, UNCHANGED <<pc, x2, disasm>>
  PROVE  IInv'
<1> DEFINE s == file.sections[next]
<1>1. /\ next \in 1 .. Len(file.sections) /\ s \in Sections
      /\ phase = "sections" /\ phase' = "sections"
  BY FileType DEF IInv, TypeOK, ReadSection
<1>2. BreakNamed'
  <2>1. CASE IsBreak(s)
    BY <1>1, <2>1 DEF ReadSection, BreakNamed, IsBreak
  <2>2. CASE ~IsBreak(s)
    BY <2>2 DEF IInv, ReadSection, BreakNamed, IsBreak
  <2> QED
    BY <2>1, <2>2
<1>3. TypeOK'
  BY <1>1 DEF IInv, TypeOK, ReadSection, Sections, ctxVars
<1>4. load_regions' = <<>> /\ bp' = 0
  BY <1>1 DEF IInv, PhaseInv, ReadSection, ctxVars
<1> QED
  BY <1>1, <1>2, <1>3, <1>4 DEF IInv, PhaseInv, Ready

\* No segment is read yet, and no region is there.
LEMMA SectionsReadInv ==
  ASSUME IInv, SectionsRead, UNCHANGED <<pc, x2, disasm>>
  PROVE  IInv'
<1>1. phase = "sections" /\ phase' = "segments" /\ next' = 1
  BY DEF SectionsRead
<1>2. TypeOK'
  BY <1>1 DEF IInv, TypeOK, SectionsRead, ctxVars
<1>3. BreakNamed'
  BY FrameInv DEF SectionsRead
<1>4. load_regions' = <<>> /\ bp' = 0 /\ Len(load_regions') = 0
  BY <1>1 DEF IInv, PhaseInv, SectionsRead, ctxVars
<1>5. FromSegments(file', load_regions', Len(load_regions'), next')
  <2> DEFINE src == [i \in 1 .. 0 |-> i]
  <2>1. IsSource(file', load_regions', 0, 1, src)
    BY DEF IsSource
  <2> QED
    BY <1>1, <1>4, <2>1 DEF FromSegments
<1>6. next' \in 1 .. Len(file'.segments) + 1
  BY <1>1, <1>2, FileType DEF SectionsRead, IInv
<1> QED
  BY <1>1, <1>2, <1>3, <1>4, <1>5, <1>6 DEF IInv, PhaseInv, Ready

\* A skipped segment needs no region.
LEMMA SkipInv ==
  ASSUME IInv, SkipSegment, UNCHANGED <<pc, x2, disasm>>
  PROVE  IInv'
<1>1. /\ phase = "segments" /\ phase' = "segments" /\ next' = next + 1
      /\ next \in 1 .. Len(file.segments)
      /\ Skipped(file, file.segments[next])
      /\ UNCHANGED <<file, bss_start, bss_size, ctxVars>>
  BY DEF SkipSegment, AtSegment, IInv, TypeOK
<1>2. TypeOK'
  BY <1>1 DEF IInv, TypeOK, ctxVars
<1>3. BreakNamed'
  BY <1>1, FrameInv
<1>4. FromSegments(file, load_regions, Len(load_regions), next + 1)
  <2>1. PICK src : IsSource(file, load_regions, Len(load_regions), next, src)
    BY <1>1 DEF IInv, PhaseInv, FromSegments
  <2>2. IsSource(file, load_regions, Len(load_regions), next + 1, src)
    BY <1>1, <2>1 DEF IsSource
  <2> QED
    BY <2>2 DEF FromSegments
<1>5. next + 1 \in 1 .. Len(file.segments) + 1
  BY <1>1
<1>6. bp' = 0 /\ load_regions' = load_regions
  BY <1>1 DEF IInv, PhaseInv, ctxVars
<1> QED
  BY <1>1, <1>2, <1>3, <1>4, <1>5, <1>6 DEF IInv, PhaseInv, Ready

\* A segment that is loaded is the source of the region appended for it.
LEMMA LoadInv ==
  ASSUME IInv, LoadSegment, UNCHANGED <<pc, x2, disasm>>
  PROVE  IInv'
<1> DEFINE n == Len(load_regions)
           p == file.segments[next]
<1>1. /\ phase = "segments" /\ phase' = "segments" /\ next' = next + 1
      /\ next \in 1 .. Len(file.segments)
      /\ ~Skipped(file, p) /\ p \in Segments
      /\ UNCHANGED <<file, bss_start, bss_size, nr_regions, entry_point, bp, sp>>
  BY FileType DEF LoadSegment, AtSegment, IInv, TypeOK
<1>2. PICK m \in SegmentBytes(file, p) :
        load_regions' =
          Append(load_regions,
                 [vma_base |-> p.p_vaddr, sz_reserved |-> p.p_memsz,
                  tag |-> "LOAD", bytes |-> m])
  BY DEF LoadSegment
<1> DEFINE r == [vma_base |-> p.p_vaddr, sz_reserved |-> p.p_memsz,
                 tag |-> "LOAD", bytes |-> m]
<1>3. r \in LoadRegions
  <2>1. m \in [0 .. p.p_memsz - 1 -> Byte]
    BY <1>2 DEF SegmentBytes
  <2>2. p.p_vaddr \in Word /\ p.p_memsz \in Word /\ "LOAD" \in Tags
    BY <1>1 DEF Segments, Tags
  <2> HIDE DEF p
  <2> QED
    BY <2>1, <2>2, RegionType
<1>4. load_regions \in Seq(LoadRegions)
  BY DEF IInv, TypeOK
<1>5. IsCopy(file, r, p)
  BY <1>1, <1>2 DEF IsCopy
<1> HIDE DEF r
<1>6. /\ load_regions' \in Seq(LoadRegions) /\ Len(load_regions') = n + 1
      /\ load_regions'[n + 1] = r
      /\ \A i \in 1 .. n : load_regions'[i] = load_regions[i]
  BY <1>2, <1>3, <1>4 DEF r
<1>7. TypeOK'
  BY <1>1, <1>6 DEF IInv, TypeOK
<1>8. BreakNamed'
  BY <1>1 DEF IInv, BreakNamed, IsBreak
<1>9. FromSegments(file, load_regions', n + 1, next + 1)
  <2>1. PICK src : IsSource(file, load_regions, n, next, src)
    BY <1>1 DEF IInv, PhaseInv, FromSegments
  <2> DEFINE new == [i \in 1 .. n + 1 |-> IF i = n + 1 THEN next ELSE src[i]]
  <2>2. n \in Nat /\ src \in [1 .. n -> 1 .. next - 1]
    BY <1>4, <2>1 DEF IsSource
  <2>3. new \in [1 .. n + 1 -> 1 .. (next + 1) - 1]
    BY <1>1, <2>2
  <2>4. new[n + 1] = next /\ \A i \in 1 .. n : new[i] = src[i] /\ src[i] # next
    BY <1>1, <2>2
  <2> HIDE DEF new
  <2>5. ASSUME NEW i \in 1 .. n + 1, NEW j \in 1 .. n + 1, i # j
        PROVE  new[i] # new[j]
    <3>1. CASE i = n + 1
      BY <2>2, <2>4, <2>5, <3>1
    <3>2. CASE j = n + 1
      BY <2>2, <2>4, <2>5, <3>2
    <3>3. CASE i \in 1 .. n /\ j \in 1 .. n
      BY <2>1, <2>4, <2>5, <3>3 DEF IsSource
    <3> QED
      BY <2>2, <3>1, <3>2, <3>3
  <2>6. \A i \in 1 .. n + 1 : IsCopy(file, load_regions'[i], file.segments[new[i]])
    BY <1>5, <1>6, <2>1, <2>2, <2>4 DEF IsSource
  <2>7. ASSUME NEW k \in 1 .. (next + 1) - 1
        PROVE  Skipped(file, file.segments[k]) \/ \E i \in 1 .. n + 1 : new[i] = k
    <3>1. CASE k = next
      BY <2>2, <2>4, <3>1
    <3>2. CASE k \in 1 .. next - 1
      BY <2>1, <2>2, <2>4, <3>2 DEF IsSource
    <3> QED
      BY <1>1, <3>1, <3>2
  <2> QED
    BY <2>3, <2>5, <2>6, <2>7 DEF FromSegments, IsSource
<1>10. next + 1 \in 1 .. Len(file.segments) + 1 /\ bp' = 0
  BY <1>1 DEF IInv, PhaseInv
<1> QED
  BY <1>1, <1>6, <1>7, <1>8, <1>9, <1>10 DEF IInv, PhaseInv, Ready

\* What holds of the first regions is not changed by what is put behind them.
LEMMA PrefixInv ==
  ASSUME NEW f, NEW rs, NEW ss, NEW n \in Nat, NEW m,
         FromSegments(f, rs, n, m), \A i \in 1 .. n : ss[i] = rs[i]
  PROVE  FromSegments(f, ss, n, m)
BY DEF FromSegments, IsSource

\* The slots of the heap and the stack are put behind the copies.
LEMMA SegmentsReadInv ==
  ASSUME IInv, SegmentsRead, UNCHANGED <<pc, x2, disasm>>
  PROVE  IInv'
<1> DEFINE n == Len(load_regions)
<1>1. /\ phase = "segments" /\ phase' = "break"
      /\ UNCHANGED <<file, next, bss_start, bss_size, bp, sp>>
      /\ nr_regions' = n + 2 /\ entry_point' = file.entry
      /\ load_regions' = load_regions \o <<Unused, Unused>>
  BY DEF SegmentsRead
<1>2. load_regions \in Seq(LoadRegions) /\ n \in Nat
  BY DEF IInv, TypeOK
<1>3. /\ load_regions' \in Seq(LoadRegions) /\ Len(load_regions') = n + 2
      /\ \A i \in 1 .. n : load_regions'[i] = load_regions[i]
  BY <1>1, <1>2, UnusedType
<1>4. next = Len(file.segments) + 1
  BY <1>1, FileType DEF SegmentsRead, IInv, PhaseInv
<1>5. FromSegments(file, load_regions', n, Len(file.segments) + 1)
  BY <1>1, <1>2, <1>3, <1>4, PrefixInv DEF IInv, PhaseInv
<1>6. TypeOK'
  BY <1>1, <1>2, <1>3, FileType DEF IInv, TypeOK
<1>7. BreakNamed'
  BY <1>1 DEF IInv, BreakNamed, IsBreak
<1>8. bp' = 0 /\ (n + 2) - 2 = n /\ n + 2 >= 2
  BY <1>1, <1>2 DEF IInv, PhaseInv
<1> HIDE DEF n
<1> QED
  BY <1>1, <1>3, <1>5, <1>6, <1>7, <1>8 DEF IInv, PhaseInv, Ready

\* Without a break the context is returned with bp zero.
LEMMA NoBreakInv ==
  ASSUME IInv, NoBreak, UNCHANGED <<pc, x2, disasm>>
  PROVE  IInv'
<1>1. /\ phase = "break" /\ phase' = "returned"
      /\ UNCHANGED <<file, next, bss_start, bss_size, ctxVars>>
  BY DEF NoBreak
<1>2. TypeOK'
  BY <1>1 DEF IInv, TypeOK, ctxVars
<1>3. BreakNamed'
  BY <1>1, FrameInv
<1>4. bp' = 0
  BY <1>1 DEF IInv, PhaseInv, ctxVars
<1> QED
  BY <1>1, <1>2, <1>3, <1>4 DEF IInv, PhaseInv, Ready

LEMMA ReserveType ==
  ASSUME NEW base \in Word, NEW n \in Word, NEW tag \in Tags
  PROVE  Reserve(base, n, tag) \in LoadRegions
BY ZeroedType, RegionType DEF Reserve

\* The reserves are put in the last two slots.
LEMMA PlaceBreakInv ==
  ASSUME IInv, PlaceBreak, UNCHANGED <<pc, x2, disasm>>
  PROVE  IInv'
<1> DEFINE n == nr_regions
           h == Reserve(HeapBase, HeapSize, "HEAP")
           s == Reserve(StackBase, StackSize, "STACK")
<1>1. /\ phase = "break" /\ phase' = "returned" /\ bss_start # 0
      /\ UNCHANGED <<file, next, bss_start, bss_size, nr_regions, entry_point>>
      /\ load_regions' = [load_regions EXCEPT ![n - 1] = h, ![n] = s]
      /\ bp' = StackBase /\ sp' = StackTop
  BY DEF PlaceBreak
<1>2. /\ load_regions \in Seq(LoadRegions) /\ n \in Nat
      /\ n = Len(load_regions) /\ n >= 2
      /\ FromSegments(file, load_regions, n - 2, Len(file.segments) + 1)
      /\ entry_point = file.entry
  BY <1>1 DEF IInv, TypeOK, PhaseInv
<1>3. h \in LoadRegions /\ s \in LoadRegions
  BY BasesType, ReserveType, ElfAssumption DEF IInv, Tags
<1>4. /\ HeapBase' = HeapBase /\ StackBase' = StackBase /\ StackTop' = StackTop
  BY <1>1 DEF HeapBase, StackBase, StackTop
<1>5. h' = h /\ s' = s
  BY <1>4 DEF Reserve
<1> HIDE DEF h, s
<1>6. /\ load_regions' \in Seq(LoadRegions) /\ Len(load_regions') = n
      /\ load_regions'[n - 1] = h /\ load_regions'[n] = s
      /\ \A i \in 1 .. n - 2 : load_regions'[i] = load_regions[i]
  BY <1>1, <1>2, <1>3
<1>7. FromSegments(file, load_regions', n - 2, Len(file.segments) + 1)
  <2>1. n - 2 \in Nat
    BY <1>2
  <2> HIDE DEF n
  <2> QED
    BY <1>2, <1>6, <2>1, PrefixInv, Zenon
<1>8. TypeOK'
  BY <1>1, <1>6, BasesType DEF IInv, TypeOK
<1>9. BreakNamed'
  BY <1>1 DEF IInv, BreakNamed, IsBreak
<1>10. Complete'
  BY <1>1, <1>2, <1>4, <1>5, <1>6, <1>7 DEF Complete, h, s
<1> QED
  BY <1>1, <1>8, <1>9, <1>10 DEF IInv, PhaseInv, Ready

\* The hart takes its pc and its stack pointer from the context.
LEMMA MakeHartInv ==
  ASSUME IInv, MakeHart
  PROVE  IInv'
<1>1. /\ phase = "returned" /\ phase' = "state" /\ bp # 0
      /\ UNCHANGED <<file, next, bss_start, bss_size, ctxVars, disasm>>
      /\ pc' = entry_point /\ x2' = sp
  BY DEF MakeHart
<1>2. TypeOK'
  BY <1>1 DEF IInv, TypeOK, ctxVars
<1>3. BreakNamed' /\ (Complete => Complete')
  BY <1>1, FrameInv
<1>4. Complete
  BY <1>1 DEF IInv, PhaseInv
<1> QED
  BY <1>1, <1>2, <1>3, <1>4 DEF IInv, PhaseInv, Ready, ctxVars

LEMMA OpenDisasmInv ==
  ASSUME IInv, OpenDisasm
  PROVE  IInv'
<1>1. /\ phase = "state" /\ phase' = "ready"
      /\ UNCHANGED <<file, next, bss_start, bss_size, ctxVars, pc, x2>>
      /\ disasm' \in {disasm, "open"}
  BY DEF OpenDisasm
<1>2. TypeOK'
  BY <1>1 DEF IInv, TypeOK, ctxVars
<1>3. BreakNamed' /\ (Complete => Complete')
  BY <1>1, FrameInv
<1> QED
  BY <1>1, <1>2, <1>3 DEF IInv, PhaseInv, Ready, ctxVars

\* A step that does not change anything.
LEMMA StutterInv == ASSUME IInv, UNCHANGED vars PROVE IInv'
<1>1. TypeOK'
  BY DEF IInv, TypeOK, vars, elfVars, ctxVars
<1>2. BreakNamed' /\ (Complete => Complete')
  BY FrameInv DEF vars, elfVars
<1> QED
  BY <1>1, <1>2 DEF IInv, PhaseInv, Ready, vars, elfVars, ctxVars

LEMMA NextInv == IInv /\ [Next]_vars => IInv'
<1> SUFFICES ASSUME IInv, [Next]_vars PROVE IInv'
  OBVIOUS
<1>1. CASE ReadFile
  BY <1>1, HeaderInv
<1>2. CASE FileFails \/ Refuse \/ DisasmFails
  BY <1>2, DiesInv DEF FileFails, Refuse, DisasmFails
<1>3. CASE Load
  <2>1. UNCHANGED <<pc, x2, disasm>>
    BY <1>3 DEF Load
  <2>2. CASE ReadHeader
    BY <2>1, <2>2, HeaderInv
  <2>3. CASE WildRead \/ OverrunSegment
    BY <2>1, <2>3, DiesInv DEF WildRead, OverrunSegment
  <2>4. CASE ReadSection \/ SectionsRead
    BY <2>1, <2>4, SectionInv, SectionsReadInv
  <2>5. CASE SkipSegment \/ LoadSegment \/ SegmentsRead
    BY <2>1, <2>5, SkipInv, LoadInv, SegmentsReadInv
  <2>6. CASE NoBreak \/ PlaceBreak
    BY <2>1, <2>6, NoBreakInv, PlaceBreakInv
  <2> QED
    BY <1>3, <2>2, <2>3, <2>4, <2>5, <2>6 DEF Load, ElfStep
<1>4. CASE MakeHart \/ OpenDisasm
  BY <1>4, MakeHartInv, OpenDisasmInv
<1>5. CASE UNCHANGED vars
  BY <1>5, StutterInv
<1> QED
  BY <1>1, <1>2, <1>3, <1>4, <1>5 DEF Next

LEMMA Invariance == Spec => []IInv
<1>1. Init => IInv
  BY InitInv
<1>2. IInv /\ [Next]_vars => IInv'
  BY NextInv
<1> QED
  BY <1>1, <1>2, PTL DEF Spec

-----------------------------------------------------------------------------
(***************************************************************************)
(* The table of a hart.                                                    *)
(***************************************************************************)
LEMMA ReadyIsComplete ==
  ASSUME IInv, Ready
  PROVE  /\ Complete /\ TypeOK /\ BreakNamed
         /\ x2 = sp /\ pc = file.entry
         /\ nr_regions \in Nat
BY DEF IInv, PhaseInv, Ready, Complete, TypeOK

\* Memory's words are these, whatever its table.
LEMMA TableWords ==
  /\ Table!Word = Word /\ Table!WordMod = WordMod
  /\ \A v : Table!Wrap(v) = Wrap(v)
BY DEF Table!Word, Table!Wrap, Table!WordMod, Table!HalfMod, Word, Wrap,
       WordMod, HalfMod

LEMMA TableType ==
  ASSUME IInv, Ready, NEW i \in 1 .. nr_regions
  PROVE  /\ load_regions[i].vma_base \in Word
         /\ load_regions[i].sz_reserved \in Word
         /\ load_regions[i].bytes \in [0 .. load_regions[i].sz_reserved - 1 -> Byte]
         /\ Regions[i].vma_base = load_regions[i].vma_base
         /\ Regions[i].sz_reserved = load_regions[i].sz_reserved
<1> DEFINE r == load_regions[i]
<1>1. r \in LoadRegions
  BY ReadyIsComplete DEF Complete, TypeOK
<1>2. /\ r.vma_base \in Word /\ r.sz_reserved \in Word /\ r.bytes \in Buffers
      /\ DOMAIN r.bytes = 0 .. r.sz_reserved - 1
  BY <1>1 DEF LoadRegions
<1>3. PICK n \in Word : r.bytes \in [0 .. n - 1 -> Byte]
  BY <1>2 DEF Buffers
<1>4. r.bytes \in [0 .. r.sz_reserved - 1 -> Byte]
  BY <1>2, <1>3
<1> QED
  BY <1>2, <1>4 DEF Regions

\* The regions before the last two are loaded ones.
LEMMA Sources ==
  ASSUME IInv, Ready
  PROVE  \E src : IsSource(file, load_regions, nr_regions - 2,
                           Len(file.segments) + 1, src)
BY ReadyIsComplete DEF Complete, FromSegments

LEMMA ReservesLast ==
  ASSUME IInv, Ready
  PROVE  HartHasReserves
<1> DEFINE n == nr_regions
<1>1. /\ n \in Nat /\ n >= 2 /\ n = Len(load_regions)
      /\ load_regions[n - 1].tag = "HEAP" /\ load_regions[n].tag = "STACK"
  BY ReadyIsComplete DEF Complete, Reserve
<1>2. \A i \in 1 .. n - 2 : load_regions[i].tag = "LOAD"
  BY Sources DEF IsSource, IsCopy
<1>3. Tagged("HEAP") = {n - 1} /\ Tagged("STACK") = {n} /\ Tagged("") = {}
  <2>1. \A i \in 1 .. n : i \in 1 .. n - 2 \/ i = n - 1 \/ i = n
    BY <1>1
  <2>2. n - 1 \in 1 .. n /\ n \in 1 .. n
    BY <1>1
  <2>3. \A i \in 1 .. n :
          /\ load_regions[i].tag = "HEAP" <=> i = n - 1
          /\ load_regions[i].tag = "STACK" <=> i = n
          /\ load_regions[i].tag # ""
    BY <1>1, <1>2, <2>1
  <2> QED
    BY <2>2, <2>3 DEF Tagged
<1>4. RegionByTag("HEAP") \in 1 .. n
  <2>1. RegionByTag("HEAP") = CHOOSE i \in {n - 1} : \A j \in {n - 1} : i <= j
    BY <1>3 DEF RegionByTag
  <2>2. \E i \in {n - 1} : \A j \in {n - 1} : i <= j
    BY <1>1
  <2>3. RegionByTag("HEAP") \in {n - 1}
    BY <2>1, <2>2
  <2> QED
    BY <1>1, <2>3
<1>5. Regions \in [1 .. n -> [vma_base : Word, sz_reserved : Word]]
  BY TableType DEF Regions
<1>6. Image \in [Table!Cells -> Byte]
  <2>1. ASSUME NEW c \in Table!Cells
        PROVE  load_regions[c[1]].bytes[c[2]] \in Byte
    <3>1. c \in {d \in (1 .. n) \X Word : d[2] < Regions[d[1]].sz_reserved}
      BY <2>1, TableWords DEF Table!Cells
    <3>2. c[1] \in 1 .. n /\ c[2] \in Word /\ c[2] < Regions[c[1]].sz_reserved
      BY <3>1
    <3>3. Regions[c[1]].sz_reserved = load_regions[c[1]].sz_reserved
      BY <3>2, TableType
    <3>4. c[2] \in 0 .. load_regions[c[1]].sz_reserved - 1
      BY <3>2, <3>3, TableType, ModuliType DEF Word
    <3>5. load_regions[c[1]].bytes
            \in [0 .. load_regions[c[1]].sz_reserved - 1 -> Byte]
      BY <3>2, TableType
    <3> QED
      BY <3>4, <3>5
  <2> QED
    BY <2>1 DEF Image
<1> QED
  BY <1>1, <1>3, <1>4, <1>5, <1>6, ReadyIsComplete DEF HartHasReserves, TypeOK

-----------------------------------------------------------------------------
(***************************************************************************)
(* The table of a well-formed file: the segments lie in front of the       *)
(* break, the heap and the stack behind it, and no sum wraps around.       *)
(***************************************************************************)
Break == bss_start + bss_size

LEMMA BreakFits ==
  ASSUME TypeOK, BreakNamed, bss_start # 0, WellFormed(file)
  PROVE  /\ Break \in Nat /\ Break + HeapSize + StackSize < WordMod
         /\ \A k \in Loadable(file) : Spans(file.segments[k]) \subseteq 0 .. Break - 1
         /\ HeapBase = Break /\ StackBase = Break + HeapSize
         /\ StackTop = Break + HeapSize + StackSize - 1
<1>1. PICK k \in 1 .. Len(file.sections) :
        /\ IsBreak(file.sections[k])
        /\ bss_start = file.sections[k].sh_addr
        /\ bss_size = file.sections[k].sh_size
  BY DEF BreakNamed
<1>2. k \in DOMAIN file.sections
  BY <1>1, FileType
<1>3. BreakAt(file, file.sections[k])
  BY <1>1, <1>2 DEF WellFormed
<1>4. /\ Break + HeapSize + StackSize < WordMod
      /\ \A j \in Loadable(file) : Spans(file.segments[j]) \subseteq 0 .. Break - 1
  BY <1>1, <1>3 DEF BreakAt, Break
<1>5. /\ Break \in Nat
      /\ HeapSize \in Nat /\ HeapSize > 0 /\ StackSize \in Nat /\ StackSize > 0
  BY ElfAssumption, ModuliType DEF TypeOK, Break, Word
<1>6. HeapBase = Break
  BY <1>4, <1>5, WrapSmall, ModuliType DEF HeapBase, Break, Word
<1>7. StackBase = Break + HeapSize
  BY <1>4, <1>5, <1>6, WrapSmall, ModuliType DEF StackBase, Word
<1>8. StackTop = Break + HeapSize + StackSize - 1
  BY <1>4, <1>5, <1>7, WrapSmall, ModuliType DEF StackTop, Word
<1> QED
  BY <1>4, <1>5, <1>6, <1>7, <1>8

LEMMA BreakPlace ==
  ASSUME IInv, Ready, WellFormed(file)
  PROVE  /\ Break \in Nat /\ Break + HeapSize + StackSize < WordMod
         /\ \A k \in Loadable(file) : Spans(file.segments[k]) \subseteq 0 .. Break - 1
         /\ HeapBase = Break /\ StackBase = Break + HeapSize
         /\ StackTop = Break + HeapSize + StackSize - 1
BY BreakFits, ReadyIsComplete DEF Complete

\* A region whose end does not wrap around contains what it spans.
LEMMA ContainsPlain ==
  ASSUME IInv, Ready, NEW i \in 1 .. nr_regions, NEW a \in Word,
         load_regions[i].vma_base + load_regions[i].sz_reserved < WordMod
  PROVE  Table!Contains(i, a) <=>
           a \in load_regions[i].vma_base ..
                   load_regions[i].vma_base + load_regions[i].sz_reserved - 1
<1> DEFINE v == load_regions[i].vma_base
           z == load_regions[i].sz_reserved
<1>1. v \in Nat /\ z \in Nat /\ a \in Nat
  BY TableType, ModuliType DEF Word
<1>2. Wrap(v + z) = v + z
  BY <1>1, WrapSmall, ModuliType DEF Word
<1>3. Table!Contains(i, a) <=> v <= a /\ a < Wrap(v + z)
  BY TableType, TableWords DEF Table!Contains
<1> HIDE DEF v, z
<1>4. Table!Contains(i, a) <=> a \in v .. v + z - 1
  BY <1>1, <1>2, <1>3
<1> QED
  BY <1>4 DEF v, z

LEMMA LoadablePlace ==
  ASSUME IInv, Ready, WellFormed(file), NEW k \in Loadable(file)
  PROVE  /\ file.segments[k].p_vaddr \in Nat /\ file.segments[k].p_memsz \in Nat
         /\ file.segments[k].p_offset \in Nat /\ file.segments[k].p_filesz \in Nat
         /\ file.segments[k].p_memsz > 0
         /\ file.segments[k].p_vaddr + file.segments[k].p_memsz <= Break
<1> DEFINE p == file.segments[k]
<1>1. p \in Segments /\ p.p_memsz # 0
  BY ReadyIsComplete, FileType DEF Loadable
<1>2. /\ p.p_vaddr \in Nat /\ p.p_memsz \in Nat /\ p.p_memsz > 0
      /\ p.p_offset \in Nat /\ p.p_filesz \in Nat
  BY <1>1, ModuliType DEF Segments, Word
<1> HIDE DEF p
<1>3. p.p_vaddr + p.p_memsz - 1 \in Spans(p)
  BY <1>2 DEF Spans
<1>4. Spans(p) \subseteq 0 .. Break - 1 /\ Break \in Nat
  BY BreakPlace DEF p
<1>5. p.p_vaddr + p.p_memsz <= Break
  BY <1>2, <1>3, <1>4
<1> QED
  BY <1>2, <1>5 DEF p

\* Where each region lies.
LEMMA Places ==
  ASSUME IInv, Ready, WellFormed(file), NEW a \in Word, NEW src,
         IsSource(file, load_regions, nr_regions - 2, Len(file.segments) + 1, src)
  PROVE  /\ \A i \in 1 .. nr_regions - 2 :
              /\ src[i] \in Loadable(file)
              /\ Table!Contains(i, a) <=> a \in Spans(file.segments[src[i]])
         /\ Table!Contains(nr_regions - 1, a) <=> a \in Break .. Break + HeapSize - 1
         /\ Table!Contains(nr_regions, a)
              <=> a \in Break + HeapSize .. Break + HeapSize + StackSize - 1
<1> DEFINE n == nr_regions
<1>1. n \in Nat /\ n >= 2 /\ n - 1 \in 1 .. n /\ n \in 1 .. n
  BY ReadyIsComplete DEF Complete
<1>2. ASSUME NEW i \in 1 .. n - 2
      PROVE  /\ src[i] \in Loadable(file)
             /\ Table!Contains(i, a) <=> a \in Spans(file.segments[src[i]])
  <2> DEFINE p == file.segments[src[i]]
  <2>1. src[i] \in 1 .. Len(file.segments) /\ IsCopy(file, load_regions[i], p)
    BY <1>1, FileType, ReadyIsComplete DEF IsSource
  <2>2. src[i] \in Loadable(file)
    BY <2>1, FileType, ReadyIsComplete DEF Loadable, IsCopy, Skipped
  <2>3. /\ load_regions[i].vma_base = p.p_vaddr
        /\ load_regions[i].sz_reserved = p.p_memsz
    BY <2>1 DEF IsCopy
  <2>4. p.p_vaddr + p.p_memsz < WordMod
    <3>1. HeapSize \in Nat /\ StackSize \in Nat
      BY ElfAssumption, ModuliType DEF Word
    <3>2. Break \in Nat /\ Break + HeapSize + StackSize < WordMod
      BY BreakPlace
    <3>3. /\ p.p_vaddr \in Nat /\ p.p_memsz \in Nat
          /\ p.p_vaddr + p.p_memsz <= Break
      BY <2>2, LoadablePlace
    <3> HIDE DEF p
    <3> QED
      BY <3>1, <3>2, <3>3, ModuliType
  <2>5. i \in 1 .. n
    BY <1>1
  <2>6. Table!Contains(i, a) <=> a \in Spans(p)
    BY <2>3, <2>4, <2>5, ContainsPlain DEF Spans
  <2> QED
    BY <2>2, <2>6
<1>3. /\ load_regions[n - 1].vma_base = Break
      /\ load_regions[n - 1].sz_reserved = HeapSize
      /\ load_regions[n].vma_base = Break + HeapSize
      /\ load_regions[n].sz_reserved = StackSize
  BY ReadyIsComplete, BreakPlace DEF Complete, Reserve
<1>4. HeapSize \in Nat /\ StackSize \in Nat
  BY ElfAssumption, ModuliType DEF Word
<1>5. /\ Break \in Nat /\ Break + HeapSize < WordMod
      /\ (Break + HeapSize) + StackSize < WordMod
  BY <1>4, BreakPlace, ModuliType
<1>6. Table!Contains(n - 1, a) <=> a \in Break .. Break + HeapSize - 1
  BY <1>1, <1>3, <1>5, ContainsPlain
<1>7. Table!Contains(n, a)
        <=> a \in Break + HeapSize .. (Break + HeapSize) + StackSize - 1
  BY <1>1, <1>3, <1>5, ContainsPlain
<1> QED
  BY <1>2, <1>6, <1>7

LEMMA DisjointTable == ASSUME IInv, Ready, WellFormed(file) PROVE TableIsDisjoint
<1> SUFFICES ASSUME NEW i \in 1 .. nr_regions, NEW j \in 1 .. nr_regions,
                    NEW a \in Word,
                    Table!Contains(i, a), Table!Contains(j, a)
             PROVE  i = j
  BY DEF TableIsDisjoint
<1> DEFINE n == nr_regions
<1>1. n \in Nat /\ n >= 2
  BY ReadyIsComplete DEF Complete
<1>2. PICK src : IsSource(file, load_regions, n - 2, Len(file.segments) + 1, src)
  BY Sources
<1>3. HeapSize \in Nat /\ StackSize \in Nat /\ Break \in Nat /\ a \in Nat
  BY BreakPlace, ElfAssumption, ModuliType DEF Word
<1>4. \A k \in 1 .. n - 2 : Table!Contains(k, a) => a < Break
  <2>1. ASSUME NEW k \in 1 .. n - 2, Table!Contains(k, a) PROVE a < Break
    <3>1. src[k] \in Loadable(file) /\ a \in Spans(file.segments[src[k]])
      BY <1>2, <2>1, Places
    <3>2. Spans(file.segments[src[k]]) \subseteq 0 .. Break - 1
      BY <3>1, BreakPlace
    <3> QED
      BY <1>3, <3>1, <3>2
  <2> QED
    BY <2>1
<1>5. /\ Table!Contains(n - 1, a) => a >= Break /\ a < Break + HeapSize
      /\ Table!Contains(n, a) => a >= Break + HeapSize
  BY <1>2, <1>3, Places
<1>6. CASE i \in 1 .. n - 2 /\ j \in 1 .. n - 2
  <2>1. /\ src[i] \in Loadable(file) /\ a \in Spans(file.segments[src[i]])
        /\ src[j] \in Loadable(file) /\ a \in Spans(file.segments[src[j]])
    BY <1>2, <1>6, Places
  <2>2. src[i] = src[j]
    BY <2>1 DEF WellFormed
  <2> QED
    BY <1>2, <1>6, <2>2 DEF IsSource
<1>7. CASE ~(i \in 1 .. n - 2 /\ j \in 1 .. n - 2)
  BY <1>1, <1>3, <1>4, <1>5, <1>7
<1> QED
  BY <1>6, <1>7

\* In a disjoint table an address is translated by the region that has it.
LEMMA Translation ==
  ASSUME IInv, Ready, WellFormed(file), NEW a \in Word,
         NEW i \in 1 .. nr_regions, Table!Contains(i, a)
  PROVE  /\ Table!Mapped(a) /\ Table!RegionOf(a) = i
         /\ Table!OffsetOf(a) = a - load_regions[i].vma_base
<1>1. \A j \in 1 .. nr_regions : Table!Contains(j, a) => j = i
  BY DisjointTable DEF TableIsDisjoint
<1>2. nr_regions \in Nat
  BY ReadyIsComplete
<1>3. Table!Translates(i, a)
  BY <1>1, <1>2 DEF Table!Translates
<1>4. \A j \in 1 .. nr_regions : Table!Translates(j, a) => j = i
  BY <1>1 DEF Table!Translates
<1>5. Table!Mapped(a) /\ Table!RegionOf(a) = i
  BY <1>3, <1>4 DEF Table!Mapped, Table!RegionOf
<1> QED
  BY <1>5, TableType DEF Table!OffsetOf

\* What the guest reads there is the byte of that region's buffer.
LEMMA GuestReads ==
  ASSUME IInv, Ready, WellFormed(file), NEW a \in Word,
         NEW i \in 1 .. nr_regions, Table!Contains(i, a),
         NEW k \in Word, k = a - load_regions[i].vma_base,
         k < load_regions[i].sz_reserved
  PROVE  Table!Mapped(a) /\ GuestByte(a) = load_regions[i].bytes[k]
<1>1. Table!Mapped(a) /\ Table!CellOf(a) = <<i, k>>
  BY Translation DEF Table!CellOf
<1>2. k < Regions[i].sz_reserved
  BY TableType
<1>3. <<i, k>> \in Table!Cells
  BY <1>2, TableWords DEF Table!Cells
<1> QED
  BY <1>1, <1>3 DEF GuestByte, Image

\* Every segment of a well-formed file is loaded.
LEMMA LoadableCopied ==
  ASSUME IInv, Ready, WellFormed(file), NEW k \in Loadable(file)
  PROVE  \E i \in 1 .. nr_regions - 2 :
           /\ IsCopy(file, load_regions[i], file.segments[k])
           /\ \A a \in Word :
                Table!Contains(i, a) <=> a \in Spans(file.segments[k])
<1> DEFINE p == file.segments[k]
<1>1. /\ file.bytes \in Seq(Byte) /\ k \in 1 .. Len(file.segments)
      /\ Len(file.segments) \in Nat
  BY ReadyIsComplete, FileType DEF Loadable
<1>2. p.p_offset \in Nat /\ p.p_filesz \in Nat /\ p.p_memsz > 0
  BY LoadablePlace
<1>3. p.p_offset + p.p_filesz <= Len(file.bytes) /\ Len(file.bytes) \in Nat
  BY <1>1 DEF WellFormed
<1> HIDE DEF p
<1> DEFINE e == p.p_offset + p.p_filesz
<1>4. e \in Nat
  BY <1>2
<1> HIDE DEF e
<1>5. e % WordMod <= e
  BY <1>4, ModuliType
<1>6. e % WordMod \in Nat
  BY <1>4, ModuliType
<1>7. ~(Wrap(e) > Len(file.bytes))
  BY <1>3, <1>4, <1>5, <1>6 DEF Wrap, e
<1>8. ~Skipped(file, p)
  BY <1>2, <1>7 DEF Skipped, e
<1>9. PICK src :
        IsSource(file, load_regions, nr_regions - 2, Len(file.segments) + 1, src)
  BY Sources
<1>10. PICK i \in 1 .. nr_regions - 2 : src[i] = k
  BY <1>1, <1>8, <1>9 DEF IsSource, p
<1> QED
  BY <1>9, <1>10, Places DEF IsSource

LEMMA ImageFromFile == ASSUME IInv, Ready, WellFormed(file) PROVE ImageIsTheFile
<1> DEFINE n == nr_regions
<1>1. n \in Nat /\ n >= 2
  BY ReadyIsComplete DEF Complete
<1>2. ASSUME NEW a \in Word, NEW k \in Loadable(file), a \in Spans(file.segments[k])
      PROVE  Table!Mapped(a) /\ GuestByte(a) = SegmentByte(file, file.segments[k], a)
  <2> DEFINE p == file.segments[k]
             o == a - p.p_vaddr
  <2>1. PICK i \in 1 .. n - 2 :
          /\ IsCopy(file, load_regions[i], p)
          /\ \A b \in Word : Table!Contains(i, b) <=> b \in Spans(p)
    BY LoadableCopied
  <2>2. /\ p.p_vaddr \in Nat /\ p.p_memsz \in Nat
        /\ p.p_offset \in Nat /\ p.p_filesz \in Nat
        /\ p.p_offset + p.p_filesz <= Len(file.bytes)
        /\ Len(file.bytes) \in Nat
    <3>1. Len(file.bytes) \in Nat
      BY FileType, ReadyIsComplete
    <3>2. p.p_offset + p.p_filesz <= Len(file.bytes)
      BY DEF WellFormed
    <3> QED
      BY <3>1, <3>2, LoadablePlace
  <2>3. /\ load_regions[i].vma_base = p.p_vaddr
        /\ load_regions[i].sz_reserved = p.p_memsz
        /\ load_regions[i].bytes \in SegmentBytes(file, p)
    BY <2>1 DEF IsCopy
  <2>4. a \in Spans(p) /\ a \in Nat /\ a < WordMod
    BY <1>2, ModuliType DEF Word
  <2> HIDE DEF p
  <2>5. o \in 0 .. p.p_memsz - 1 /\ o \in Word
    <3>1. p.p_vaddr <= a /\ a <= p.p_vaddr + p.p_memsz - 1
      BY <2>2, <2>4 DEF Spans
    <3>2. o \in 0 .. p.p_memsz - 1 /\ o \in Nat /\ o <= a
      BY <2>2, <2>4, <3>1
    <3> QED
      BY <2>4, <3>2, ModuliType DEF Word
  <2>6. i \in 1 .. n /\ Table!Contains(i, a)
    BY <1>1, <2>1, <2>4
  <2>7. Table!Mapped(a) /\ GuestByte(a) = load_regions[i].bytes[o]
    <3>1. o = a - load_regions[i].vma_base /\ o < load_regions[i].sz_reserved
      BY <2>2, <2>3, <2>5
    <3> HIDE DEF o
    <3> QED
      BY <2>5, <2>6, <3>1, GuestReads
  <2>8. load_regions[i].bytes[o] = SegmentByte(file, p, a)
    <3>1. CASE o < p.p_filesz
      <4>1. p.p_offset + o < Len(file.bytes)
        BY <2>2, <2>5, <3>1
      <4>2. load_regions[i].bytes[o] = file.bytes[p.p_offset + o + 1]
        BY <2>3, <2>5, <3>1, <4>1 DEF SegmentBytes, Copied
      <4> QED
        BY <3>1, <4>2 DEF SegmentByte
    <3>2. CASE ~(o < p.p_filesz)
      <4>1. o >= p.p_filesz
        BY <2>2, <2>5, <3>2
      <4>2. load_regions[i].bytes[o] = 0
        BY <2>3, <2>5, <4>1 DEF SegmentBytes, Copied
      <4> QED
        BY <3>2, <4>2 DEF SegmentByte
    <3> QED
      BY <3>1, <3>2
  <2> QED
    BY <2>7, <2>8 DEF p
<1>3. ASSUME NEW a \in Word, Table!Mapped(a),
             \A k \in Loadable(file) : a \notin Spans(file.segments[k])
      PROVE  GuestByte(a) = 0
  <2>1. PICK i \in 1 .. n : Table!Contains(i, a)
    BY <1>3 DEF Table!Mapped, Table!Translates
  <2>2. PICK src : IsSource(file, load_regions, n - 2, Len(file.segments) + 1, src)
    BY Sources
  <2>3. i \notin 1 .. n - 2
    BY <1>3, <2>1, <2>2, Places
  <2> DEFINE v == load_regions[i].vma_base
             z == load_regions[i].sz_reserved
             o == a - v
  <2>4. /\ load_regions[i].bytes = Zeroed(z)
        /\ z \in {HeapSize, StackSize} /\ v + z < WordMod
    <3>1. HeapSize \in Nat /\ StackSize \in Nat
      BY ElfAssumption, ModuliType DEF Word
    <3>2. /\ Break \in Nat /\ Break + HeapSize + StackSize < WordMod
          /\ HeapBase = Break /\ StackBase = Break + HeapSize
      BY BreakPlace
    <3>3. i = n - 1 \/ i = n
      BY <1>1, <2>1, <2>3
    <3>4. \/ load_regions[i] = Reserve(HeapBase, HeapSize, "HEAP")
          \/ load_regions[i] = Reserve(StackBase, StackSize, "STACK")
      BY <3>3, ReadyIsComplete DEF Complete
    <3>5. \/ v = HeapBase /\ z = HeapSize /\ load_regions[i].bytes = Zeroed(HeapSize)
          \/ v = StackBase /\ z = StackSize /\ load_regions[i].bytes = Zeroed(StackSize)
      BY <3>4 DEF Reserve
    <3> HIDE DEF v, z
    <3> QED
      BY <3>1, <3>2, <3>5, ModuliType
  <2>5. v \in Nat /\ z \in Nat /\ a \in Nat /\ a < WordMod
    BY <2>1, TableType, ModuliType DEF Word
  <2>6. a \in v .. v + z - 1
    BY <2>1, <2>4, ContainsPlain
  <2>7. o \in 0 .. z - 1 /\ o \in Word
    BY <2>5, <2>6, ModuliType DEF Word
  <2>8. GuestByte(a) = load_regions[i].bytes[o]
    <3>1. o = a - load_regions[i].vma_base /\ o < load_regions[i].sz_reserved
      BY <2>5, <2>7
    <3> HIDE DEF o
    <3> QED
      BY <2>1, <2>7, <3>1, GuestReads
  <2> HIDE DEF o, z
  <2> QED
    BY <2>4, <2>7, <2>8 DEF Zeroed
<1> QED
  BY <1>2, <1>3 DEF ImageIsTheFile

LEMMA StackPointer == ASSUME IInv, Ready, WellFormed(file) PROVE StackPointerInStack
<1> DEFINE n == nr_regions
<1>1. n \in Nat /\ n \in 1 .. n /\ load_regions[n].vma_base = StackBase
  BY ReadyIsComplete DEF Complete, Reserve
<1>2. /\ Break \in Nat /\ Break + HeapSize + StackSize < WordMod
      /\ StackBase = Break + HeapSize
      /\ x2 = Break + HeapSize + StackSize - 1
  BY BreakPlace, ReadyIsComplete DEF Complete
<1>3. HeapSize \in Nat /\ StackSize \in Nat /\ StackSize > 0
  BY ElfAssumption, ModuliType DEF Word
<1>4. /\ x2 \in Word
      /\ x2 \in Break + HeapSize .. Break + HeapSize + StackSize - 1
      /\ x2 - StackBase = StackSize - 1
  BY <1>2, <1>3, ModuliType DEF Word
<1>5. Table!Contains(n, x2)
  BY <1>4, Sources, Places
<1> QED
  BY <1>1, <1>4, <1>5, Translation DEF StackPointerInStack

-----------------------------------------------------------------------------
(***************************************************************************)
(* The way of a well-formed file: no section that was read has lost the    *)
(* break, and behind a break there is a bp.                                *)
(***************************************************************************)
Survives ==
  /\ phase \in {"open", "header"} => next = 1
  /\ WellFormed(file) =>
       /\ phase = "sections" =>
            \A k \in 1 .. next - 1 : IsBreak(file.sections[k]) => bss_start # 0
       /\ phase \in {"segments", "break"} => bss_start # 0
       /\ phase = "returned" => bp # 0

\* One section is a break, so the one read last is.
LEMMA BreakFound ==
  ASSUME IInv, Survives, WellFormed(file), phase = "sections",
         next > Len(file.sections)
  PROVE  bss_start # 0
<1>1. PICK k \in DOMAIN file.sections : IsBreak(file.sections[k])
  BY DEF WellFormed
<1>2. DOMAIN file.sections = 1 .. Len(file.sections) /\ Len(file.sections) \in Nat
  BY FileType DEF IInv
<1>3. k \in 1 .. next - 1
  BY <1>1, <1>2 DEF IInv, TypeOK
<1> QED
  BY <1>1, <1>3 DEF Survives

\* The heap has a size, so the stack does not begin at zero.
LEMMA BreakGivesBp ==
  ASSUME IInv, WellFormed(file), bss_start # 0
  PROVE  StackBase # 0
<1>1. StackBase = Break + HeapSize /\ Break \in Nat
  BY BreakFits DEF IInv
<1>2. HeapSize \in Nat /\ HeapSize > 0
  BY ElfAssumption, ModuliType DEF Word
<1> QED
  BY <1>1, <1>2

\* What is copied of a segment lies in the file and fits its region.
LEMMA CopyFits ==
  ASSUME IInv, WellFormed(file), AtSegment
  PROVE  \/ Skipped(file, file.segments[next])
         \/ ~CopyOverruns(file, file.segments[next])
<1> DEFINE p == file.segments[next]
<1>1. next \in 1 .. Len(file.segments) /\ p \in Segments
  BY FileType DEF AtSegment, IInv, TypeOK
<1>2. DOMAIN file.segments = 1 .. Len(file.segments)
  BY FileType DEF IInv
<1>3. p.p_memsz \in Nat /\ p.p_filesz \in Nat /\ p.p_offset \in Nat
  BY <1>1, ModuliType DEF Segments, Word
<1>4. Len(file.bytes) \in Nat
  BY FileType DEF IInv
<1>5. p.p_memsz # 0 =>
        p.p_filesz <= p.p_memsz /\ p.p_offset + p.p_filesz <= Len(file.bytes)
  BY <1>1, <1>2 DEF WellFormed, Loadable
<1> HIDE DEF p
<1>6. Skipped(file, p) \/ ~CopyOverruns(file, p)
  BY <1>3, <1>4, <1>5 DEF Skipped, CopyOverruns
<1> QED
  BY <1>6 DEF p

LEMMA SectionSurvives ==
  ASSUME IInv, Survives, ReadSection
  PROVE  Survives'
<1> DEFINE s == file.sections[next]
<1>1. /\ phase = "sections" /\ phase' = "sections" /\ file' = file
      /\ next \in Nat /\ next' = next + 1
      /\ bss_start' = IF IsBreak(s) THEN s.sh_addr ELSE bss_start
  BY DEF ReadSection, IInv, TypeOK
<1>2. ASSUME WellFormed(file), NEW k \in 1 .. next' - 1, IsBreak(file.sections[k])
      PROVE  bss_start' # 0
  <2>1. CASE IsBreak(s)
    BY <1>1, <2>1 DEF IsBreak
  <2>2. CASE ~IsBreak(s)
    <3>1. k # next
      BY <1>2, <2>2
    <3>2. k \in 1 .. next - 1
      BY <1>1, <1>2, <3>1
    <3> QED
      BY <1>1, <1>2, <2>2, <3>2 DEF Survives
  <2> QED
    BY <2>1, <2>2
<1> QED
  BY <1>1, <1>2 DEF Survives, IsBreak

LEMMA SurvivesNext == IInv /\ Survives /\ [Next]_vars => Survives'
<1> SUFFICES ASSUME IInv, Survives, [Next]_vars PROVE Survives'
  OBVIOUS
<1>1. CASE ReadFile
  BY <1>1 DEF ReadFile, Survives
<1>2. CASE FileFails
  BY <1>2 DEF FileFails, Dies, Survives
<1>3. CASE Load
  <2>1. CASE ReadHeader
    <3>1. phase = "header" /\ next' = 1 /\ file' = file
      BY <2>1 DEF ReadHeader, Survives
    <3>2. CASE HeaderAccepted(file)
      BY <2>1, <3>1, <3>2 DEF ReadHeader, Survives
    <3>3. CASE ~HeaderAccepted(file)
      BY <2>1, <3>1, <3>3 DEF ReadHeader, Survives, WellFormed
    <3> QED
      BY <3>2, <3>3
  <2>2. CASE WildRead
    BY <2>2 DEF WildRead, Dies, Survives
  <2>3. CASE ReadSection
    BY <2>3, SectionSurvives
  <2>4. CASE SectionsRead
    BY <2>4, BreakFound DEF SectionsRead, Survives
  <2>5. CASE SkipSegment
    BY <2>5 DEF SkipSegment, AtSegment, Survives
  <2>6. CASE LoadSegment
    BY <2>6 DEF LoadSegment, AtSegment, Survives
  <2>7. CASE OverrunSegment
    BY <2>7 DEF OverrunSegment, Dies, Survives
  <2>8. CASE SegmentsRead
    BY <2>8 DEF SegmentsRead, Survives
  <2>9. CASE NoBreak
    BY <2>9 DEF NoBreak, Survives
  <2>10. CASE PlaceBreak
    BY <2>10, BreakGivesBp DEF PlaceBreak, Survives
  <2> QED
    BY <1>3, <2>1, <2>2, <2>3, <2>4, <2>5, <2>6, <2>7, <2>8, <2>9, <2>10
       DEF Load, ElfStep
<1>4. CASE Refuse
  BY <1>4 DEF Refuse, Dies, Survives
<1>5. CASE MakeHart
  BY <1>5 DEF MakeHart, Survives
<1>6. CASE OpenDisasm
  BY <1>6 DEF OpenDisasm, Survives
<1>7. CASE DisasmFails
  BY <1>7 DEF DisasmFails, Dies, Survives
<1>8. CASE UNCHANGED vars
  BY <1>8 DEF Survives, vars, elfVars, ctxVars, IsBreak
<1> QED
  BY <1>1, <1>2, <1>3, <1>4, <1>5, <1>6, <1>7, <1>8 DEF Next

\* Each way to the end but the two that open a file is closed.
LEMMA EndsByOpening ==
  ASSUME IInv, Survives, Next, phase' = "dead", WellFormed(file)
  PROVE  phase = "open" \/ (phase = "state" /\ disasm = "requested")
<1>1. ~WildRead
  BY DEF WildRead, WellFormed
<1>2. ~OverrunSegment
  BY CopyFits DEF OverrunSegment
<1>3. ~Refuse
  BY DEF Refuse, Survives
<1>4. FileFails \/ DisasmFails
  <2>1. ~ReadFile /\ ~MakeHart /\ ~OpenDisasm
    BY DEF ReadFile, MakeHart, OpenDisasm
  <2>2. ~Load
    BY <1>1, <1>2 DEF Load, ElfStep, ReadHeader, ReadSection, SectionsRead,
       SkipSegment, LoadSegment, AtSegment, SegmentsRead, NoBreak, PlaceBreak
  <2> QED
    BY <1>3, <2>1, <2>2 DEF Next
<1> QED
  BY <1>4 DEF FileFails, DisasmFails

-----------------------------------------------------------------------------
(***************************************************************************)
(* The theorems.                                                           *)
(***************************************************************************)

\* Whatever the file and however often its segments are skipped, the loader's
\* state stays well formed: sums that wrap around leave words, and the table
\* holds buffers of the sizes it names (elf.c:192-264, main.c:91-156).
THEOREM BootTypeCorrect == Spec => []TypeOK
<1>1. IInv => TypeOK
  BY DEF IInv
<1> QED
  BY <1>1, Invariance, PTL

\* The test of bp in main.c:118 is enough: no file makes a hart without a
\* heap and a stack in the last two slots, or on a table that Memory and Hart
\* could not take as their constants (RegionsAssumption, MachineAssumption).
THEOREM ReservesPlaced == Spec => []HartHasReserves
<1>1. IInv => HartHasReserves
  BY ReservesLast DEF HartHasReserves
<1> QED
  BY <1>1, Invariance, PTL

\* The heap behind .bss (elf.c:254) makes a table of disjoint regions out of
\* every well-formed file, with any number of segments and regions of any
\* size: the hypothesis under which EmulatorProofs!FlatStores is proved.
THEOREM DisjointRegions == Spec => []TableIsDisjoint
<1>1. IInv => TableIsDisjoint
  BY DisjointTable DEF TableIsDisjoint
<1> QED
  BY <1>1, Invariance, PTL

\* The copy of elf.c:216-223 puts every byte of every segment of a well-formed
\* file where the guest finds it, and nothing else anywhere.
THEOREM LoadsTheFile == Spec => []ImageIsTheFile
<1>1. IInv => ImageIsTheFile
  BY ImageFromFile DEF ImageIsTheFile
<1> QED
  BY <1>1, Invariance, PTL

\* The top of the stack (elf.c:264) is the last byte the stack has.
THEOREM StackPointerMapped == Spec => []StackPointerInStack
<1>1. IInv => StackPointerInStack
  BY StackPointer DEF StackPointerInStack
<1> QED
  BY <1>1, Invariance, PTL

\* A well-formed file, of any number of sections and segments in any order,
\* is not refused by elf_init or by the test of bp behind it (main.c:118): the
\* safety part of WellFormedLoads.
THEOREM WellFormedNotRefused == Spec => OnlyOpeningFails
<1>1. Init => Survives
  BY DEF Init, ElfInit, Survives
<1>2. IInv /\ Survives /\ [Next]_vars => Survives'
  BY SurvivesNext
<1>3. IInv /\ Survives /\ [Next]_vars =>
        [phase' = "dead" /\ WellFormed(file) =>
           phase = "open" \/ (phase = "state" /\ disasm = "requested")]_vars
  BY EndsByOpening
<1>4. Spec => []Survives
  BY <1>1, <1>2, Invariance, PTL DEF Spec
<1> QED
  BY <1>3, <1>4, Invariance, PTL DEF Spec, OnlyOpeningFails
=============================================================================
