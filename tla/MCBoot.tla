------------------------------- MODULE MCBoot -------------------------------
(***************************************************************************)
(* Small files: four bytes in a sixteen-value address space, up to three   *)
(* segments and two sections, with ends that wrap around, segments outside *)
(* the file, larger in the file than in memory, empty or overlapping, and  *)
(* breaks in front of, inside, behind and far behind them; and each thing  *)
(* that can be wrong with a header.                                        *)
(***************************************************************************)
EXTENDS Boot

Seg(offset, vaddr, filesz, memsz) ==
  [p_offset |-> offset, p_vaddr |-> vaddr, p_filesz |-> filesz,
   p_memsz |-> memsz]
Sec(addr, size, bss) == [sh_addr |-> addr, sh_size |-> size, bss |-> bss]

Plain ==
  [bytes |-> <<1, 0, 1, 1>>, magic |-> TRUE, class |-> "32", data |-> "LSB",
   version |-> "CURRENT", machine |-> "RISCV", phoff |-> 2, entry |-> 1,
   sections |-> <<Sec(0, 3, TRUE), Sec(4, 2, TRUE)>>,
   segments |-> <<Seg(0, 1, 2, 2), Seg(2, 3, 1, 3)>>, inside |-> TRUE]

SomeSegments ==
  {Seg(o, v, f, m) : o \in {0, 2}, v \in {1, 3, 5}, f \in {0, 2}, m \in {0, 2, 3}}
    \cup {Seg(3, 1, 2, 2), Seg(15, 3, 2, 2), Seg(0, 3, 3, 1), Seg(1, 14, 3, 3)}

SomeSections ==
  {<<>>, <<Sec(1, 2, FALSE)>>, <<Sec(0, 5, TRUE)>>, <<Sec(4, 2, TRUE), Sec(6, 1, FALSE)>>,
   <<Sec(3, 2, TRUE)>>, <<Sec(9, 9, TRUE), Sec(5, 3, TRUE)>>, <<Sec(10, 2, TRUE)>>,
   <<Sec(9, 4, TRUE)>>, <<Sec(12, 2, TRUE)>>, <<Sec(15, 3, TRUE)>>}

\* Segments of which three can be disjoint and in any order.
ShortSegments == {Seg(0, 1, 1, 2), Seg(1, 3, 2, 2), Seg(2, 5, 0, 1), Seg(1, 2, 2, 3)}

SegmentLists == {<<>>} \cup {<<p>> : p \in SomeSegments}
                       \cup {<<p, q>> : p \in SomeSegments, q \in SomeSegments}
                       \cup {<<p, q, r>> : p \in ShortSegments, q \in ShortSegments,
                                           r \in ShortSegments}

MCFiles ==
  {[Plain EXCEPT !.sections = secs, !.segments = segs] :
     secs \in SomeSections, segs \in SegmentLists}
  \cup {[Plain EXCEPT !.class = c, !.data = d, !.version = v, !.machine = m] :
          c \in {"NONE", "32", "64", "other"}, d \in {"NONE", "LSB", "MSB", "other"},
          v \in {"NONE", "CURRENT", "other"}, m \in {"NONE", "RISCV", "other"}}
  \cup {[Plain EXCEPT !.bytes = <<1>>], [Plain EXCEPT !.magic = FALSE],
        [Plain EXCEPT !.phoff = 0], [Plain EXCEPT !.inside = FALSE]}
=============================================================================
