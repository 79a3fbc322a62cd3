------------------------------- MODULE Memory -------------------------------
(***************************************************************************)
(* The guest's memory as the emulator reaches it (elf.c, emu.c): a table   *)
(* of regions, each a stretch of guest addresses backed by a host buffer.  *)
(* An access translates its first address only and then dereferences a     *)
(* host pointer, so a wide access that leaves the region leaves the buffer *)
(* with it, even where another region starts at the next guest address.    *)
(***************************************************************************)
EXTENDS Words

CONSTANTS
  NRegions,  \* ctx->nr_regions
  Regions,   \* ctx->load_regions: the [vma_base, sz_reserved] of each
  Heap       \* the index of the region tagged HEAP

ASSUME RegionsAssumption ==
  /\ NRegions \in Nat
  /\ Regions \in [1 .. NRegions -> [vma_base : Word, sz_reserved : Word]]
  /\ Heap \in 1 .. NRegions

\* One byte of a host buffer: the region's index and the byte's offset in it.
Cells ==
  {c \in (1 .. NRegions) \X Word : c[2] < Regions[c[1]].sz_reserved}

\* The end of the region is a u32 sum: a region that reaches the top of the
\* address space has no end above its base, and contains nothing.
Contains(i, addr) ==
  /\ Regions[i].vma_base <= addr
  /\ addr < Wrap(Regions[i].vma_base + Regions[i].sz_reserved)

\* The region an address is translated by: the first of the table, which
\* shadows the ones that contain the address after it.
Translates(i, addr) ==
  /\ Contains(i, addr)
  /\ \A j \in 1 .. i - 1 : ~Contains(j, addr)

Mapped(addr) == \E i \in 1 .. NRegions : Translates(i, addr)

RegionOf(addr) == CHOOSE i \in 1 .. NRegions : Translates(i, addr)
OffsetOf(addr) == addr - Regions[RegionOf(addr)].vma_base
CellOf(addr)   == <<RegionOf(addr), OffsetOf(addr)>>

\* The n bytes from a mapped address lie inside the host buffer.
Fits(addr, n) == OffsetOf(addr) + n <= Regions[RegionOf(addr)].sz_reserved

-----------------------------------------------------------------------------
(***************************************************************************)
(* Dereferencing the translated pointer.                                   *)
(***************************************************************************)

\* The n bytes a read may yield: one past the end of the host buffer is
\* whatever the host heap holds there.
LoadBytes(m, addr, n) ==
  {b \in [0 .. n - 1 -> Byte] :
     \A k \in 0 .. n - 1 :
       LET c == <<RegionOf(addr), OffsetOf(addr) + k>>
       IN  c \in Cells => b[k] = m[c]}

LoadValues(m, addr, n) == {FromBytes(b, n) : b \in LoadBytes(m, addr, n)}

\* The n bytes b[0], b[1], .. written from addr on; what falls past the end
\* of the host buffer reaches no guest byte.
StoreBytes(m, addr, n, b) ==
  [c \in Cells |->
     LET k == c[2] - OffsetOf(addr)
     IN  IF c[1] = RegionOf(addr) /\ k \in 0 .. n - 1 THEN b[k] ELSE m[c]]

\* Mutant of StoreValue: the most significant byte first.
StoreReversed(m, addr, n, v) ==
  StoreBytes(m, addr, n, [k \in 0 .. n - 1 |-> ByteOf(v, n - 1 - k)])

StoreValue(m, addr, n, v) ==
  StoreBytes(m, addr, n, [k \in 0 .. n - 1 |-> ByteOf(v, k)])
=============================================================================
