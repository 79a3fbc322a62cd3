----------------------------- MODULE FloatInsns -----------------------------
(***************************************************************************)
(* The floating-point instructions (dispatch.c, ext/rv32fd.c).  A register *)
(* is a u64: its two words, a single in the lower one and all ones above.  *)
(* What arithmetic computes is a choice among FloatResults; which register *)
(* it goes to, in which form, and whether the instruction does anything at *)
(* all, is the code's.  Where the host's cast of a float to an integer is  *)
(* undefined it too yields one of the words of FloatResults.               *)
(***************************************************************************)
EXTENDS Hart

\* Mutant of Boxed: a single is zero-extended.
Unboxed(v) == [hi |-> 0, lo |-> v]

\* rvfloat_nanbox_saturate; rvfloat_nanbox_unpack is the lower word.
Boxed(v) == [hi |-> WordMod - 1, lo |-> v]

WriteFreg(rd, d) == fregs' = [fregs EXCEPT ![rd] = d]

\* A result of the given width, as a register holds it.
InWidth(width, d) == IF width = SINGLE THEN Boxed(d.lo) ELSE d

-----------------------------------------------------------------------------
(***************************************************************************)
(* Arithmetic, comparisons and conversions.                                *)
(***************************************************************************)
ResultWidth(i) ==
  IF i.insn_ty = "FCVT_S_D" THEN SINGLE
  ELSE IF i.insn_ty = "FCVT_D_S" THEN DOUBLE
  ELSE i.funct

ExecFloat(i) ==
  /\ i.insn_ty \in Arithmetic \cup MinMax \cup FromInt \cup Conversions
  /\ ResultWidth(i) \in Widths
  /\ \E d \in FloatResults : WriteFreg(i.rd, InWidth(ResultWidth(i), d))
  /\ regs' = X
  /\ NextInsn
  /\ UNCHANGED <<suspended, mem, sz_alloc, host>>

ExecFloatToReg(i) ==
  /\ i.insn_ty \in Comparisons \cup ToInt
  /\ i.funct \in Widths
  /\ \E v \in IF i.insn_ty \in Comparisons THEN {0, 1}
              ELSE {d.lo : d \in FloatResults} :
       WriteReg(i.rd, v)
  /\ NextInsn
  /\ UNCHANGED <<fregs, suspended, mem, sz_alloc, host>>

\* The switches on funct without a default.
ExecFloatIgnored(i) ==
  /\ i.insn_ty \in WidthOptional
  /\ i.funct \notin Widths
  /\ regs' = X
  /\ NextInsn
  /\ UNCHANGED <<fregs, suspended, mem, sz_alloc, host>>

\* The ones whose default is __builtin_unreachable.
FloatUnreachable(i) ==
  /\ i.insn_ty \in WidthRequired
  /\ i.funct \notin Widths
  /\ HostDies("undefined")

-----------------------------------------------------------------------------
(***************************************************************************)
(* Moves.                                                                  *)
(***************************************************************************)
ExecFmvToReg(i) ==
  /\ i.insn_ty = "FMV_X_W"
  /\ WriteReg(i.rd, fregs[i.rs1].lo)
  /\ NextInsn
  /\ UNCHANGED <<fregs, suspended, mem, sz_alloc, host>>

ExecFmvFromReg(i) ==
  /\ i.insn_ty = "FMV_W_X"
  /\ WriteFreg(i.rd, Boxed(X[i.rs1]))
  /\ regs' = X
  /\ NextInsn
  /\ UNCHANGED <<suspended, mem, sz_alloc, host>>

\* Mutant of ExecFclass: the pc moves as for the others.
FclassMoves(i) == i.insn_ty = "FCLASSx" /\ Suspends

\* Unlike the other instructions that suspend, it returns before the pc moves.
ExecFclass(i) ==
  /\ i.insn_ty = "FCLASSx"
  /\ suspended' = TRUE
  /\ regs' = X
  /\ UNCHANGED <<fregs, pc, mem, sz_alloc, host>>

-----------------------------------------------------------------------------
(***************************************************************************)
(* Loads and stores.                                                       *)
(***************************************************************************)
\* Mutant of FloatSize: FLW and FSW move eight bytes.
FloatSizeWide(i) == 8

FloatSize(i) == IF i.funct = SINGLE THEN 4 ELSE 8

Transfers(i, ty) ==
  i.insn_ty = ty /\ i.funct \in Widths /\ Mapped(Address(i))

\* The k-th byte of a register in memory order.
FloatByte(d, k) == IF k < 4 THEN ByteOf(d.lo, k) ELSE ByteOf(d.hi, k - 4)

\* Mutant of DoubleOf: the words of a double in the wrong order.
DoubleSwapped(b) ==
  [hi |-> FromBytes(b, 4), lo |-> FromBytes([k \in 0 .. 3 |-> b[k + 4]], 4)]

\* The register that eight bytes make.
DoubleOf(b) ==
  [lo |-> FromBytes(b, 4), hi |-> FromBytes([k \in 0 .. 3 |-> b[k + 4]], 4)]

ExecFloatLoad(i) ==
  /\ Transfers(i, "FLx")
  /\ \E b \in LoadBytes(mem, Address(i), FloatSize(i)) :
       WriteFreg(i.rd, IF i.funct = SINGLE THEN Boxed(FromBytes(b, 4))
                       ELSE DoubleOf(b))
  /\ regs' = X
  /\ NextInsn
  /\ UNCHANGED <<suspended, mem, sz_alloc, host>>

ExecFloatStore(i) ==
  /\ Transfers(i, "FSx")
  /\ mem' = StoreBytes(mem, Address(i), FloatSize(i),
              [k \in 0 .. FloatSize(i) - 1 |-> FloatByte(fregs[i.rs2], k)])
  /\ regs' = X
  /\ NextInsn
  /\ UNCHANGED <<fregs, suspended, sz_alloc, host>>

ExecFloatStoreOverrun(i) ==
  /\ Transfers(i, "FSx") /\ ~Fits(Address(i), FloatSize(i))
  /\ HostDies("undefined")

FloatFault(i) ==
  /\ i.insn_ty \in {"FLx", "FSx"} /\ i.funct \in Widths
  /\ ~Mapped(Address(i))
  /\ HostDies("trapped")

-----------------------------------------------------------------------------
\* The floating-point cases of rvemu_dispatch.
DispatchFloat(i) ==
  \/ ExecFloat(i)      \/ ExecFloatToReg(i) \/ ExecFloatIgnored(i)
  \/ FloatUnreachable(i)
  \/ ExecFmvToReg(i)   \/ ExecFmvFromReg(i) \/ ExecFclass(i)
  \/ ExecFloatLoad(i)  \/ ExecFloatStore(i) \/ ExecFloatStoreOverrun(i)
  \/ FloatFault(i)
=============================================================================
