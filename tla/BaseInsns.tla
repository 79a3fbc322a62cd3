----------------------------- MODULE BaseInsns -----------------------------
(***************************************************************************)
(* The instructions of RV32I and of the M extension (dispatch.c), except   *)
(* for the system calls.                                                   *)
(***************************************************************************)
EXTENDS Hart

-----------------------------------------------------------------------------
(***************************************************************************)
(* Arithmetic.                                                             *)
(***************************************************************************)
Operation(i, op, a, b) ==
  /\ ~DivTraps(op, a, b)
  /\ WriteReg(i.rd, Compute(op, a, b))
  /\ NextInsn
  /\ UNCHANGED <<fregs, suspended, mem, sz_alloc, host>>

ExecReg(i) ==
  i.insn_ty \in RegOps /\ Operation(i, i.insn_ty, X[i.rs1], X[i.rs2])

ExecDivTrap(i) ==
  /\ i.insn_ty \in RegOps
  /\ DivTraps(i.insn_ty, X[i.rs1], X[i.rs2])
  /\ HostDies("sigfpe")

ExecImm(i) ==
  i.insn_ty \in DOMAIN ImmOp /\ Operation(i, ImmOp[i.insn_ty], X[i.rs1], i.imm)

ExecUpper(i) ==
  /\ i.insn_ty \in {"LUI", "AUIPC"}
  /\ WriteReg(i.rd, (IF i.insn_ty = "LUI" THEN 0 ELSE pc) + i.imm * UpperUnit)
  /\ NextInsn
  /\ UNCHANGED <<fregs, suspended, mem, sz_alloc, host>>

-----------------------------------------------------------------------------
(***************************************************************************)
(* Loads and stores.                                                       *)
(***************************************************************************)
\* Mutant of Extended: LB and LH do what LBU and LHU do.
ZeroExtended(ty, v) == v

\* The value a register receives from the bytes read.
Extended(ty, v) ==
  IF ty = "LB" THEN SignExtend(v, ByteMod)
  ELSE IF ty = "LH" THEN SignExtend(v, HalfMod)
  ELSE v

ExecLoad(i) ==
  /\ i.insn_ty \in DOMAIN LoadSize
  /\ Mapped(Address(i))
  /\ \E v \in LoadValues(mem, Address(i), LoadSize[i.insn_ty]) :
       WriteReg(i.rd, Extended(i.insn_ty, v))
  /\ NextInsn
  /\ UNCHANGED <<fregs, suspended, mem, sz_alloc, host>>

ExecStore(i) ==
  /\ i.insn_ty \in DOMAIN StoreSize
  /\ Mapped(Address(i))
  /\ mem' = StoreValue(mem, Address(i), StoreSize[i.insn_ty], X[i.rs2])
  /\ regs' = X
  /\ NextInsn
  /\ UNCHANGED <<fregs, suspended, sz_alloc, host>>

\* A store past the end of the host buffer may also break the host's heap.
ExecStoreOverrun(i) ==
  /\ i.insn_ty \in DOMAIN StoreSize
  /\ Mapped(Address(i)) /\ ~Fits(Address(i), StoreSize[i.insn_ty])
  /\ HostDies("undefined")

AccessFault(i) ==
  /\ i.insn_ty \in DOMAIN LoadSize \cup DOMAIN StoreSize
  /\ ~Mapped(Address(i))
  /\ HostDies("trapped")

-----------------------------------------------------------------------------
(***************************************************************************)
(* Control transfer.                                                       *)
(***************************************************************************)
Taken(i) ==
  LET a == X[i.rs1]
      b == X[i.rs2]
  IN  \/ i.insn_ty = "BEQ"  /\ a = b
      \/ i.insn_ty = "BNE"  /\ a # b
      \/ i.insn_ty = "BLT"  /\ Signed(a) < Signed(b)
      \/ i.insn_ty = "BGE"  /\ Signed(a) >= Signed(b)
      \/ i.insn_ty = "BLTU" /\ a < b
      \/ i.insn_ty = "BGEU" /\ a >= b

ExecBranch(i) ==
  /\ i.insn_ty \in Branches
  /\ pc' = Wrap(pc + (IF Taken(i) THEN i.imm ELSE RISCV_INSNLEN))
  /\ regs' = X
  /\ UNCHANGED <<fregs, suspended, mem, sz_alloc, host>>

ExecJal(i) ==
  /\ i.insn_ty = "JAL"
  /\ WriteReg(i.rd, pc + RISCV_INSNLEN)
  /\ pc' = Wrap(pc + i.imm)
  /\ UNCHANGED <<fregs, suspended, mem, sz_alloc, host>>

\* The target is computed before rd, which may be rs1, is written.
ExecJalr(i) ==
  /\ i.insn_ty = "JALR"
  /\ WriteReg(i.rd, pc + RISCV_INSNLEN)
  /\ pc' = ClearBit0(Address(i))
  /\ UNCHANGED <<fregs, suspended, mem, sz_alloc, host>>

-----------------------------------------------------------------------------
(***************************************************************************)
(* Environment and synchronisation instructions.                           *)
(***************************************************************************)
ExecEbreak(i) ==
  /\ i.insn_ty = "EBREAK"
  /\ regs' = X
  /\ NextInsn
  /\ UNCHANGED <<fregs, suspended, mem, sz_alloc, host>>

ExecFence(i) == i.insn_ty \in Fences /\ Suspends
=============================================================================
