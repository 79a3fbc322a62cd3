--------------------------- MODULE EmulatorProofs ---------------------------
(***************************************************************************)
(* What holds of the emulator for every table of regions, every decoder,   *)
(* every memory image and every width of a byte.  The inductive invariant  *)
(* is the conjunction of the type invariant and the bound on the break:    *)
(* each needs the type of the state before the step, and the bound needs   *)
(* nothing of the break but its old value.  Beside it, the lemmas about    *)
(* steps say that an even pc is followed by an even one.                   *)
(***************************************************************************)
EXTENDS Emulator, WordTheorems

IInv == TypeOK /\ BreakInReserve

\* What every step keeps.
Kept == IInv' /\ EvenKept

-----------------------------------------------------------------------------
(***************************************************************************)
(* Lemmas about the operators of the model.                                *)
(***************************************************************************)

\* A mapped address is translated by a region that contains it.
LEMMA TranslationType ==
  ASSUME NEW addr \in Word, Mapped(addr)
  PROVE  /\ RegionOf(addr) \in 1 .. NRegions
         /\ Translates(RegionOf(addr), addr)
         /\ OffsetOf(addr) \in Nat
         /\ Regions[RegionOf(addr)].vma_base \in Word
         /\ Regions[RegionOf(addr)].sz_reserved \in Word
<1>1. RegionOf(addr) \in 1 .. NRegions /\ Translates(RegionOf(addr), addr)
  BY DEF Mapped, RegionOf
<1>2. Regions[RegionOf(addr)] \in [vma_base : Word, sz_reserved : Word]
  BY <1>1, RegionsAssumption
<1> QED
  BY <1>1, <1>2, ModuliType DEF Translates, Contains, OffsetOf, Word

\* A region that contains an address does not wrap around: were its end, a u32
\* sum, to pass the top of the address space, it would be below the base.
LEMMA RegionEnd ==
  ASSUME NEW base \in Word, NEW size \in Word, NEW addr \in Word,
         base <= addr, addr < Wrap(base + size)
  PROVE  /\ base + size < WordMod
         /\ Wrap(base + size) = base + size
<1> DEFINE top == base + size
<1>1. top \in Int /\ 0 <= top /\ top < 2 * WordMod
  BY ModuliType DEF Word
<1>2. CASE WordMod <= top
  <2>1. Wrap(top) = top - WordMod
    <3> HIDE DEF top
    <3> QED
      BY <1>1, <1>2, WrapOnce
  <2>2. top - WordMod < base
    BY ModuliType DEF Word
  <2> QED
    BY <2>1, <2>2, ModuliType DEF Word
<1>3. CASE top < WordMod
  BY <1>1, <1>3, WrapSmall, ModuliType DEF Word
<1> QED
  BY <1>1, <1>2, <1>3, ModuliType

\* The offset of a mapped address is inside its region.
LEMMA OffsetInRegion ==
  ASSUME NEW addr \in Word, Mapped(addr)
  PROVE  OffsetOf(addr) < Regions[RegionOf(addr)].sz_reserved
BY TranslationType, RegionEnd, ModuliType DEF Translates, Contains, OffsetOf, Word

\* What a load may yield is an integer, and a word when four bytes are read.
LEMMA LoadValuesType ==
  ASSUME NEW m, NEW addr, NEW n \in {1, 2, 4}, NEW v \in LoadValues(m, addr, n)
  PROVE  v \in Int /\ (n = 4 => v \in Word)
<1>1. PICK b \in [0 .. n - 1 -> Byte] : v = FromBytes(b, n)
  BY DEF LoadValues, LoadBytes
<1>2. v \in Int
  BY <1>1, FromBytesType
<1>3. ASSUME n = 4 PROVE v \in Word
  BY <1>1, <1>3, FourBytesType
<1> QED
  BY <1>2, <1>3

\* A fetched word decodes to an instruction of the instruction set, and the
\* offset of a jump or a branch is even.
LEMMA FetchedType ==
  ASSUME NEW i \in Fetched
  PROVE  /\ i \in Insns
         /\ i.insn_ty \in Branches \cup {"JAL"} => i.imm % 2 = 0
<1>1. PICK w \in LoadValues(mem, pc, 4) : i = Decode[w]
  BY DEF Fetched
<1>2. w \in Word
  BY <1>1, LoadValuesType
<1> QED
  BY <1>1, <1>2, DecodeAssumption DEF IsDecoder

\* Writing bytes leaves a memory of bytes.
LEMMA StoreBytesType ==
  ASSUME NEW m \in [Cells -> Byte], NEW addr, NEW n \in Nat,
         NEW b \in [0 .. n - 1 -> Byte]
  PROVE  StoreBytes(m, addr, n, b) \in [Cells -> Byte]
BY DEF StoreBytes

LEMMA StoreValueType ==
  ASSUME NEW m \in [Cells -> Byte], NEW addr, NEW n \in {1, 2, 4}, NEW v \in Word
  PROVE  StoreValue(m, addr, n, v) \in [Cells -> Byte]
<1>1. [k \in 0 .. n - 1 |-> ByteOf(v, k)] \in [0 .. n - 1 -> Byte]
  BY ByteOfType
<1> QED
  BY <1>1, StoreBytesType DEF StoreValue

\* The operands of an instruction are words, and x0 reads as zero.
LEMMA OperandsType ==
  ASSUME TypeOK
  PROVE  X \in [Reg -> Word] /\ X[0] = 0
BY MachineAssumption, ModuliType DEF TypeOK, X, Word

\* A register file stays one under any write.
LEMMA WriteRegType ==
  ASSUME TypeOK, NEW rd \in Reg, NEW v \in Int, WriteReg(rd, v)
  PROVE  regs' \in [Reg -> Word]
BY OperandsType, WrapType DEF WriteReg

\* The address of the next instruction is a word, even after an even pc.
LEMMA NextInsnEven ==
  ASSUME TypeOK, NextInsn
  PROVE  pc' \in Word /\ EvenKept
<1>1. pc \in Int /\ pc + RISCV_INSNLEN \in Int
  BY ModuliType DEF TypeOK, RISCV_INSNLEN, Word
<1>2. pc % 2 = 0 => (pc + RISCV_INSNLEN) % 2 = 0
  BY <1>1 DEF RISCV_INSNLEN
<1> QED
  BY <1>1, <1>2, WrapType, WrapEven DEF NextInsn, EvenKept

\* The end of the process disturbs nothing but host.
LEMMA HostDiesType ==
  ASSUME IInv, NEW how \in HostStates, HostDies(how)
  PROVE  Kept
BY DEF HostDies, Kept, IInv, TypeOK, EvenKept, BreakInReserve

\* Reading rd off an instruction, and its operands as words.
LEMMA InsnFields ==
  ASSUME TypeOK, NEW i \in Insns
  PROVE  /\ i.rd \in Reg /\ i.rs1 \in Reg /\ i.rs2 \in Reg /\ i.imm \in Word
         /\ X[i.rs1] \in Word /\ X[i.rs2] \in Word
         /\ Address(i) \in Word
<1>1. i.rd \in Reg /\ i.rs1 \in Reg /\ i.rs2 \in Reg /\ i.imm \in Word
  BY DEF Insns
<1>2. X[i.rs1] \in Word /\ X[i.rs2] \in Word
  BY <1>1, OperandsType
<1>3. X[i.rs1] + i.imm \in Int
  BY <1>1, <1>2 DEF Word
<1> QED
  BY <1>1, <1>2, <1>3, WrapType DEF Address

\* An arithmetic instruction.
LEMMA OperationInv ==
  ASSUME IInv, NEW i \in Insns, NEW op \in RegOps,
         NEW a \in Word, NEW b \in Word, Operation(i, op, a, b)
  PROVE  Kept
<1>1. Compute(op, a, b) \in Int
  BY AluAssumption DEF ComputesWords, Operation, Word
<1>2. regs' \in [Reg -> Word]
  BY <1>1, InsnFields, WriteRegType DEF IInv, Operation
<1>3. pc' \in Word /\ EvenKept
  BY NextInsnEven DEF IInv, Operation
<1> QED
  BY <1>2, <1>3 DEF Operation, Kept, IInv, TypeOK, EvenKept, BreakInReserve

\* A load, whatever the bytes past the end of a region hold.
LEMMA LoadInv ==
  ASSUME IInv, NEW i \in Insns, ExecLoad(i)
  PROVE  Kept
<1>1. LoadSize[i.insn_ty] \in {1, 2, 4}
  BY DEF ExecLoad, LoadSize
<1>2. PICK v \in LoadValues(mem, Address(i), LoadSize[i.insn_ty]) :
        WriteReg(i.rd, Extended(i.insn_ty, v))
  BY DEF ExecLoad
<1>3. v \in Int
  BY <1>1, LoadValuesType
<1>4. Extended(i.insn_ty, v) \in Int
  BY <1>3, ByteModAssumption, ModuliType DEF Extended, SignExtend
<1>5. regs' \in [Reg -> Word]
  BY <1>2, <1>4, InsnFields, WriteRegType DEF IInv
<1>6. pc' \in Word /\ EvenKept
  BY NextInsnEven DEF IInv, ExecLoad
<1> QED
  BY <1>5, <1>6 DEF ExecLoad, Kept, IInv, TypeOK, EvenKept, BreakInReserve

\* A store, through the end of a region or not.
LEMMA StoreInv ==
  ASSUME IInv, NEW i \in Insns, ExecStore(i)
  PROVE  Kept
<1>1. StoreSize[i.insn_ty] \in {1, 2, 4}
  BY DEF ExecStore, StoreSize
<1>2. mem' \in [Cells -> Byte]
  BY <1>1, InsnFields, StoreValueType DEF IInv, TypeOK, ExecStore
<1>3. regs' \in [Reg -> Word]
  BY OperandsType DEF IInv, ExecStore
<1>4. pc' \in Word /\ EvenKept
  BY NextInsnEven DEF IInv, ExecStore
<1> QED
  BY <1>2, <1>3, <1>4 DEF ExecStore, Kept, IInv, TypeOK, EvenKept, BreakInReserve

\* The control transfers: the offsets of branches and of jal are even.
LEMMA TransferInv ==
  ASSUME IInv, NEW i \in Insns,
         i.insn_ty \in Branches \cup {"JAL"} => i.imm % 2 = 0,
         ExecBranch(i) \/ ExecJal(i) \/ ExecJalr(i)
  PROVE  Kept
<1>1. /\ pc \in Int /\ pc + RISCV_INSNLEN \in Int
      /\ pc % 2 = 0 => (pc + RISCV_INSNLEN) % 2 = 0
  BY ModuliType DEF IInv, TypeOK, RISCV_INSNLEN, Word
<1>2. ASSUME i.imm % 2 = 0
      PROVE  pc + i.imm \in Int /\ (pc % 2 = 0 => (pc + i.imm) % 2 = 0)
  BY <1>2, InsnFields, ModuliType DEF IInv, TypeOK, Word
<1>3. CASE ExecBranch(i)
  <2>1. pc' \in Word /\ EvenKept
    BY <1>1, <1>2, <1>3, WrapType, WrapEven DEF ExecBranch, EvenKept
  <2>2. regs' \in [Reg -> Word]
    BY <1>3, OperandsType DEF IInv, ExecBranch
  <2> QED
    BY <1>3, <2>1, <2>2 DEF ExecBranch, Kept, IInv, TypeOK, EvenKept, BreakInReserve
<1>4. CASE ExecJal(i)
  <2>1. pc' \in Word /\ EvenKept
    BY <1>2, <1>4, WrapType, WrapEven DEF ExecJal, EvenKept
  <2>2. regs' \in [Reg -> Word]
    BY <1>1, <1>4, InsnFields, WriteRegType DEF IInv, ExecJal
  <2> QED
    BY <1>4, <2>1, <2>2 DEF ExecJal, Kept, IInv, TypeOK, EvenKept, BreakInReserve
<1>5. CASE ExecJalr(i)
  <2>1. pc' \in Word /\ EvenKept
    BY <1>5, InsnFields, ClearBit0Even DEF IInv, ExecJalr, EvenKept
  <2>2. regs' \in [Reg -> Word]
    BY <1>1, <1>5, InsnFields, WriteRegType DEF IInv, ExecJalr
  <2> QED
    BY <1>5, <2>1, <2>2 DEF ExecJalr, Kept, IInv, TypeOK, EvenKept, BreakInReserve
<1> QED
  BY <1>3, <1>4, <1>5

\* rvsysc_brk: within the reserve, the u32 sum of syscall.c:46 is the distance
\* of the new break from the base of the heap, however often it wraps.
LEMMA BrkArithmetic ==
  ASSUME TypeOK, BreakInReserve, NEW brk \in Word, MinBrk <= brk, brk <= MaxBrk
  PROVE  /\ Wrap(sz_alloc + brk - CurrentBrk) = brk - MinBrk
         /\ brk - MinBrk \in Word
         /\ brk - MinBrk <= Regions[Heap].sz_reserved
<1>1. Regions[Heap] \in [vma_base : Word, sz_reserved : Word]
  BY RegionsAssumption
<1>2. /\ MinBrk \in Word /\ Regions[Heap].sz_reserved \in Word
      /\ sz_alloc \in Word
  BY <1>1 DEF MinBrk, TypeOK
<1>3. brk - MinBrk \in Word
  BY <1>2, ModuliType DEF Word
<1>4. MaxBrk <= MinBrk + Regions[Heap].sz_reserved
  <2> DEFINE top == MinBrk + Regions[Heap].sz_reserved
  <2>1. top \in Int /\ 0 <= top /\ top < 2 * WordMod
    BY <1>2, ModuliType DEF Word
  <2>2. CASE top < WordMod
    BY <2>1, <2>2, WrapSmall, ModuliType DEF MaxBrk, Word
  <2>3. CASE WordMod <= top
    <3>1. MaxBrk = top - WordMod
      BY <2>1, <2>3, WrapOnce DEF MaxBrk
    <3> QED
      BY <2>1, <3>1, ModuliType
  <2> QED
    BY <2>1, <2>2, <2>3, ModuliType
<1>5. Wrap(sz_alloc + brk - CurrentBrk) = brk - MinBrk
  <2> DEFINE s == MinBrk + sz_alloc
  <2>1. s \in Int /\ 0 <= s /\ s < 2 * WordMod
    BY <1>2, ModuliType DEF Word
  <2>2. CASE s < WordMod
    <3>1. CurrentBrk = s
      BY <2>1, <2>2, WrapSmall, ModuliType DEF CurrentBrk, Word
    <3>2. sz_alloc + brk - CurrentBrk = brk - MinBrk
      BY <1>2, <3>1 DEF Word
    <3> QED
      BY <1>3, <3>2, WrapSmall
  <2>3. CASE WordMod <= s
    <3>1. CurrentBrk = s - WordMod
      BY <2>1, <2>3, WrapOnce DEF CurrentBrk
    <3> DEFINE d == sz_alloc + brk - CurrentBrk
    <3>2. d \in Int /\ d = (brk - MinBrk) + WordMod
      BY <1>2, <3>1, ModuliType DEF Word
    <3>3. WordMod <= d /\ d < 2 * WordMod /\ d - WordMod = brk - MinBrk
      BY <1>3, <3>2, ModuliType DEF Word
    <3> QED
      BY <3>2, <3>3, WrapOnce
  <2> QED
    BY <2>1, <2>2, <2>3, ModuliType
<1>6. brk - MinBrk <= Regions[Heap].sz_reserved
  <2>1. MaxBrk \in Int
    BY <1>2, WrapType DEF MaxBrk, Word
  <2> QED
    BY <1>2, <1>4, <2>1 DEF Word
<1> QED
  BY <1>3, <1>5, <1>6

LEMMA CurrentBrkType == ASSUME TypeOK PROVE CurrentBrk \in Word
<1>1. Regions[Heap] \in [vma_base : Word, sz_reserved : Word]
  BY RegionsAssumption
<1>2. MinBrk + sz_alloc \in Int
  BY <1>1 DEF MinBrk, TypeOK, Word
<1> QED
  BY <1>2, WrapType DEF CurrentBrk

\* What every system call that returns to the guest does to regs and pc.
LEMMA ReturnsType ==
  ASSUME IInv, NEW v \in Int, Returns(v)
  PROVE  regs' \in [Reg -> Word] /\ pc' \in Word /\ EvenKept
<1>1. 10 \in Reg
  BY MachineAssumption
<1> QED
  BY <1>1, WriteRegType, NextInsnEven DEF Returns, IInv

\* The arguments of a system call are words.
LEMMA ArgumentsType ==
  ASSUME TypeOK
  PROVE  X[10] \in Word /\ X[11] \in Word /\ X[12] \in Word /\ X[17] \in Word
BY OperandsType, MachineAssumption

LEMMA BrkInv ==
  ASSUME IInv, NEW i \in Insns, SysBrk(i)
  PROVE  Kept
<1> DEFINE brk == X[10]
<1>1. brk \in Word
  BY ArgumentsType DEF IInv
<1>2. CASE brk = 0 \/ brk < MinBrk \/ brk > MaxBrk
  <2>1. Returns(CurrentBrk) /\ sz_alloc' = sz_alloc /\ mem' = mem
    BY <1>2 DEF SysBrk, OutsideHeap
  <2>2. regs' \in [Reg -> Word] /\ pc' \in Word /\ EvenKept
    BY <2>1, CurrentBrkType, ReturnsType DEF IInv, Word
  <2> QED
    BY <2>1, <2>2 DEF Returns, Kept, IInv, TypeOK, EvenKept, BreakInReserve
<1>3. CASE ~(brk = 0 \/ brk < MinBrk \/ brk > MaxBrk)
  <2>1. /\ Returns(brk) /\ mem' = mem
        /\ sz_alloc' = Wrap(sz_alloc + brk - CurrentBrk)
    BY <1>3 DEF SysBrk, OutsideHeap
  <2>2. MinBrk \in Int /\ MaxBrk \in Int
    <3>1. Regions[Heap] \in [vma_base : Word, sz_reserved : Word]
      BY RegionsAssumption
    <3> QED
      BY <3>1, WrapType DEF MinBrk, MaxBrk, Word
  <2>3. sz_alloc' \in Word /\ sz_alloc' <= Regions[Heap].sz_reserved
    BY <1>1, <1>3, <2>1, <2>2, BrkArithmetic DEF IInv, Word
  <2>4. regs' \in [Reg -> Word] /\ pc' \in Word /\ EvenKept
    BY <1>1, <2>1, ReturnsType DEF Word
  <2> QED
    BY <2>1, <2>3, <2>4 DEF Returns, Kept, IInv, TypeOK, EvenKept, BreakInReserve
<1> QED
  BY <1>2, <1>3

\* The system calls that reach the host with a guest buffer.
LEMMA HostCallInv ==
  ASSUME IInv, NEW i \in Insns, SysRead(i) \/ SysWrite(i) \/ SysFstat(i)
  PROVE  Kept
<1>1. CASE SysRead(i)
  BY <1>1, ReturnsType
     DEF SysRead, Returns, Kept, IInv, TypeOK, EvenKept, BreakInReserve
<1>2. CASE SysWrite(i)
  <2>1. PICK n \in {-1} \cup 0 .. X[12] : Returns(n)
    BY <1>2 DEF SysWrite
  <2>2. n \in Int
    BY <2>1, ArgumentsType DEF IInv, Word
  <2> QED
    BY <1>2, <2>1, <2>2, ReturnsType
       DEF SysWrite, Returns, Kept, IInv, TypeOK, EvenKept, BreakInReserve
<1>3. CASE SysFstat(i)
  <2>1. mem' \in [Cells -> Byte]
    <3>1. CASE mem' = mem
      BY <3>1 DEF IInv, TypeOK
    <3>2. ASSUME NEW b \in [0 .. StatSize - 1 -> Byte],
                 mem' = StoreBytes(mem, X[11], StatSize, b)
          PROVE  mem' \in [Cells -> Byte]
      BY <3>2, StoreBytesType, MachineAssumption DEF IInv, TypeOK
    <3> QED
      BY <1>3, <3>1, <3>2 DEF SysFstat
  <2>2. PICK v \in Int : Returns(v)
    BY <1>3 DEF SysFstat
  <2> QED
    BY <1>3, <2>1, <2>2, ReturnsType
       DEF SysFstat, Returns, Kept, IInv, TypeOK, EvenKept, BreakInReserve
<1> QED
  BY <1>1, <1>2, <1>3

\* The steps that only leave the next instruction to run, or none.
LEMMA SuspendInv ==
  ASSUME IInv, NEW i \in Insns,
         Reject(i) \/ ExecEbreak(i) \/ Suspends
  PROVE  Kept
<1>1. X \in [Reg -> Word]
  BY OperandsType DEF IInv
<1>2. CASE Reject(i)
  BY <1>1, <1>2 DEF Reject, Kept, IInv, TypeOK, EvenKept, BreakInReserve
<1>3. CASE ExecEbreak(i)
  BY <1>1, <1>3, NextInsnEven
     DEF ExecEbreak, Kept, IInv, TypeOK, EvenKept, BreakInReserve
<1>4. CASE Suspends
  BY <1>1, <1>4, NextInsnEven
     DEF Suspends, Kept, IInv, TypeOK, EvenKept, BreakInReserve
<1> QED
  BY <1>2, <1>3, <1>4

-----------------------------------------------------------------------------
(***************************************************************************)
(* The floating-point instructions.                                        *)
(***************************************************************************)

\* A boxed word is a register's value.
LEMMA BoxedType == \A v \in Word : Boxed(v) \in Doubles
BY ModuliType DEF Boxed, Doubles, Word

\* The floating-point register file stays one under any write.
LEMMA WriteFregType ==
  ASSUME TypeOK, NEW rd \in Reg, NEW d \in Doubles, WriteFreg(rd, d)
  PROVE  fregs' \in [Reg -> Doubles]
BY DEF WriteFreg, TypeOK

\* The bytes of a register are bytes.
LEMMA FloatByteType ==
  ASSUME NEW d \in Doubles, NEW k \in 0 .. 7
  PROVE  FloatByte(d, k) \in Byte
<1>1. d.lo \in Word /\ d.hi \in Word
  BY DEF Doubles
<1>2. CASE k < 4
  BY <1>1, <1>2, ByteOfType DEF FloatByte
<1>3. CASE ~(k < 4)
  BY <1>1, <1>3, ByteOfType DEF FloatByte
<1> QED
  BY <1>2, <1>3

\* What a floating-point step that writes fregs, regs or memory leaves.
LEMMA FloatStepInv ==
  ASSUME IInv, fregs' \in [Reg -> Doubles], regs' \in [Reg -> Word],
         mem' \in [Cells -> Byte], NextInsn,
         UNCHANGED <<suspended, sz_alloc, host>>
  PROVE  Kept
BY NextInsnEven DEF Kept, IInv, TypeOK, EvenKept, BreakInReserve

LEMMA FloatComputeInv ==
  ASSUME IInv, NEW i \in Insns,
         ExecFloat(i) \/ ExecFloatToReg(i) \/ ExecFloatIgnored(i)
  PROVE  Kept
<1>1. CASE ExecFloat(i)
  <2>1. PICK d \in FloatResults : WriteFreg(i.rd, InWidth(ResultWidth(i), d))
    BY <1>1 DEF ExecFloat
  <2>2. d \in Doubles /\ d.lo \in Word
    BY <2>1, MachineAssumption DEF Doubles
  <2>3. InWidth(ResultWidth(i), d) \in Doubles
    BY <2>2, BoxedType DEF InWidth
  <2>4. fregs' \in [Reg -> Doubles] /\ regs' \in [Reg -> Word]
    BY <1>1, <2>1, <2>3, InsnFields, WriteFregType, OperandsType
       DEF IInv, ExecFloat
  <2> QED
    BY <1>1, <2>4, FloatStepInv DEF ExecFloat, IInv, TypeOK
<1>2. CASE ExecFloatToReg(i)
  <2>1. PICK v : v \in Int /\ WriteReg(i.rd, v)
    <3>1. \A d \in FloatResults : d.lo \in Int
      BY MachineAssumption DEF Doubles, Word
    <3> QED
      BY <1>2, <3>1 DEF ExecFloatToReg
  <2>2. regs' \in [Reg -> Word]
    BY <2>1, InsnFields, WriteRegType DEF IInv
  <2> QED
    BY <1>2, <2>2, FloatStepInv DEF ExecFloatToReg, IInv, TypeOK
<1>3. CASE ExecFloatIgnored(i)
  BY <1>3, OperandsType, FloatStepInv DEF ExecFloatIgnored, IInv, TypeOK
<1> QED
  BY <1>1, <1>2, <1>3

LEMMA FloatMoveInv ==
  ASSUME IInv, NEW i \in Insns,
         ExecFmvToReg(i) \/ ExecFmvFromReg(i) \/ ExecFclass(i)
  PROVE  Kept
<1>1. CASE ExecFmvToReg(i)
  <2>1. fregs[i.rs1].lo \in Int
    BY InsnFields DEF IInv, TypeOK, Doubles, Word
  <2>2. regs' \in [Reg -> Word]
    BY <1>1, <2>1, InsnFields, WriteRegType DEF IInv, ExecFmvToReg
  <2> QED
    BY <1>1, <2>2, FloatStepInv DEF ExecFmvToReg, IInv, TypeOK
<1>2. CASE ExecFmvFromReg(i)
  <2>1. fregs' \in [Reg -> Doubles] /\ regs' \in [Reg -> Word]
    BY <1>2, InsnFields, BoxedType, WriteFregType, OperandsType
       DEF IInv, ExecFmvFromReg
  <2> QED
    BY <1>2, <2>1, FloatStepInv DEF ExecFmvFromReg, IInv, TypeOK
<1>3. CASE ExecFclass(i)
  BY <1>3, OperandsType DEF ExecFclass, Kept, IInv, TypeOK, EvenKept, BreakInReserve
<1> QED
  BY <1>1, <1>2, <1>3

\* A load, whatever the bytes past the end of a region hold.
LEMMA FloatLoadInv ==
  ASSUME IInv, NEW i \in Insns, ExecFloatLoad(i)
  PROVE  Kept
<1> DEFINE n == FloatSize(i)
           d(b) == IF i.funct = SINGLE THEN Boxed(FromBytes(b, 4))
                   ELSE DoubleOf(b)
<1>1. PICK b \in [0 .. n - 1 -> Byte] : WriteFreg(i.rd, d(b))
  BY DEF ExecFloatLoad, LoadBytes
<1>2. d(b) \in Doubles
  <2>1. CASE i.funct = SINGLE
    <3>1. \A k \in 0 .. 3 : b[k] \in Byte
      BY <1>1, <2>1 DEF FloatSize
    <3> QED
      BY <2>1, <3>1, FourBytesType, BoxedType
  <2>2. CASE i.funct # SINGLE
    <3>1. \A k \in 0 .. 7 : b[k] \in Byte
      BY <1>1, <2>2 DEF FloatSize
    <3>2. FromBytes(b, 4) \in Word
      <4>1. \A k \in 0 .. 3 : b[k] \in Byte
        BY <3>1
      <4> QED
        BY <4>1, FourBytesType
    <3>3. [k \in 0 .. 3 |-> b[k + 4]] \in [0 .. 3 -> Byte]
      BY <3>1
    <3>4. FromBytes([k \in 0 .. 3 |-> b[k + 4]], 4) \in Word
      BY <3>3, FourBytesType
    <3> QED
      BY <2>2, <3>2, <3>4 DEF DoubleOf, Doubles
  <2> QED
    BY <2>1, <2>2
<1> HIDE DEF d
<1>3. fregs' \in [Reg -> Doubles] /\ regs' \in [Reg -> Word]
  BY <1>1, <1>2, InsnFields, WriteFregType, OperandsType DEF IInv, ExecFloatLoad
<1> QED
  BY <1>3, FloatStepInv DEF ExecFloatLoad, IInv, TypeOK

LEMMA FloatStoreInv ==
  ASSUME IInv, NEW i \in Insns, ExecFloatStore(i)
  PROVE  Kept
<1> DEFINE n == FloatSize(i)
           b == [k \in 0 .. n - 1 |-> FloatByte(fregs[i.rs2], k)]
<1>1. n \in {4, 8}
  BY DEF FloatSize
<1>2. fregs[i.rs2] \in Doubles
  BY InsnFields DEF IInv, TypeOK
<1>3. b \in [0 .. n - 1 -> Byte]
  BY <1>1, <1>2, FloatByteType
<1>4. mem' = StoreBytes(mem, Address(i), n, b)
  BY DEF ExecFloatStore
<1> HIDE DEF n, b
<1>5. mem' \in [Cells -> Byte]
  BY <1>1, <1>3, <1>4, StoreBytesType DEF IInv, TypeOK
<1>6. fregs' \in [Reg -> Doubles] /\ regs' \in [Reg -> Word]
  BY OperandsType DEF IInv, TypeOK, ExecFloatStore
<1> QED
  BY <1>5, <1>6, FloatStepInv DEF ExecFloatStore

LEMMA DispatchFloatInv ==
  ASSUME IInv, NEW i \in Insns, DispatchFloat(i)
  PROVE  Kept
<1>1. CASE FloatUnreachable(i) \/ ExecFloatStoreOverrun(i) \/ FloatFault(i)
  BY <1>1, HostDiesType
     DEF FloatUnreachable, ExecFloatStoreOverrun, FloatFault, HostStates
<1> QED
  BY <1>1, FloatComputeInv, FloatMoveInv, FloatLoadInv, FloatStoreInv
     DEF DispatchFloat

-----------------------------------------------------------------------------
(***************************************************************************)
(* The invariant: one case per disjunct of rvemu_dispatch and rvemu_step.  *)
(***************************************************************************)
LEMMA InitInv == Init => IInv
<1> SUFFICES ASSUME Init PROVE IInv
  OBVIOUS
<1>1. regs \in [Reg -> Word] /\ fregs \in [Reg -> Doubles]
  BY MachineAssumption, ModuliType DEF Init, Doubles, Word
<1>2. Regions[Heap] \in [vma_base : Word, sz_reserved : Word]
  BY RegionsAssumption
<1>3. pc \in Word /\ mem \in [Cells -> Byte]
  BY MachineAssumption DEF Init
<1>4. sz_alloc \in Word /\ sz_alloc <= Regions[Heap].sz_reserved
  BY <1>2, ModuliType DEF Init, Word
<1>5. suspended \in BOOLEAN /\ host \in HostStates
  BY DEF Init, HostStates
<1> QED
  BY <1>1, <1>3, <1>4, <1>5 DEF IInv, TypeOK, BreakInReserve

LEMMA DispatchInv ==
  ASSUME IInv, NEW i \in Insns,
         i.insn_ty \in Branches \cup {"JAL"} => i.imm % 2 = 0,
         Dispatch(i)
  PROVE  Kept
<1> USE InsnFields DEF IInv
<1>1. CASE ExecReg(i)
  BY <1>1, OperationInv DEF ExecReg
<1>2. CASE ExecImm(i)
  <2>1. ImmOp[i.insn_ty] \in RegOps
    BY <1>2 DEF ExecImm, ImmOp, RegOps
  <2> QED
    BY <1>2, <2>1, OperationInv DEF ExecImm
<1>3. CASE ExecUpper(i)
  <2>1. i.imm * UpperUnit \in Int
    BY MachineAssumption DEF Word
  <2>2. regs' \in [Reg -> Word]
    <3>1. CASE i.insn_ty = "LUI"
      BY <1>3, <2>1, <3>1, WriteRegType DEF ExecUpper
    <3>2. CASE i.insn_ty = "AUIPC"
      <4>1. pc + i.imm * UpperUnit \in Int
        BY <2>1 DEF TypeOK, Word
      <4> QED
        BY <1>3, <3>2, <4>1, WriteRegType DEF ExecUpper
    <3> QED
      BY <1>3, <3>1, <3>2 DEF ExecUpper
  <2>3. pc' \in Word /\ EvenKept
    BY <1>3, NextInsnEven DEF ExecUpper
  <2> QED
    BY <1>3, <2>2, <2>3 DEF ExecUpper, Kept, TypeOK, EvenKept, BreakInReserve
<1>4. CASE ExecLoad(i)
  BY <1>4, LoadInv
<1>5. CASE ExecStore(i)
  BY <1>5, StoreInv
<1>6. CASE ExecBranch(i) \/ ExecJal(i) \/ ExecJalr(i)
  BY <1>6, TransferInv
<1>7. CASE SysRead(i) \/ SysWrite(i) \/ SysFstat(i)
  BY <1>7, HostCallInv
<1>8. CASE SysBrk(i)
  BY <1>8, BrkInv
<1>9. CASE ExecEbreak(i) \/ ExecFence(i) \/ SysExit(i) \/ SysUnknown(i)
  BY <1>9, SuspendInv DEF ExecFence, SysExit, SysUnknown
<1>10. CASE \/ ExecDivTrap(i) \/ ExecStoreOverrun(i) \/ AccessFault(i)
            \/ SysFstatOverrun(i) \/ SysFault(i)
  BY <1>10, HostDiesType
     DEF ExecDivTrap, ExecStoreOverrun, AccessFault, SysFstatOverrun,
         SysFault, HostStates
<1>11. CASE DispatchFloat(i)
  BY <1>11, DispatchFloatInv
<1> QED
  BY <1>1, <1>2, <1>3, <1>4, <1>5, <1>6, <1>7, <1>8, <1>9, <1>10, <1>11
     DEF Dispatch

LEMMA NextKeeps == IInv /\ [Next]_vars => Kept
<1> SUFFICES ASSUME IInv, [Next]_vars PROVE Kept
  OBVIOUS
<1>1. CASE Next
  <2>1. CASE FetchFault
    BY <2>1, HostDiesType DEF FetchFault, HostStates
  <2>2. ASSUME NEW i \in Fetched,
               \/ Reject(i) \/ RejectFatal(i) \/ RejectUnreachable(i)
               \/ Dispatch(i)
        PROVE  Kept
    <3>1. CASE Reject(i)
      BY <2>2, <3>1, FetchedType, SuspendInv
    <3>2. CASE RejectFatal(i) \/ RejectUnreachable(i)
      BY <3>2, HostDiesType DEF RejectFatal, RejectUnreachable, HostStates
    <3>3. CASE Dispatch(i)
      BY <2>2, <3>3, FetchedType, DispatchInv
    <3> QED
      BY <2>2, <3>1, <3>2, <3>3
  <2> QED
    BY <1>1, <2>1, <2>2 DEF Next, Step, Dies
<1>2. CASE UNCHANGED vars
  BY <1>2 DEF vars, Kept, IInv, TypeOK, EvenKept, BreakInReserve
<1> QED
  BY <1>1, <1>2

LEMMA NextInv == IInv /\ [Next]_vars => IInv'
BY NextKeeps DEF Kept

\* The inductive invariant holds of every run of the emulator.
THEOREM Invariance == Spec => []IInv
BY InitInv, NextInv, PTL DEF Spec

\* Every register and the pc hold a word, memory holds bytes, whatever the
\* program is (WriteReg wraps, emu.c:51-55; every handler of dispatch.c).
THEOREM TypeCorrect == Spec => []TypeOK
<1>1. IInv => TypeOK
  BY DEF IInv
<1> QED
  BY <1>1, Invariance, PTL

\* From an even pc on the pc is even, whatever the program and the entry point
\* are (dispatch.c:187-253).
THEOREM PcStaysEven == Spec => EvenStaysEven
<1>1. IInv /\ [Next]_vars => [EvenKept]_vars
  BY NextKeeps DEF Kept
<1> QED
  BY <1>1, Invariance, PTL DEF Spec, EvenStaysEven

\* The break stays within the heap's reserve for every heap, one whose end
\* wraps around the address space included (syscall.c:36-48).
THEOREM BreakStaysInReserve == Spec => []BreakInReserve
<1>1. IInv => BreakInReserve
  BY DEF IInv
<1> QED
  BY <1>1, Invariance, PTL

\* Every brk returns the break the heap has after it (syscall.c:36-48).
THEOREM BrkCoherent == Spec => BrkReportsTheBreak
<1>1. IInv /\ [Next]_vars => [BrkReports]_vars
  <2> SUFFICES ASSUME IInv, NEW i \in Fetched, SysBrk(i)
               PROVE  regs'[10] = Wrap(MinBrk + sz_alloc')
    BY DEF BrkReports
  <2>1. X[10] \in Word /\ CurrentBrk \in Word /\ 10 \in Reg
    BY ArgumentsType, CurrentBrkType, MachineAssumption DEF IInv
  <2>2. \A v : Returns(v) => regs'[10] = Wrap(v)
    BY <2>1, OperandsType DEF Returns, WriteReg, IInv
  <2>3. CASE X[10] = 0 \/ X[10] < MinBrk \/ X[10] > MaxBrk
    <3>1. Returns(CurrentBrk) /\ sz_alloc' = sz_alloc
      BY <2>3 DEF SysBrk, OutsideHeap
    <3>2. regs'[10] = CurrentBrk
      BY <2>1, <2>2, <3>1, WrapSmall
    <3> QED
      BY <3>1, <3>2 DEF CurrentBrk
  <2>4. CASE ~(X[10] = 0 \/ X[10] < MinBrk \/ X[10] > MaxBrk)
    <3>1. /\ Returns(X[10])
          /\ sz_alloc' = Wrap(sz_alloc + X[10] - CurrentBrk)
      BY <2>4 DEF SysBrk, OutsideHeap
    <3>2. MinBrk \in Int /\ MaxBrk \in Int
      <4>1. Regions[Heap] \in [vma_base : Word, sz_reserved : Word]
        BY RegionsAssumption
      <4> QED
        BY <4>1, WrapType DEF MinBrk, MaxBrk, Word
    <3>3. sz_alloc' = X[10] - MinBrk
      BY <2>1, <2>4, <3>1, <3>2, BrkArithmetic DEF IInv, Word
    <3>4. MinBrk + sz_alloc' = X[10]
      BY <2>1, <3>2, <3>3 DEF Word
    <3> QED
      BY <2>2, <3>1, <3>4
  <2> QED
    BY <2>3, <2>4
<1> QED
  BY <1>1, Invariance, PTL DEF Spec, BrkReportsTheBreak

-----------------------------------------------------------------------------
(***************************************************************************)
(* Stores and the table of regions.  Where two regions overlap, the tail   *)
(* of a store that starts below the other one goes to bytes that the other *)
(* one shadows.  BootProofs shows which files make a table without overlap *)
(* (DisjointRegions).                                                      *)
(***************************************************************************)
RegionsDisjoint ==
  \A i, j \in 1 .. NRegions : \A a \in Word :
    Contains(i, a) /\ Contains(j, a) => i = j

\* The bytes of an access that fits are translated by the region of the first.
LEMMA SpanTranslation ==
  ASSUME RegionsDisjoint, NEW addr \in Word, Mapped(addr),
         NEW n \in {1, 2, 4, 8}, Fits(addr, n),
         NEW a \in Word, Mapped(a), Wrap(a - addr) < n
  PROVE  CellOf(a) = <<RegionOf(addr), OffsetOf(addr) + Wrap(a - addr)>>
<1> DEFINE r    == RegionOf(addr)
           base == Regions[r].vma_base
           size == Regions[r].sz_reserved
           k    == Wrap(a - addr)
<1>1. /\ r \in 1 .. NRegions /\ base \in Word /\ size \in Word
      /\ base <= addr /\ addr < Wrap(base + size)
      /\ addr - base + n <= size
  BY TranslationType DEF Translates, Contains, Fits, OffsetOf
<1> HIDE DEF base, size, r
<1>2. base + size < WordMod /\ Wrap(base + size) = base + size
  BY <1>1, RegionEnd
<1>3. k \in Word /\ (k = a - addr \/ k = a - addr + WordMod)
  <2>1. a - addr \in Int /\ 0 - WordMod <= a - addr /\ a - addr < WordMod
    BY ModuliType DEF Word
  <2>2. CASE a - addr >= 0
    BY <2>1, <2>2, WrapSmall, ModuliType DEF Word
  <2>3. CASE a - addr < 0
    BY <2>1, <2>3, WrapBorrow, WrapType
  <2> QED
    BY <2>1, <2>2, <2>3
<1> HIDE DEF k
<1>4. k < n
  BY DEF k
<1>5. a = addr + k
  BY <1>1, <1>2, <1>3, <1>4, ModuliType DEF Word
<1>6. Contains(r, a)
  BY <1>1, <1>2, <1>3, <1>4, <1>5, ModuliType DEF Contains, base, size, Word
<1>7. RegionOf(a) = r
  BY <1>1, <1>6, TranslationType DEF RegionsDisjoint, Translates
<1> QED
  BY <1>1, <1>3, <1>5, <1>7, ModuliType DEF CellOf, OffsetOf, base, r, k, Word

\* What either kind of store does to memory, by the width of the access and
\* the bytes of its register.
LEMMA StoreWritten ==
  ASSUME TypeOK, NEW i \in Insns, ExecStore(i) \/ ExecFloatStore(i)
  PROVE  /\ Mapped(Address(i)) /\ Width(i) \in {1, 2, 4, 8}
         /\ mem' = StoreBytes(mem, Address(i), Width(i),
                     [k \in 0 .. Width(i) - 1 |-> StoredByte(i, k)])
<1>1. CASE ExecStore(i)
  <2>1. /\ i.insn_ty \in DOMAIN StoreSize /\ i.insn_ty \notin DOMAIN LoadSize
        /\ i.insn_ty # "FSx" /\ StoreSize[i.insn_ty] \in {1, 2, 4}
    BY <1>1 DEF ExecStore, StoreSize, LoadSize
  <2>2. Width(i) = StoreSize[i.insn_ty]
    BY <2>1 DEF Width
  <2>3. \A k : StoredByte(i, k) = ByteOf(X[i.rs2], k)
    BY <2>1 DEF StoredByte
  <2> QED
    BY <1>1, <2>1, <2>2, <2>3 DEF ExecStore, StoreValue
<1>2. CASE ExecFloatStore(i)
  <2>1. i.insn_ty = "FSx" /\ i.funct \in Widths /\ Mapped(Address(i))
    BY <1>2 DEF ExecFloatStore, Transfers
  <2>2. Width(i) = FloatSize(i) /\ FloatSize(i) \in {4, 8}
    BY <2>1 DEF Width, FloatSize, Widths, SINGLE, DOUBLE, LoadSize, StoreSize
  <2>3. \A k : StoredByte(i, k) = FloatByte(fregs[i.rs2], k)
    BY <2>1 DEF StoredByte
  <2> QED
    BY <1>2, <2>1, <2>2, <2>3 DEF ExecFloatStore
<1> QED
  BY <1>1, <1>2

\* Where no two regions overlap, an in-bounds store is seen by the guest as a
\* change of the bytes it names and of no other (emu.c:36-43, elf.c:7-21).
THEOREM FlatStores ==
  ASSUME RegionsDisjoint
  PROVE  Spec => StoreIsFlat
<1>1. IInv /\ [Next]_vars => [FlatStore]_vars
  <2> SUFFICES ASSUME IInv, NEW i \in Fetched,
                      ExecStore(i) \/ ExecFloatStore(i),
                      Fits(Address(i), Width(i)),
                      NEW a \in Word, Mapped(a)
               PROVE  LET k == Wrap(a - Address(i))
                      IN  GuestByte(mem', a) =
                            IF k < Width(i) THEN StoredByte(i, k)
                            ELSE GuestByte(mem, a)
    BY DEF FlatStore, StoreReadsBack
  <2> DEFINE A == Address(i)
             n == Width(i)
             k == Wrap(a - A)
             b == [j \in 0 .. n - 1 |-> StoredByte(i, j)]
             c == CellOf(a)
  <2>1. /\ A \in Word /\ Mapped(A) /\ n \in {1, 2, 4, 8} /\ Fits(A, n)
        /\ mem' = StoreBytes(mem, A, n, b)
    BY FetchedType, InsnFields, StoreWritten DEF IInv
  <2> HIDE DEF A, n
  <2>2. c \in Cells /\ c[1] = RegionOf(a) /\ c[2] = OffsetOf(a)
    <3>1. /\ RegionOf(a) \in 1 .. NRegions /\ OffsetOf(a) \in Nat
          /\ Translates(RegionOf(a), a)
          /\ Regions[RegionOf(a)].vma_base \in Word
          /\ Regions[RegionOf(a)].sz_reserved \in Word
      BY TranslationType
    <3>2. OffsetOf(a) < Regions[RegionOf(a)].sz_reserved
      BY <3>1, OffsetInRegion
    <3> QED
      BY <3>1, <3>2, ModuliType DEF Cells, CellOf, Word
  <2>3. mem'[c] = LET j == c[2] - OffsetOf(A)
                  IN  IF c[1] = RegionOf(A) /\ j \in 0 .. n - 1
                      THEN StoredByte(i, j) ELSE mem[c]
    BY <2>1, <2>2 DEF StoreBytes
  <2> HIDE DEF b
  <2>4. k \in Word /\ OffsetOf(A) \in Nat /\ OffsetOf(a) \in Nat
    BY <2>1, WrapType, TranslationType DEF Word
  <2>5. CASE k < n
    <3>1. c = <<RegionOf(A), OffsetOf(A) + k>>
      BY <2>1, <2>5, SpanTranslation
    <3>2. c[2] - OffsetOf(A) = k /\ k \in 0 .. n - 1
      BY <2>1, <2>4, <2>5, <3>1 DEF Word
    <3> QED
      BY <2>3, <2>5, <3>1, <3>2 DEF GuestByte, A, n
  <2>6. CASE ~(k < n)
    <3>1. ~(c[1] = RegionOf(A) /\ c[2] - OffsetOf(A) \in 0 .. n - 1)
      <4> SUFFICES ASSUME RegionOf(a) = RegionOf(A),
                          OffsetOf(a) - OffsetOf(A) \in 0 .. n - 1
                   PROVE  FALSE
        BY <2>2
      <4>1. OffsetOf(a) - OffsetOf(A) = a - A
        BY <2>1, TranslationType DEF OffsetOf, Word
      <4>2. a - A \in Word
        BY <2>1, <4>1, ModuliType DEF Word
      <4> QED
        BY <2>1, <2>6, <4>1, <4>2, WrapSmall
    <3> QED
      BY <2>3, <2>6, <3>1 DEF GuestByte, A, n
  <2> QED
    BY <2>5, <2>6 DEF A, n
<1> QED
  BY <1>1, Invariance, PTL DEF Spec, StoreIsFlat

\* The k-th byte of a read that fits is the guest byte k addresses on.
LEMMA SpanRead ==
  ASSUME RegionsDisjoint, NEW addr \in Word, Mapped(addr),
         NEW n \in {1, 2, 4, 8}, Fits(addr, n),
         NEW b \in LoadBytes(mem, addr, n), NEW k \in 0 .. n - 1
  PROVE  b[k] = GuestByte(mem, Wrap(addr + k))
<1> DEFINE r    == RegionOf(addr)
           base == Regions[r].vma_base
           size == Regions[r].sz_reserved
           a    == addr + k
<1>1. /\ r \in 1 .. NRegions /\ base \in Word /\ size \in Word
      /\ base <= addr /\ addr < Wrap(base + size) /\ OffsetOf(addr) = addr - base
      /\ addr - base + n <= size
  BY TranslationType DEF Translates, Contains, Fits, OffsetOf
<1> HIDE DEF base, size, r
<1>2. base + size < WordMod /\ Wrap(base + size) = base + size
  BY <1>1, RegionEnd
<1>3. /\ k \in Nat /\ k < n /\ a \in Word /\ a - addr = k /\ k \in Word
      /\ base <= a /\ a < base + size
      /\ OffsetOf(addr) + k \in Word /\ OffsetOf(addr) + k < size
  BY <1>1, <1>2, ModuliType DEF Word
<1>4. Contains(r, a)
  BY <1>2, <1>3 DEF Contains, base, size
<1> HIDE DEF a
<1>5. Mapped(a)
  <2>1. ASSUME NEW j \in 1 .. r - 1, Contains(j, a) PROVE FALSE
    <3>1. j \in 1 .. NRegions /\ j # r
      BY <1>1, RegionsAssumption
    <3> QED
      BY <1>1, <1>3, <1>4, <2>1, <3>1 DEF RegionsDisjoint
  <2> QED
    BY <1>1, <1>4, <2>1 DEF Mapped, Translates
<1>6. Wrap(a - addr) = k /\ Wrap(a) = a
  BY <1>3, WrapSmall
<1>7. CellOf(a) = <<r, OffsetOf(addr) + k>>
  BY <1>3, <1>5, <1>6, SpanTranslation DEF r
<1>8. <<r, OffsetOf(addr) + k>> \in Cells
  BY <1>1, <1>3 DEF Cells, size
<1> QED
  BY <1>6, <1>7, <1>8 DEF LoadBytes, GuestByte, r, a

\* The word an integer load makes of n bytes, byte by byte.
LEMMA ExtendedBytes ==
  ASSUME NEW i \in Insns, i.insn_ty \in DOMAIN LoadSize,
         NEW b \in [0 .. LoadSize[i.insn_ty] - 1 -> Byte], NEW k \in 0 .. 3
  PROVE  LET n   == LoadSize[i.insn_ty]
             top == b[n - 1]
         IN  ByteOf(Wrap(Extended(i.insn_ty, FromBytes(b, n))), k) =
               IF k < n THEN b[k]
               ELSE IF i.insn_ty \in {"LB", "LH"} /\ 2 * top >= ByteMod
                    THEN ByteMod - 1 ELSE 0
<1> DEFINE n   == LoadSize[i.insn_ty]
           top == b[n - 1]
           f   == IF i.insn_ty \in {"LB", "LH"} /\ 2 * top >= ByteMod
                  THEN ByteMod - 1 ELSE 0
           w   == Wrap(Extended(i.insn_ty, FromBytes(b, n)))
<1>1. /\ n \in {1, 2, 4}
      /\ i.insn_ty = "LB" => n = 1
      /\ i.insn_ty = "LH" => n = 2
      /\ n = 4 => i.insn_ty = "LW"
      /\ b \in [0 .. n - 1 -> Byte]
      /\ f \in Byte /\ 0 \in Byte
  BY ByteModAssumption DEF LoadSize, Byte
<1> HIDE DEF n, f, top, w
<1>2. \A j \in 0 .. 3 : j < n => b[j] \in Byte
  <2>1. \A j \in 0 .. n - 1 : b[j] \in Byte
    BY <1>1
  <2> QED
    BY <1>1, <2>1
<1>3. w = Wrap(Extended(i.insn_ty, FromBytes(b, n))) /\ top = b[n - 1]
  BY DEF w, top
<1>4. CASE n = 4
  <2>1. FromBytes(b, 4) \in Word
    BY <1>1, <1>4, FromBytesWord
  <2>2. w = FromBytes(b, 4)
    BY <1>1, <1>4, <1>3, <2>1, WrapSmall DEF Extended
  <2>3. \A j \in 0 .. 3 : b[j] \in Byte
    BY <1>2, <1>4
  <2>4. ByteOf(w, k) = b[k]
    BY <2>2, <2>3, BytesOfFour
  <2> QED
    BY <1>4, <2>4 DEF n, w
<1>5. CASE n # 4
  <2>1. n \in {1, 2}
    BY <1>1, <1>5
  <2>2. w = FromBytes(Fill(b, n, f), 4)
    <3>1. FromBytes(b, n) \in Word
      BY <1>1, FromBytesWord
    <3>2. CASE i.insn_ty = "LB"
      BY <1>1, <1>3, <3>2, SignFills DEF Extended, f
    <3>3. CASE i.insn_ty = "LH"
      BY <1>1, <1>3, <3>3, SignFills DEF Extended, f
    <3>4. CASE i.insn_ty \notin {"LB", "LH"}
      <4>1. w = FromBytes(b, n)
        BY <1>3, <3>1, <3>4, WrapSmall DEF Extended
      <4> QED
        BY <1>1, <2>1, <3>4, <4>1, FilledWord DEF f
    <3> QED
      BY <3>2, <3>3, <3>4
  <2>3. \A j \in 0 .. 3 : Fill(b, n, f)[j] = IF j < n THEN b[j] ELSE f
    BY DEF Fill
  <2>4. \A j \in 0 .. 3 : Fill(b, n, f)[j] \in Byte
    BY <1>1, <1>2, <2>3
  <2>5. ByteOf(w, k) = Fill(b, n, f)[k]
    BY <2>2, <2>4, BytesOfFour
  <2> QED
    BY <1>5, <2>1, <2>3, <2>5 DEF n, f, w, top
<1> QED
  BY <1>4, <1>5

\* The double a floating-point load makes of four or eight bytes.
LEMMA TransferredBytes ==
  ASSUME NEW n \in {4, 8}, NEW b \in [0 .. n - 1 -> Byte], NEW k \in 0 .. 7
  PROVE  FloatByte(IF n = 4 THEN Boxed(FromBytes(b, 4)) ELSE DoubleOf(b), k) =
           IF k < n THEN b[k] ELSE ByteMod - 1
<1>1. \A j \in 0 .. 3 : b[j] \in Byte
  OBVIOUS
<1>2. k < 4 => ByteOf(FromBytes(b, 4), k) = b[k]
  BY <1>1, BytesOfFour
<1>3. CASE n = 4
  <2> DEFINE ones == [j \in 0 .. 3 |-> ByteMod - 1]
  <2>1. ByteMod - 1 \in Byte /\ \A j \in 0 .. 3 : ones[j] = ByteMod - 1
    BY ByteModAssumption DEF Byte
  <2>2. FromBytes(ones, 4) = WordMod - 1
    <3> DEFINE B == ByteMod
               H == HalfMod
    <3>1. /\ B \in Nat /\ H = B * B /\ H \in Nat /\ WordMod = H * H
      BY ByteModAssumption, ModuliType DEF HalfMod, WordMod
    <3>2. FromBytes(ones, 4) =
            (B - 1) + B * (B - 1) + H * ((B - 1) + B * (B - 1))
      BY <2>1 DEF FromBytes
    <3> HIDE DEF B, H
    <3>3. (B - 1) + B * (B - 1) = H - 1
      BY <3>1
    <3>4. H * (H - 1) = H * H - H
      BY <3>1
    <3>5. H * H \in Int
      BY <3>1
    <3> QED
      BY <3>1, <3>2, <3>3, <3>4, <3>5
  <2> HIDE DEF ones
  <2>3. k >= 4 => ByteOf(WordMod - 1, k - 4) = ByteMod - 1
    <3> SUFFICES ASSUME k >= 4 PROVE ByteOf(WordMod - 1, k - 4) = ByteMod - 1
      OBVIOUS
    <3>1. k - 4 \in 0 .. 3 /\ \A j \in 0 .. 3 : ones[j] \in Byte
      BY <2>1
    <3>2. ByteOf(FromBytes(ones, 4), k - 4) = ones[k - 4]
      BY <3>1, BytesOfFour
    <3> QED
      BY <2>1, <2>2, <3>1, <3>2
  <2> QED
    BY <1>2, <1>3, <2>3 DEF FloatByte, Boxed
<1>4. CASE n = 8
  <2> DEFINE up == [j \in 0 .. 3 |-> b[j + 4]]
  <2>1. \A j \in 0 .. 3 : up[j] = b[j + 4] /\ up[j] \in Byte
    BY <1>4
  <2>2. DoubleOf(b).lo = FromBytes(b, 4) /\ DoubleOf(b).hi = FromBytes(up, 4)
    BY DEF DoubleOf
  <2> HIDE DEF up
  <2>3. k >= 4 => ByteOf(FromBytes(up, 4), k - 4) = b[k]
    <3> SUFFICES ASSUME k >= 4 PROVE ByteOf(FromBytes(up, 4), k - 4) = b[k]
      OBVIOUS
    <3>1. k - 4 \in 0 .. 3 /\ k - 4 + 4 = k
      OBVIOUS
    <3>2. ByteOf(FromBytes(up, 4), k - 4) = up[k - 4]
      BY <2>1, <3>1, BytesOfFour
    <3> QED
      BY <2>1, <3>1, <3>2
  <2> QED
    BY <1>2, <1>4, <2>2, <2>3 DEF FloatByte
<1> QED
  BY <1>3, <1>4

\* Where no two regions overlap, an in-bounds load gives its register the
\* bytes the guest has at the addresses it names, in order, and above them the
\* sign or the box (dispatch.c:153-172, 334-348).
THEOREM LoadsAreFlat ==
  ASSUME RegionsDisjoint
  PROVE  Spec => LoadIsFlat
<1>1. IInv /\ [Next]_vars => [FlatLoad]_vars
  <2> SUFFICES ASSUME IInv, NEW i \in Fetched,
                      Mapped(Address(i)), Fits(Address(i), Width(i))
               PROVE  /\ ExecLoad(i) =>
                           \A k \in 0 .. 3 :
                             ByteOf(regs'[i.rd], k) =
                               IF k < Width(i)
                               THEN GuestByte(mem, Wrap(Address(i) + k))
                               ELSE Filler(i)
                      /\ ExecFloatLoad(i) =>
                           \A k \in 0 .. 7 :
                             FloatByte(fregs'[i.rd], k) =
                               IF k < Width(i)
                               THEN GuestByte(mem, Wrap(Address(i) + k))
                               ELSE Filler(i)
    BY DEF FlatLoad, LoadReads
  <2> DEFINE A == Address(i)
             n == Width(i)
  <2>1. i \in Insns /\ i.rd \in Reg /\ A \in Word
    BY FetchedType, InsnFields DEF IInv
  <2>2. ASSUME ExecLoad(i), NEW k \in 0 .. 3
        PROVE  ByteOf(regs'[i.rd], k) =
                 IF k < n THEN GuestByte(mem, Wrap(A + k)) ELSE Filler(i)
    <3>1. /\ i.insn_ty \in DOMAIN LoadSize /\ n = LoadSize[i.insn_ty]
          /\ n \in {1, 2, 4} /\ i.insn_ty # "FLx"
      BY <2>2 DEF ExecLoad, Width, LoadSize
    <3>2. PICK b \in LoadBytes(mem, A, n) :
            WriteReg(i.rd, Extended(i.insn_ty, FromBytes(b, n)))
      BY <2>2, <3>1 DEF ExecLoad, LoadValues
    <3> HIDE DEF n, A
    <3>3. b \in [0 .. n - 1 -> Byte]
      BY <3>2 DEF LoadBytes
    <3>4. regs'[i.rd] = Wrap(Extended(i.insn_ty, FromBytes(b, n)))
      BY <2>1, <3>2 DEF WriteReg, X, IInv, TypeOK
    <3>5. \A j \in 0 .. n - 1 : b[j] = GuestByte(mem, Wrap(A + j))
      BY <2>1, <3>1, <3>2, SpanRead DEF A, n
    <3>6. n - 1 \in 0 .. n - 1 /\ A + n - 1 = A + (n - 1)
      BY <2>1, <3>1 DEF Word
    <3>7. b[n - 1] = GuestByte(mem, Wrap(A + n - 1))
      BY <3>5, <3>6
    <3>8. Filler(i) = IF i.insn_ty \in {"LB", "LH"} /\ 2 * b[n - 1] >= ByteMod
                      THEN ByteMod - 1 ELSE 0
      BY <3>1, <3>7 DEF Filler, A, n
    <3>9. k < n => k \in 0 .. n - 1
      BY <3>1
    <3>10. ByteOf(regs'[i.rd], k) = IF k < n THEN b[k] ELSE Filler(i)
      BY <2>1, <3>1, <3>3, <3>4, <3>8, ExtendedBytes
    <3> QED
      BY <3>5, <3>9, <3>10
  <2>3. ASSUME ExecFloatLoad(i), NEW k \in 0 .. 7
        PROVE  FloatByte(fregs'[i.rd], k) =
                 IF k < n THEN GuestByte(mem, Wrap(A + k)) ELSE Filler(i)
    <3>1. /\ i.insn_ty = "FLx" /\ i.funct \in Widths
          /\ n = FloatSize(i) /\ n \in {4, 8} /\ (n = 4 <=> i.funct = SINGLE)
      BY <2>3 DEF ExecFloatLoad, Transfers, Width, FloatSize, LoadSize,
                  StoreSize, Widths, SINGLE, DOUBLE
    <3>2. PICK b \in LoadBytes(mem, A, n) :
            WriteFreg(i.rd, IF n = 4 THEN Boxed(FromBytes(b, 4)) ELSE DoubleOf(b))
      BY <2>3, <3>1 DEF ExecFloatLoad
    <3> HIDE DEF n, A
    <3>3. b \in [0 .. n - 1 -> Byte]
      BY <3>2 DEF LoadBytes
    <3>4. fregs'[i.rd] = IF n = 4 THEN Boxed(FromBytes(b, 4)) ELSE DoubleOf(b)
      BY <2>1, <3>2 DEF WriteFreg, IInv, TypeOK
    <3>5. \A j \in 0 .. n - 1 : b[j] = GuestByte(mem, Wrap(A + j))
      BY <2>1, <3>1, <3>2, SpanRead DEF A, n
    <3>6. Filler(i) = ByteMod - 1
      BY <3>1 DEF Filler
    <3>7. k < n => k \in 0 .. n - 1
      BY <3>1
    <3>8. FloatByte(IF n = 4 THEN Boxed(FromBytes(b, 4)) ELSE DoubleOf(b), k) =
            IF k < n THEN b[k] ELSE ByteMod - 1
      BY <3>1, <3>3, TransferredBytes
    <3> QED
      BY <3>4, <3>5, <3>6, <3>7, <3>8
  <2> QED
    BY <2>2, <2>3
<1> QED
  BY <1>1, Invariance, PTL DEF Spec, LoadIsFlat
=============================================================================
