------------------------------ MODULE IsaProofs ------------------------------
(***************************************************************************)
(* The emulator implements Isa on every table without overlapping regions. *)
(* The proof is in two parts: the cells an access reaches are the bytes of *)
(* its chunk, so that a fetch, a load and a store are those of the flat    *)
(* memory; and every instruction does to the registers, as the guest reads *)
(* them, what it does to those of Isa.                                     *)
(***************************************************************************)
EXTENDS EmulatorProofs

-----------------------------------------------------------------------------
(***************************************************************************)
(* The operators that Isa and the emulator have in common.                 *)
(***************************************************************************)

LEMMA SameWords ==
  /\ TheIsa!WordMod = WordMod /\ TheIsa!HalfMod = HalfMod
  /\ TheIsa!Word = Word /\ TheIsa!Byte = Byte
  /\ \A n : TheIsa!Wrap(n) = Wrap(n)
  /\ \A v : TheIsa!Signed(v) = Signed(v)
  /\ \A v, m : TheIsa!SignExtend(v, m) = SignExtend(v, m)
BY DEF TheIsa!Word, TheIsa!Byte, TheIsa!Wrap, TheIsa!WordMod, TheIsa!HalfMod,
       TheIsa!Signed, TheIsa!SignExtend,
       Word, Byte, Wrap, WordMod, HalfMod, Signed, SignExtend

LEMMA SameBytes ==
  /\ \A v, k : TheIsa!ByteOf(v, k) = ByteOf(v, k)
  /\ \A b, n : TheIsa!FromBytes(b, n) = FromBytes(b, n)
BY SameWords
   DEF TheIsa!ByteOf, TheIsa!Weight, TheIsa!FromBytes, ByteOf, Weight, FromBytes

LEMMA SameOperations ==
  /\ TheIsa!RegOps = RegOps /\ TheIsa!Divisions = Divisions
  /\ \A op, a, b : TheIsa!DivTraps(op, a, b) = DivTraps(op, a, b)
BY SameWords
   DEF TheIsa!RegOps, TheIsa!Divisions, TheIsa!DivTraps, RegOps, Divisions,
       DivTraps

LEMMA SameFloats ==
  /\ TheIsa!DOUBLE = DOUBLE /\ TheIsa!Widths = Widths
  /\ TheIsa!Comparisons = Comparisons /\ TheIsa!ToInt = ToInt
  /\ TheIsa!WidthRequired = WidthRequired /\ TheIsa!FloatTypes = FloatTypes
BY DEF TheIsa!SINGLE, TheIsa!DOUBLE, TheIsa!Widths, TheIsa!Arithmetic,
       TheIsa!MinMax, TheIsa!Comparisons, TheIsa!FromInt, TheIsa!ToInt,
       TheIsa!Conversions, TheIsa!WidthRequired, TheIsa!WidthOptional,
       TheIsa!FloatTypes,
       SINGLE, DOUBLE, Widths, Arithmetic, MinMax, Comparisons, FromInt, ToInt,
       Conversions, WidthRequired, WidthOptional, FloatTypes

-----------------------------------------------------------------------------
(***************************************************************************)
(* Memory: the chunk of an address is the region that translates it.       *)
(***************************************************************************)

LEMMA RegionsType ==
  ASSUME NEW r \in 1 .. NRegions
  PROVE  Regions[r].vma_base \in Word /\ Regions[r].sz_reserved \in Word
<1>1. Regions[r] \in [vma_base : Word, sz_reserved : Word]
  BY RegionsAssumption
<1> QED
  BY <1>1

\* Without overlap, a region translates every address it contains.
LEMMA ContainsTranslates ==
  ASSUME RegionsDisjoint, NEW r \in 1 .. NRegions, NEW a \in Word, Contains(r, a)
  PROVE  Mapped(a) /\ RegionOf(a) = r
<1>1. Translates(r, a)
  <2> SUFFICES ASSUME NEW j \in 1 .. r - 1, Contains(j, a) PROVE FALSE
    BY DEF Translates
  <2>1. j \in 1 .. NRegions /\ j # r
    BY RegionsAssumption
  <2> QED
    BY <2>1 DEF RegionsDisjoint
<1>2. Mapped(a)
  BY <1>1 DEF Mapped
<1> QED
  BY <1>2, TranslationType DEF RegionsDisjoint, Translates

LEMMA MappedIsFlat ==
  ASSUME RegionsDisjoint
  PROVE  \A a : a \in TheIsa!Mapped <=> a \in Word /\ Mapped(a)
<1> SUFFICES ASSUME NEW a
             PROVE  a \in TheIsa!Mapped <=> a \in Word /\ Mapped(a)
  OBVIOUS
<1>1. a \in TheIsa!Mapped
        <=> \E r \in 1 .. NRegions : a \in Word /\ Contains(r, a)
  BY DEF TheIsa!Mapped, Chunks
<1>2. ASSUME NEW r \in 1 .. NRegions, a \in Word, Contains(r, a)
      PROVE  Mapped(a)
  BY <1>2, ContainsTranslates
<1>3. ASSUME a \in Word, Mapped(a)
      PROVE  \E r \in 1 .. NRegions : Contains(r, a)
  BY <1>3 DEF Mapped, Translates
<1> QED
  BY <1>1, <1>2, <1>3

LEMMA TogetherIsContained ==
  ASSUME RegionsDisjoint, NEW a \in Word, Mapped(a), NEW b
  PROVE  TheIsa!Together(a, b) <=> b \in Word /\ Contains(RegionOf(a), b)
<1>1. RegionOf(a) \in 1 .. NRegions /\ Contains(RegionOf(a), a)
  BY TranslationType DEF Translates
<1>2. TheIsa!Together(a, b)
        <=> \E r \in 1 .. NRegions :
              Contains(r, a) /\ b \in Word /\ Contains(r, b)
  BY DEF TheIsa!Together, Chunks
<1>3. \A r \in 1 .. NRegions : Contains(r, a) => r = RegionOf(a)
  BY <1>1 DEF RegionsDisjoint
<1> QED
  BY <1>1, <1>2, <1>3

\* The k-th byte of an access is reached if its offset is in the region, and
\* is then the cell at that offset.
LEMMA ReachedCell ==
  ASSUME RegionsDisjoint, NEW a \in Word, Mapped(a), NEW k \in Nat
  PROVE  /\ TheIsa!Together(a, a + k) <=> <<RegionOf(a), OffsetOf(a) + k>> \in Cells
         /\ TheIsa!Together(a, a + k) =>
              /\ a + k \in Word /\ Mapped(a + k)
              /\ CellOf(a + k) = <<RegionOf(a), OffsetOf(a) + k>>
<1> DEFINE r    == RegionOf(a)
           base == Regions[r].vma_base
           size == Regions[r].sz_reserved
<1>1. /\ r \in 1 .. NRegions /\ base \in Word /\ size \in Word
      /\ base <= a /\ a < Wrap(base + size) /\ OffsetOf(a) = a - base
  BY TranslationType DEF Translates, Contains, OffsetOf
<1>2. base + size < WordMod /\ Wrap(base + size) = base + size
  <2> HIDE DEF base, size, r
  <2> QED
    BY <1>1, RegionEnd
<1>3. \A b : Contains(r, b) <=> base <= b /\ b < base + size
  BY <1>2 DEF Contains
<1>4. <<r, OffsetOf(a) + k>> \in Cells
        <=> OffsetOf(a) + k \in Word /\ OffsetOf(a) + k < size
  BY <1>1 DEF Cells
<1> HIDE DEF base, size
<1>5. TheIsa!Together(a, a + k) <=> a + k \in Word /\ Contains(r, a + k)
  BY TogetherIsContained
<1> HIDE DEF r
<1>6. a + k \in Word /\ Contains(r, a + k)
        <=> OffsetOf(a) + k \in Word /\ OffsetOf(a) + k < size
  BY <1>1, <1>2, <1>3, ModuliType DEF Word
<1>7. ASSUME a + k \in Word, Contains(r, a + k)
      PROVE  /\ Mapped(a + k)
             /\ CellOf(a + k) = <<r, OffsetOf(a) + k>>
  <2>1. Mapped(a + k) /\ RegionOf(a + k) = r
    BY <1>1, <1>7, ContainsTranslates
  <2>2. OffsetOf(a + k) = a + k - base
    BY <1>1, <2>1 DEF OffsetOf, base, r, Word
  <2>3. OffsetOf(a + k) = OffsetOf(a) + k
    BY <1>1, <2>2 DEF Word
  <2> QED
    BY <2>1, <2>3 DEF CellOf
<1> QED
  BY <1>4, <1>5, <1>6, <1>7 DEF r

\* A mapped address is translated to a cell.
LEMMA MappedCell ==
  ASSUME NEW a \in Word, Mapped(a)
  PROVE  /\ CellOf(a) \in Cells
         /\ CellOf(a)[1] = RegionOf(a) /\ CellOf(a)[2] = OffsetOf(a)
BY TranslationType, OffsetInRegion, ModuliType DEF Cells, CellOf, Word

\* A read of the flat memory yields what a read of the buffer does.
LEMMA SameReads ==
  ASSUME RegionsDisjoint, NEW a \in Word, Mapped(a), NEW n \in Nat
  PROVE  TheIsa!Reads(a, n) = LoadBytes(mem, a, n)
<1>1. ASSUME NEW k \in 0 .. n - 1, TheIsa!Together(a, a + k)
      PROVE  Flat[a + k] = mem[<<RegionOf(a), OffsetOf(a) + k>>]
  <2>1. a + k \in TheIsa!Mapped /\ CellOf(a + k) = <<RegionOf(a), OffsetOf(a) + k>>
    <3>1. k \in Nat
      OBVIOUS
    <3>2. /\ a + k \in Word /\ Mapped(a + k)
          /\ CellOf(a + k) = <<RegionOf(a), OffsetOf(a) + k>>
      BY <1>1, <3>1, ReachedCell
    <3> QED
      BY <3>2, MappedIsFlat
  <2> QED
    BY <2>1 DEF Flat, GuestByte, TheIsa!Mapped
<1>2. ASSUME NEW k \in 0 .. n - 1
      PROVE  TheIsa!Together(a, a + k) <=> <<RegionOf(a), OffsetOf(a) + k>> \in Cells
  BY ReachedCell
<1> QED
  BY <1>1, <1>2, SameWords DEF TheIsa!Reads, LoadBytes

\* What is fetched is an instruction of the flat hart.
LEMMA SameFetches ==
  ASSUME RegionsDisjoint, pc \in Word
  PROVE  TheIsa!Fetches = Fetched
<1>1. pc \in TheIsa!Mapped <=> Mapped(pc)
  BY MappedIsFlat
<1>2. ASSUME Mapped(pc)
      PROVE  TheIsa!Reads(pc, 4) = LoadBytes(mem, pc, 4)
  BY <1>2, SameReads
<1> QED
  BY <1>1, <1>2, SameBytes DEF TheIsa!Fetches, Fetched, LoadValues

\* The byte that the flat memory has where a write has been.
LEMMA WrittenCell ==
  ASSUME RegionsDisjoint, NEW a \in Word, Mapped(a), NEW n \in Nat, NEW b,
         mem' = StoreBytes(mem, a, n, b),
         NEW c \in TheIsa!Mapped
  PROVE  Flat'[c] = IF c - a \in 0 .. n - 1 /\ TheIsa!Together(a, c)
                    THEN b[c - a] ELSE Flat[c]
<1>1. c \in Word /\ Mapped(c)
  BY MappedIsFlat
<1>2. /\ CellOf(c) \in Cells
      /\ CellOf(c)[1] = RegionOf(c) /\ CellOf(c)[2] = OffsetOf(c)
  BY <1>1, MappedCell
<1>3. TheIsa!Together(a, c) <=> RegionOf(c) = RegionOf(a)
  <2>1. RegionOf(a) \in 1 .. NRegions
    BY TranslationType
  <2>2. Contains(RegionOf(a), c) => RegionOf(c) = RegionOf(a)
    BY <1>1, <2>1, ContainsTranslates
  <2>3. Contains(RegionOf(c), c)
    BY <1>1, TranslationType DEF Translates
  <2> QED
    BY <1>1, <2>2, <2>3, TogetherIsContained
<1>4. RegionOf(c) = RegionOf(a) => OffsetOf(c) - OffsetOf(a) = c - a
  BY <1>1, TranslationType DEF OffsetOf, Word
<1>5. Flat'[c] = mem'[CellOf(c)] /\ Flat[c] = mem[CellOf(c)]
  BY DEF Flat, GuestByte, TheIsa!Mapped
<1>6. mem'[CellOf(c)] =
        LET k == OffsetOf(c) - OffsetOf(a)
        IN  IF RegionOf(c) = RegionOf(a) /\ k \in 0 .. n - 1
            THEN b[k] ELSE mem[CellOf(c)]
  BY <1>2 DEF StoreBytes
<1> QED
  BY <1>3, <1>4, <1>5, <1>6

\* A store writes to the flat memory.
LEMMA SameWrites ==
  ASSUME RegionsDisjoint, NEW a \in Word, Mapped(a), NEW n \in Nat, NEW b,
         mem' = StoreBytes(mem, a, n, b)
  PROVE  Flat' = TheIsa!Written(a, n, b)
<1>1. Flat' = [c \in TheIsa!Mapped |-> Flat'[c]]
  BY DEF Flat, TheIsa!Mapped
<1> QED
  BY <1>1, WrittenCell DEF TheIsa!Written

LEMMA FlatType ==
  ASSUME RegionsDisjoint, mem \in [Cells -> Byte]
  PROVE  Flat \in [TheIsa!Mapped -> TheIsa!Byte]
<1>1. ASSUME NEW c \in TheIsa!Mapped PROVE mem[CellOf(c)] \in Byte
  BY MappedIsFlat, MappedCell
<1> QED
  BY <1>1, SameWords DEF Flat, GuestByte, TheIsa!Mapped

\* Whatever is stored, nothing but the access is written.
LEMMA ConfinedWrites ==
  ASSUME RegionsDisjoint, NEW a \in Word, Mapped(a), NEW n \in Nat, NEW b,
         mem' = StoreBytes(mem, a, n, b), mem' \in [Cells -> Byte]
  PROVE  TheIsa!Confined(a, n)
<1>1. Flat' \in [TheIsa!Mapped -> TheIsa!Byte]
  <2>1. ASSUME NEW c \in TheIsa!Mapped PROVE mem'[CellOf(c)] \in Byte
    BY MappedIsFlat, MappedCell
  <2> QED
    BY <2>1, SameWords DEF Flat, GuestByte, TheIsa!Mapped
<1> QED
  BY <1>1, WrittenCell DEF TheIsa!Confined

\* An access of which every byte has its cell fits, so one that does not fit
\* is not inside its chunk.
LEMMA InsideFits ==
  ASSUME RegionsDisjoint, NEW a \in Word, Mapped(a), NEW n \in Nat \ {0},
         TheIsa!Inside(a, n)
  PROVE  Fits(a, n)
<1>1. n - 1 \in 0 .. n - 1 /\ n - 1 \in Nat
  OBVIOUS
<1>2. <<RegionOf(a), OffsetOf(a) + (n - 1)>> \in Cells
  BY <1>1, ReachedCell DEF TheIsa!Inside
<1>3. OffsetOf(a) + (n - 1) < Regions[RegionOf(a)].sz_reserved
  BY <1>2 DEF Cells
<1> QED
  BY <1>3, TranslationType DEF Fits, Word

-----------------------------------------------------------------------------
(***************************************************************************)
(* What the parts of a step do to the state that the guest sees.           *)
(***************************************************************************)

\* A write to a register is one to the register that is read afterwards.
LEMMA WriteIsPut ==
  ASSUME TypeOK, NEW rd \in Reg, NEW v, WriteReg(rd, v)
  PROVE  TheIsa!Put(rd, Wrap(v))
<1>1. regs' = [X EXCEPT ![rd] = Wrap(v)] /\ X \in [Reg -> Word] /\ X[0] = 0
  BY OperandsType DEF WriteReg
<1>2. X' = [regs' EXCEPT ![0] = 0]
  BY DEF X
<1> HIDE DEF X
<1> QED
  BY <1>1, <1>2 DEF TheIsa!Put

\* A step that writes no register clears x0, which the guest reads as zero.
LEMMA ReadsKept ==
  ASSUME TypeOK, regs' = X
  PROVE  X' = X
<1>1. X \in [Reg -> Word] /\ X[0] = 0
  BY OperandsType
<1>2. X' = [regs' EXCEPT ![0] = 0]
  BY DEF X
<1> QED
  BY <1>1, <1>2

LEMMA FlatKept == ASSUME mem' = mem PROVE Flat' = Flat
BY DEF Flat, GuestByte

LEMMA StatusKept ==
  ASSUME UNCHANGED <<suspended, host>> PROVE Status' = Status
BY DEF Status

LEMMA MovesOn ==
  /\ NextInsn => pc' = TheIsa!After
  /\ NextInsn /\ UNCHANGED <<suspended, host>> => TheIsa!GoesTo(TheIsa!After)
<1>1. NextInsn => pc' = TheIsa!After
  BY SameWords DEF NextInsn, RISCV_INSNLEN, TheIsa!After
<1> QED
  BY <1>1, StatusKept DEF TheIsa!GoesTo

LEMMA SameAddress == \A i : TheIsa!At(i) = Address(i)
BY SameWords DEF TheIsa!At, Address

-----------------------------------------------------------------------------
(***************************************************************************)
(* The instructions.                                                       *)
(***************************************************************************)

LEMMA FlatOperation ==
  ASSUME IInv, NEW i \in Insns, NEW op \in RegOps,
         NEW b \in {X[i.rs2], i.imm}, TheIsa!Means(i, op, b),
         Operation(i, op, X[i.rs1], b)
  PROVE  TheIsa!Calculate(i)
<1>1. i.rd \in Reg /\ X[i.rs1] \in Word /\ b \in Word
  BY InsnFields DEF IInv
<1>2. Compute(op, X[i.rs1], b) \in Word /\ ~DivTraps(op, X[i.rs1], b)
  BY <1>1, AluAssumption DEF ComputesWords, Operation
<1>3. TheIsa!Put(i.rd, Compute(op, X[i.rs1], b))
  <2>1. TheIsa!Put(i.rd, Wrap(Compute(op, X[i.rs1], b)))
    BY <1>1, WriteIsPut DEF Operation, IInv
  <2> QED
    BY <1>2, <2>1, WrapSmall
<1>4. TheIsa!GoesTo(TheIsa!After) /\ Flat' = Flat
  BY MovesOn, FlatKept DEF Operation
<1> QED
  BY <1>2, <1>3, <1>4, SameOperations DEF TheIsa!Calculate

LEMMA FlatCalculate ==
  ASSUME IInv, NEW i \in Insns, ExecReg(i) \/ ExecImm(i)
  PROVE  TheIsa!Calculate(i)
<1>1. CASE ExecReg(i)
  <2>1. TheIsa!Means(i, i.insn_ty, X[i.rs2])
    BY DEF TheIsa!Means
  <2> QED
    BY <1>1, <2>1, FlatOperation DEF ExecReg
<1>2. CASE ExecImm(i)
  <2>1. /\ ImmOp[i.insn_ty] \in RegOps
        /\ ImmOp[i.insn_ty] \in DOMAIN TheIsa!Immediate
        /\ TheIsa!Immediate[ImmOp[i.insn_ty]] = i.insn_ty
    BY <1>2 DEF ExecImm, ImmOp, RegOps, TheIsa!Immediate
  <2>2. TheIsa!Means(i, ImmOp[i.insn_ty], i.imm)
    BY <2>1 DEF TheIsa!Means
  <2> QED
    BY <1>2, <2>1, <2>2, FlatOperation DEF ExecImm
<1> QED
  BY <1>1, <1>2

LEMMA FlatUpper ==
  ASSUME IInv, NEW i \in Insns, ExecUpper(i)
  PROVE  TheIsa!Upper(i)
<1>1. i.rd \in Reg /\ i.imm * UpperUnit \in Int
  BY InsnFields, MachineAssumption DEF IInv, Word
<1>2. TheIsa!GoesTo(TheIsa!After) /\ Flat' = Flat
  BY MovesOn, FlatKept DEF ExecUpper
<1>3. CASE i.insn_ty = "LUI"
  <2>1. WriteReg(i.rd, 0 + i.imm * UpperUnit)
    BY <1>3 DEF ExecUpper
  <2>2. TheIsa!Put(i.rd, Wrap(i.imm * UpperUnit))
    BY <1>1, <2>1, WriteIsPut DEF IInv
  <2> QED
    BY <1>2, <1>3, <2>2, SameWords DEF TheIsa!Upper
<1>4. CASE i.insn_ty = "AUIPC"
  <2>1. TheIsa!Put(i.rd, Wrap(pc + i.imm * UpperUnit))
    BY <1>1, <1>4, WriteIsPut DEF ExecUpper, IInv
  <2> QED
    BY <1>2, <1>4, <2>1, SameWords DEF TheIsa!Upper
<1> QED
  BY <1>3, <1>4 DEF ExecUpper

LEMMA SameSizes ==
  ASSUME NEW i
  PROVE  /\ i.insn_ty \in DOMAIN LoadSize =>
              i.insn_ty \in TheIsa!Loads /\ TheIsa!Size(i) = LoadSize[i.insn_ty]
         /\ i.insn_ty \in DOMAIN StoreSize =>
              i.insn_ty \in TheIsa!Stores /\ TheIsa!Size(i) = StoreSize[i.insn_ty]
         /\ i.insn_ty \in {"FLx", "FSx"} /\ i.funct \in Widths =>
              TheIsa!Size(i) = FloatSize(i)
         /\ TheIsa!Size(i) \in Nat \ {0}
BY SameFloats
   DEF LoadSize, StoreSize, FloatSize, TheIsa!Size, TheIsa!Loads, TheIsa!Stores,
       Widths, SINGLE, DOUBLE

LEMMA FlatLoads ==
  ASSUME RegionsDisjoint, IInv, NEW i \in Insns, ExecLoad(i)
  PROVE  TheIsa!Load(i)
<1> DEFINE n == LoadSize[i.insn_ty]
<1>1. /\ i.insn_ty \in TheIsa!Loads /\ TheIsa!Size(i) = n /\ n \in {1, 2, 4}
      /\ i.insn_ty = "LB" => n = 1
      /\ i.insn_ty = "LH" => n = 2
      /\ i.insn_ty \notin {"LB", "LH"} => Extended(i.insn_ty, 0) = 0
  BY SameSizes DEF ExecLoad, LoadSize, Extended
<1>2. i.rd \in Reg /\ Address(i) \in Word /\ Mapped(Address(i))
  BY InsnFields DEF IInv, ExecLoad
<1> HIDE DEF n
<1>3. PICK b \in LoadBytes(mem, Address(i), n) :
        WriteReg(i.rd, Extended(i.insn_ty, FromBytes(b, n)))
  BY DEF ExecLoad, LoadValues, n
<1>4. b \in TheIsa!Reads(TheIsa!At(i), TheIsa!Size(i))
  BY <1>1, <1>2, <1>3, SameReads, SameAddress
<1>5. TheIsa!Value(i, b) = Wrap(Extended(i.insn_ty, FromBytes(b, n)))
  <2>1. TheIsa!FromBytes(b, TheIsa!Size(i)) = FromBytes(b, n)
    BY <1>1, SameBytes
  <2>2. CASE i.insn_ty = "LB"
    BY <2>1, <2>2, SameWords DEF TheIsa!Value, Extended
  <2>3. CASE i.insn_ty = "LH"
    BY <2>1, <2>3, SameWords DEF TheIsa!Value, Extended
  <2>4. CASE i.insn_ty \notin {"LB", "LH"}
    <3>1. b \in [0 .. n - 1 -> Byte]
      BY <1>3 DEF LoadBytes
    <3>2. FromBytes(b, n) \in Word
      BY <1>1, <3>1, FromBytesWord
    <3> QED
      BY <2>1, <2>4, <3>2, WrapSmall DEF TheIsa!Value, Extended
  <2> QED
    BY <2>2, <2>3, <2>4
<1>6. TheIsa!Put(i.rd, TheIsa!Value(i, b))
  BY <1>2, <1>3, <1>5, WriteIsPut DEF IInv
<1>7. TheIsa!GoesTo(TheIsa!After) /\ Flat' = Flat
  BY MovesOn, FlatKept DEF ExecLoad
<1>8. TheIsa!At(i) \in TheIsa!Mapped
  BY <1>2, MappedIsFlat, SameAddress
<1> QED
  BY <1>1, <1>4, <1>6, <1>7, <1>8 DEF TheIsa!Load

LEMMA FlatStored ==
  ASSUME RegionsDisjoint, IInv, NEW i \in Insns, ExecStore(i)
  PROVE  TheIsa!Store(i)
<1> DEFINE n == StoreSize[i.insn_ty]
           b == [k \in 0 .. n - 1 |-> ByteOf(X[i.rs2], k)]
<1>1. i.insn_ty \in TheIsa!Stores /\ TheIsa!Size(i) = n /\ n \in Nat
  BY SameSizes DEF ExecStore
<1>2. Address(i) \in Word /\ Mapped(Address(i))
  BY InsnFields DEF IInv, ExecStore
<1>3. mem' = StoreBytes(mem, Address(i), n, b)
  BY DEF ExecStore, StoreValue
<1>4. b = [k \in 0 .. TheIsa!Size(i) - 1 |-> TheIsa!ByteOf(X[i.rs2], k)]
  BY <1>1, SameBytes
<1> HIDE DEF n, b
<1>5. Flat' = TheIsa!Written(TheIsa!At(i), TheIsa!Size(i), b)
  BY <1>1, <1>2, <1>3, SameWrites, SameAddress
<1>6. X' = X /\ TheIsa!GoesTo(TheIsa!After)
  BY ReadsKept, MovesOn DEF ExecStore, IInv
<1>7. TheIsa!At(i) \in TheIsa!Mapped
  BY <1>2, MappedIsFlat, SameAddress
<1> QED
  BY <1>1, <1>4, <1>5, <1>6, <1>7 DEF TheIsa!Store

\* Each branch is taken on its condition, and its counterpart on the others.
LEMMA SameCondition ==
  ASSUME IInv, NEW i \in Insns, i.insn_ty \in Branches
  PROVE  /\ i.insn_ty \in TheIsa!Equality \cup TheIsa!SignedOrder \cup TheIsa!Order
         /\ TheIsa!Condition(i.insn_ty, X[i.rs1], X[i.rs2]) <=> Taken(i)
<1>1. /\ X[i.rs1] \in Int /\ X[i.rs2] \in Int
      /\ Signed(X[i.rs1]) \in Int /\ Signed(X[i.rs2]) \in Int
  BY InsnFields, ModuliType DEF IInv, Signed, Word
<1>2. i.insn_ty \in TheIsa!Equality \cup TheIsa!SignedOrder \cup TheIsa!Order
  BY DEF Branches, TheIsa!Equality, TheIsa!SignedOrder, TheIsa!Order
<1>3. TheIsa!Condition(i.insn_ty, X[i.rs1], X[i.rs2]) <=> Taken(i)
  BY <1>1, SameWords
     DEF TheIsa!Condition, Taken, Branches, TheIsa!Equality, TheIsa!SignedOrder
<1> QED
  BY <1>2, <1>3

LEMMA FlatBranch ==
  ASSUME IInv, NEW i \in Insns, ExecBranch(i)
  PROVE  TheIsa!Branch(i)
<1>1. X' = X /\ Flat' = Flat /\ Status' = Status
  BY ReadsKept, FlatKept, StatusKept DEF ExecBranch, IInv
<1>2. pc' = IF TheIsa!Condition(i.insn_ty, X[i.rs1], X[i.rs2])
            THEN TheIsa!Wrap(pc + i.imm) ELSE TheIsa!After
  <2>1. pc' = IF Taken(i) THEN Wrap(pc + i.imm) ELSE Wrap(pc + 4)
    BY DEF ExecBranch, RISCV_INSNLEN
  <2> QED
    BY <2>1, SameCondition, SameWords DEF ExecBranch, TheIsa!After
<1> QED
  BY <1>1, <1>2, SameCondition DEF ExecBranch, TheIsa!Branch, TheIsa!GoesTo

LEMMA FlatJump ==
  ASSUME IInv, NEW i \in Insns, ExecJal(i) \/ ExecJalr(i)
  PROVE  TheIsa!Jump(i)
<1>1. i.rd \in Reg /\ Address(i) \in Word
  BY InsnFields DEF IInv
<1>2. Flat' = Flat /\ Status' = Status
  BY FlatKept, StatusKept DEF ExecJal, ExecJalr
<1>3. TheIsa!Put(i.rd, TheIsa!After)
  <2>1. WriteReg(i.rd, pc + 4)
    BY DEF ExecJal, ExecJalr, RISCV_INSNLEN
  <2>2. TheIsa!Put(i.rd, Wrap(pc + 4))
    BY <1>1, <2>1, WriteIsPut DEF IInv
  <2> QED
    BY <2>2, SameWords DEF TheIsa!After
<1>4. CASE ExecJal(i)
  BY <1>2, <1>3, <1>4, SameWords DEF ExecJal, TheIsa!Jump, TheIsa!GoesTo
<1>5. CASE ExecJalr(i)
  <2>1. ClearBit0(Address(i)) = 2 * (Address(i) \div 2)
    BY <1>1 DEF ClearBit0, Word
  <2>2. pc' = 2 * (TheIsa!At(i) \div 2)
    BY <1>5, <2>1, SameAddress DEF ExecJalr
  <2> QED
    BY <1>2, <1>3, <1>5, <2>2 DEF ExecJalr, TheIsa!Jump, TheIsa!GoesTo
<1> QED
  BY <1>4, <1>5

-----------------------------------------------------------------------------
(***************************************************************************)
(* System calls.                                                           *)
(***************************************************************************)

\* An answer is a word, put into a0.
LEMMA AnswerIsPut ==
  ASSUME IInv, NEW v \in Int, Returns(v)
  PROVE  /\ \E w \in TheIsa!Word : TheIsa!Put(10, w)
         /\ TheIsa!GoesTo(TheIsa!After)
<1>1. TheIsa!Put(10, Wrap(v))
  BY WriteIsPut, MachineAssumption DEF Returns, IInv
<1> QED
  BY <1>1, WrapType, SameWords, MovesOn DEF Returns

LEMMA FlatCall ==
  ASSUME RegionsDisjoint, IInv, IInv', NEW i \in Insns,
         SysRead(i) \/ SysWrite(i) \/ SysFstat(i) \/ SysBrk(i)
  PROVE  TheIsa!Call(i)
<1>1. X[11] \in Word /\ X[12] \in Word /\ X[10] \in Word /\ CurrentBrk \in Word
  BY ArgumentsType, CurrentBrkType DEF IInv
<1>2. PICK v \in Int : Returns(v)
  <2>1. \A n \in {-1} \cup 0 .. X[12] : n \in Int
    OBVIOUS
  <2> QED
    BY <1>1, <2>1 DEF SysRead, SysWrite, SysFstat, SysBrk, Word
<1>3. /\ \E w \in TheIsa!Word : TheIsa!Put(10, w)
      /\ TheIsa!GoesTo(TheIsa!After)
  BY <1>2, AnswerIsPut
<1>4. CASE SysRead(i) \/ SysWrite(i) \/ SysBrk(i)
  <2>1. /\ i.insn_ty = "ECALL" /\ Flat' = Flat
        /\ X[17] \in {SysNo["READ"], SysNo["WRITE"], SysNo["BRK"]}
        /\ X[17] # SysNo["BRK"] => Mapped(X[11])
    BY <1>4, FlatKept DEF SysRead, SysWrite, SysBrk, Calls
  <2> QED
    BY <1>1, <1>3, <2>1, MappedIsFlat DEF TheIsa!Call
<1>5. CASE SysFstat(i)
  <2>1. i.insn_ty = "ECALL" /\ X[17] = SysNo["FSTAT"] /\ Mapped(X[11])
    BY <1>5 DEF SysFstat, Calls
  <2>2. TheIsa!Confined(X[11], StatSize)
    <3>1. CASE mem' = mem
      <4>1. Flat \in [TheIsa!Mapped -> TheIsa!Byte]
        BY FlatType DEF IInv, TypeOK
      <4> QED
        BY <3>1, <4>1, FlatKept DEF TheIsa!Confined
    <3>2. CASE \E b \in [0 .. StatSize - 1 -> Byte] :
                 mem' = StoreBytes(mem, X[11], StatSize, b)
      <4>1. mem' \in [Cells -> Byte]
        BY DEF IInv, TypeOK
      <4>2. StatSize \in Nat
        BY MachineAssumption
      <4> QED
        BY <1>1, <2>1, <3>2, <4>1, <4>2, ConfinedWrites
    <3> QED
      BY <1>5, <3>1, <3>2 DEF SysFstat
  <2> QED
    BY <1>1, <1>3, <2>1, <2>2, MappedIsFlat DEF TheIsa!Call
<1> QED
  BY <1>4, <1>5

-----------------------------------------------------------------------------
(***************************************************************************)
(* Floating point.                                                         *)
(***************************************************************************)

LEMMA FlatFloat ==
  ASSUME IInv, NEW i \in Insns,
         \/ ExecFloat(i)    \/ ExecFloatToReg(i) \/ ExecFloatIgnored(i)
         \/ ExecFmvToReg(i) \/ ExecFmvFromReg(i)
  PROVE  TheIsa!Float(i)
<1>1. i.rd \in Reg /\ i.rs1 \in Reg
  BY DEF Insns
<1>2. /\ Flat' = Flat /\ TheIsa!GoesTo(TheIsa!After)
      /\ i.insn_ty \in FloatTypes \ {"FLx", "FSx", "FCLASSx"}
  BY FlatKept, MovesOn
     DEF ExecFloat, ExecFloatToReg, ExecFloatIgnored, ExecFmvToReg,
         ExecFmvFromReg, FloatTypes, WidthRequired, WidthOptional, Arithmetic,
         MinMax, Comparisons, FromInt, ToInt, Conversions
<1>3. CASE regs' = X
  BY <1>2, <1>3, ReadsKept, SameFloats DEF TheIsa!Float, IInv
<1>4. CASE ExecFloatToReg(i) \/ ExecFmvToReg(i)
  <2>1. PICK v \in Word : WriteReg(i.rd, v)
    <3>1. {0, 1} \subseteq Word
      BY ModuliType DEF Word
    <3>2. \A d \in FloatResults : d.lo \in Word
      BY MachineAssumption DEF Doubles
    <3>3. fregs[i.rs1].lo \in Word
      BY <1>1 DEF IInv, TypeOK, Doubles
    <3> QED
      BY <1>4, <3>1, <3>2, <3>3 DEF ExecFloatToReg, ExecFmvToReg
  <2>2. TheIsa!Put(i.rd, v)
    BY <1>1, <2>1, WriteIsPut, WrapSmall DEF IInv
  <2>3. i.insn_ty \in Comparisons \cup ToInt \cup {"FMV_X_W"}
    BY <1>4 DEF ExecFloatToReg, ExecFmvToReg
  <2> QED
    BY <1>2, <2>2, <2>3, SameFloats, SameWords DEF TheIsa!Float
<1> QED
  BY <1>3, <1>4 DEF ExecFloat, ExecFloatIgnored, ExecFmvFromReg

LEMMA FlatFloatTransfer ==
  ASSUME RegionsDisjoint, IInv, IInv', NEW i \in Insns,
         ExecFloatLoad(i) \/ ExecFloatStore(i)
  PROVE  TheIsa!FloatTransfer(i)
<1>1. /\ i.insn_ty \in {"FLx", "FSx"} /\ i.funct \in Widths
      /\ Mapped(Address(i))
  BY DEF ExecFloatLoad, ExecFloatStore, Transfers
<1>2. /\ Address(i) \in Word /\ TheIsa!At(i) = Address(i)
      /\ TheIsa!Size(i) = FloatSize(i) /\ TheIsa!Size(i) \in Nat
  BY <1>1, InsnFields, SameAddress, SameSizes DEF IInv
<1>3. X' = X /\ TheIsa!GoesTo(TheIsa!After)
  BY ReadsKept, MovesOn DEF ExecFloatLoad, ExecFloatStore, IInv
<1>4. TheIsa!At(i) \in TheIsa!Mapped
  BY <1>1, <1>2, MappedIsFlat
<1>5. CASE ExecFloatLoad(i)
  BY <1>1, <1>3, <1>4, <1>5, FlatKept, SameFloats
     DEF ExecFloatLoad, Transfers, TheIsa!FloatTransfer
<1>6. CASE ExecFloatStore(i)
  <2>1. TheIsa!Confined(TheIsa!At(i), TheIsa!Size(i))
    BY <1>1, <1>2, <1>6, ConfinedWrites DEF ExecFloatStore, IInv, TypeOK
  <2>2. i.insn_ty = "FSx"
    BY <1>6 DEF ExecFloatStore, Transfers
  <2> QED
    BY <1>1, <1>3, <1>4, <2>1, <2>2, SameFloats DEF TheIsa!FloatTransfer
<1> QED
  BY <1>5, <1>6

-----------------------------------------------------------------------------
(***************************************************************************)
(* The ends of a run.                                                      *)
(***************************************************************************)

LEMMA FlatHalt ==
  ASSUME IInv, CanStep, NEW i \in Insns,
         \/ ExecFence(i) \/ SysExit(i) \/ SysUnknown(i) \/ ExecFclass(i)
         \/ Reject(i) /\ i.insn_ty = "DIAGN"
  PROVE  TheIsa!Halt(i)
<1>1. X' = X /\ Flat' = Flat
  BY ReadsKept, FlatKept
     DEF ExecFence, SysExit, SysUnknown, Suspends, ExecFclass, Reject, IInv
<1>2. Status' = "halted"
  BY DEF ExecFence, SysExit, SysUnknown, Suspends, ExecFclass, Reject, CanStep,
         Status
<1>3. CASE ExecFence(i)
  <2>1. i.insn_ty \in {"FENCE", "FENCE_I"} /\ pc' = TheIsa!After
    BY <1>3, MovesOn DEF ExecFence, Fences, Suspends
  <2> QED
    BY <1>1, <1>2, <2>1 DEF TheIsa!Halt
<1>4. CASE SysExit(i) \/ SysUnknown(i)
  <2>1. i.insn_ty = "ECALL" /\ pc' = TheIsa!After
    BY <1>4, MovesOn DEF SysExit, SysUnknown, Calls, Suspends
  <2>2. DOMAIN SysNo = {"READ", "WRITE", "EXIT", "FSTAT", "BRK"}
    BY MachineAssumption
  <2>3. X[17] = SysNo["EXIT"] \/ X[17] \notin TheIsa!Served
    BY <1>4, <2>2 DEF SysExit, SysUnknown, Calls, TheIsa!Served, TheIsa!Buffered
  <2> QED
    BY <1>1, <1>2, <2>1, <2>3 DEF TheIsa!Halt
<1>5. CASE ExecFclass(i) \/ (Reject(i) /\ i.insn_ty = "DIAGN")
  BY <1>1, <1>2, <1>5 DEF ExecFclass, Reject, TheIsa!Halt
<1> QED
  BY <1>3, <1>4, <1>5

\* The process dies of nothing that the guest did not do wrong.
LEMMA DeathsAreWrong ==
  ASSUME RegionsDisjoint, IInv, NEW i \in Insns,
         \/ RejectFatal(i)     \/ RejectUnreachable(i) \/ ExecDivTrap(i)
         \/ ExecStoreOverrun(i) \/ AccessFault(i)      \/ SysFstatOverrun(i)
         \/ SysFault(i)         \/ FloatUnreachable(i) \/ FloatFault(i)
         \/ ExecFloatStoreOverrun(i)
  PROVE  TheIsa!Wrong(i)
<1>1. /\ Address(i) \in Word /\ X[11] \in Word /\ TheIsa!At(i) = Address(i)
  BY InsnFields, ArgumentsType, SameAddress DEF IInv
<1>2. CASE RejectFatal(i) \/ RejectUnreachable(i) \/ FloatUnreachable(i)
  BY <1>2, SameFloats
     DEF RejectFatal, RejectUnreachable, FloatUnreachable, TheIsa!Wrong
<1>3. CASE ExecDivTrap(i)
  BY <1>3, SameOperations DEF ExecDivTrap, DivTraps, Divisions, TheIsa!Wrong
<1>4. CASE AccessFault(i) \/ FloatFault(i)
  <2>1. i.insn_ty \in TheIsa!Accesses /\ ~Mapped(Address(i))
    BY <1>4, SameSizes DEF AccessFault, FloatFault, TheIsa!Accesses
  <2> QED
    BY <1>1, <2>1, MappedIsFlat DEF TheIsa!Wrong
<1>5. CASE ExecStoreOverrun(i) \/ ExecFloatStoreOverrun(i)
  <2>1. /\ i.insn_ty \in TheIsa!Stores \cup {"FSx"}
        /\ Mapped(Address(i)) /\ ~Fits(Address(i), TheIsa!Size(i))
        /\ TheIsa!Size(i) \in Nat \ {0}
    BY <1>5, SameSizes
       DEF ExecStoreOverrun, ExecFloatStoreOverrun, Transfers
  <2> QED
    BY <1>1, <2>1, InsideFits DEF TheIsa!Wrong
<1>6. CASE SysFault(i)
  <2>1. /\ i.insn_ty = "ECALL" /\ ~Mapped(X[11])
        /\ X[17] \in {SysNo["READ"], SysNo["WRITE"], SysNo["FSTAT"]}
    BY <1>6 DEF SysFault, Calls
  <2> QED
    BY <1>1, <2>1, MappedIsFlat DEF TheIsa!Wrong, TheIsa!BadBuffer, TheIsa!Buffered
<1>7. CASE SysFstatOverrun(i)
  <2>1. /\ i.insn_ty = "ECALL" /\ X[17] = SysNo["FSTAT"]
        /\ Mapped(X[11]) /\ ~Fits(X[11], StatSize)
    BY <1>7 DEF SysFstatOverrun, Calls
  <2>2. StatSize \in Nat \ {0}
    BY <1>1, <2>1, MachineAssumption, OffsetInRegion, TranslationType DEF Fits, Word
  <2> QED
    BY <1>1, <2>1, <2>2, InsideFits DEF TheIsa!Wrong, TheIsa!BadBuffer
<1> QED
  BY <1>2, <1>3, <1>4, <1>5, <1>6, <1>7

-----------------------------------------------------------------------------
(***************************************************************************)
(* The step and the theorem.                                               *)
(***************************************************************************)

LEMMA Deaths ==
  ASSUME IInv, NEW how \in HostStates \ {"running"}, HostDies(how)
  PROVE  Status' = "dead" /\ UNCHANGED <<X, Flat, pc>>
<1>1. Status' = "dead"
  BY DEF HostDies, HostStates, Status
<1>2. X' = X /\ pc' = pc
  BY DEF HostDies, X
<1> QED
  BY <1>1, <1>2, FlatKept DEF HostDies

LEMMA DispatchIsFlat ==
  ASSUME RegionsDisjoint, IInv, IInv', CanStep, NEW i \in Fetched, i \in Insns,
         Dispatch(i)
  PROVE  TheIsa!Execute(i) \/ TheIsa!Die
<1> DEFINE Fatal == \/ ExecDivTrap(i)      \/ ExecStoreOverrun(i)
                    \/ AccessFault(i)      \/ SysFstatOverrun(i)
                    \/ SysFault(i)         \/ FloatUnreachable(i)
                    \/ ExecFloatStoreOverrun(i) \/ FloatFault(i)
<1>1. CASE Fatal
  <2>1. TheIsa!Wrong(i)
    BY <1>1, DeathsAreWrong
  <2>2. Status' = "dead" /\ UNCHANGED <<X, Flat, pc>>
    <3>1. \E how \in HostStates \ {"running"} : HostDies(how)
      BY <1>1
         DEF ExecDivTrap, ExecStoreOverrun, AccessFault, SysFstatOverrun,
             SysFault, FloatUnreachable, ExecFloatStoreOverrun, FloatFault,
             HostStates
    <3> QED
      BY <3>1, Deaths
  <2>3. i \in TheIsa!Fetches
    BY SameFetches DEF IInv, TypeOK
  <2> QED
    BY <2>1, <2>2, <2>3 DEF TheIsa!Die
<1>2. CASE ExecReg(i) \/ ExecImm(i)
  BY <1>2, FlatCalculate DEF TheIsa!Execute
<1>3. CASE ExecUpper(i)
  BY <1>3, FlatUpper DEF TheIsa!Execute
<1>4. CASE ExecLoad(i) \/ ExecStore(i)
  BY <1>4, FlatLoads, FlatStored DEF TheIsa!Execute
<1>5. CASE ExecBranch(i)
  BY <1>5, FlatBranch DEF TheIsa!Execute
<1>6. CASE ExecJal(i) \/ ExecJalr(i)
  BY <1>6, FlatJump DEF TheIsa!Execute
<1>7. CASE ExecEbreak(i)
  <2>1. TheIsa!Ebreak(i)
    BY <1>7, ReadsKept, FlatKept, MovesOn DEF ExecEbreak, TheIsa!Ebreak, IInv
  <2> QED
    BY <2>1 DEF TheIsa!Execute
<1>8. CASE SysRead(i) \/ SysWrite(i) \/ SysFstat(i) \/ SysBrk(i)
  BY <1>8, FlatCall DEF TheIsa!Execute
<1>9. CASE ExecFence(i) \/ SysExit(i) \/ SysUnknown(i) \/ ExecFclass(i)
  BY <1>9, FlatHalt DEF TheIsa!Execute
<1>10. CASE \/ ExecFloat(i)    \/ ExecFloatToReg(i) \/ ExecFloatIgnored(i)
            \/ ExecFmvToReg(i) \/ ExecFmvFromReg(i)
  BY <1>10, FlatFloat DEF TheIsa!Execute
<1>11. CASE ExecFloatLoad(i) \/ ExecFloatStore(i)
  BY <1>11, FlatFloatTransfer DEF TheIsa!Execute
<1> QED
  BY <1>1, <1>2, <1>3, <1>4, <1>5, <1>6, <1>7, <1>8, <1>9, <1>10, <1>11
     DEF Dispatch, DispatchFloat

\* Every step of the emulator is one of the flat hart, or shows it nothing.
LEMMA StepIsFlat ==
  ASSUME RegionsDisjoint, IInv, IInv', [Next]_vars
  PROVE  [TheIsa!Next]_(TheIsa!vars)
<1>1. CASE UNCHANGED vars
  <2>1. X' = X /\ Status' = Status /\ Flat' = Flat /\ pc' = pc
    BY <1>1, FlatKept, StatusKept DEF vars, X
  <2> QED
    BY <2>1 DEF TheIsa!vars
<1>2. CASE Step
  <2>1. CanStep /\ Status = "running" /\ pc \in Word
    BY <1>2 DEF Step, CanStep, Status, IInv, TypeOK
  <2>2. TheIsa!Fetches = Fetched
    BY <2>1, SameFetches
  <2>3. CASE FetchFault
    <3>1. pc \notin TheIsa!Mapped
      BY <2>3, MappedIsFlat DEF FetchFault
    <3>2. Status' = "dead" /\ UNCHANGED <<X, Flat, pc>>
      BY <2>3, Deaths DEF FetchFault, HostStates
    <3> QED
      BY <2>1, <3>1, <3>2 DEF TheIsa!Die, TheIsa!Next
  <2>4. ASSUME NEW i \in Fetched, RejectFatal(i) \/ RejectUnreachable(i)
        PROVE  TheIsa!Die
    <3>1. TheIsa!Wrong(i)
      BY <2>4, FetchedType, DeathsAreWrong
    <3>2. Status' = "dead" /\ UNCHANGED <<X, Flat, pc>>
      BY <2>4, Deaths DEF RejectFatal, RejectUnreachable, HostStates
    <3> QED
      BY <2>2, <3>1, <3>2 DEF TheIsa!Die
  <2>5. ASSUME NEW i \in Fetched, Reject(i)
        PROVE  TheIsa!Execute(i) \/ UNCHANGED TheIsa!vars
    <3>1. CASE i.insn_ty = "DIAGN"
      BY <2>1, <2>5, <3>1, FetchedType, FlatHalt DEF TheIsa!Execute
    <3>2. CASE i.insn_ty = "SILENT"
      <4>1. suspended' = FALSE
        BY <2>5, <3>2 DEF Reject
      <4>2. suspended = FALSE
        BY <2>1 DEF CanStep, IInv, TypeOK
      <4>3. UNCHANGED <<suspended, host>>
        BY <2>5, <4>1, <4>2 DEF Reject
      <4>4. X' = X /\ Flat' = Flat /\ Status' = Status /\ pc' = pc
        BY <2>5, <4>3, ReadsKept, FlatKept, StatusKept DEF Reject, IInv
      <4> QED
        BY <4>4 DEF TheIsa!vars
    <3> QED
      BY <2>5, <3>1, <3>2 DEF Reject
  <2>6. ASSUME NEW i \in Fetched, Dispatch(i)
        PROVE  TheIsa!Execute(i) \/ TheIsa!Die
    BY <2>1, <2>6, FetchedType, DispatchIsFlat
  <2> QED
    BY <1>2, <2>1, <2>2, <2>3, <2>4, <2>5, <2>6 DEF Step, Dies, TheIsa!Next
<1> QED
  BY <1>1, <1>2 DEF Next

LEMMA InitIsFlat ==
  ASSUME RegionsDisjoint, Init
  PROVE  TheIsa!Init
<1>1. TypeOK
  BY InitInv DEF IInv
<1>2. X = [r \in Reg |-> IF r = 2 THEN StackTop ELSE 0]
  <2>1. X = [regs EXCEPT ![0] = 0]
    BY DEF X
  <2> QED
    BY <2>1, MachineAssumption DEF Init
<1>3. Flat \in [TheIsa!Mapped -> TheIsa!Byte]
  BY <1>1, FlatType DEF TypeOK
<1>4. pc = Entry /\ Status = "running"
  BY DEF Init, Status
<1> QED
  BY <1>2, <1>3, <1>4 DEF TheIsa!Init

\* Where no two regions overlap, as DisjointRegions shows of every well-formed
\* file, the guest runs on the flat hart of Isa: for every program, one that
\* rewrites itself included, and every width of a byte.
THEOREM ImplementsIsa ==
  ASSUME RegionsDisjoint
  PROVE  Spec => IsaKept
<1>1. IInv /\ IInv' /\ [Next]_vars => [TheIsa!Next]_(TheIsa!vars)
  BY StepIsFlat
<1>2. Init => TheIsa!Init
  BY InitIsFlat
<1> QED
  BY <1>1, <1>2, Invariance, PTL DEF Spec, IsaKept, TheIsa!Spec
=============================================================================
