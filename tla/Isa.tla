--------------------------------- MODULE Isa ---------------------------------
(***************************************************************************)
(* What the emulator promises a guest: a hart of the instruction set, with *)
(* registers of which number 0 is always zero, and one flat memory.  There *)
(* is no table of regions here, no host buffer, no pointer and no cleared  *)
(* register; only that the memory comes in chunks, and that an access does *)
(* not reach from one into the next.  The floating-point registers are     *)
(* hidden: what comes out of them is any value.                            *)
(***************************************************************************)
EXTENDS Operations, FloatOps

CONSTANTS
  Reg, Decode, Compute(_, _, _), SysNo, UpperUnit, StatSize, Entry, StackTop,
  Chunks     \* the sets of addresses that have memory

VARIABLES
  x,         \* the registers
  flat,      \* the byte at each address that has memory
  pc,
  status     \* "running", "halted" or "dead"

vars == <<x, flat, pc, status>>

Mapped == UNION Chunks

Init ==
  /\ x = [r \in Reg |-> IF r = 2 THEN StackTop ELSE 0]
  /\ flat \in [Mapped -> Byte]
  /\ pc = Entry
  /\ status = "running"

-----------------------------------------------------------------------------
(***************************************************************************)
(* Memory.                                                                 *)
(***************************************************************************)
\* An access to a reaches b.
Together(a, b) == \E c \in Chunks : a \in c /\ b \in c

Inside(a, n) == \A k \in 0 .. n - 1 : Together(a, a + k)

\* What n bytes from a on may read as: a byte that is not reached is any byte.
Reads(a, n) ==
  {b \in [0 .. n - 1 -> Byte] :
     \A k \in 0 .. n - 1 : Together(a, a + k) => b[k] = flat[a + k]}

\* The memory after b[0] .. b[n - 1] were written from a on.
Written(a, n, b) ==
  [c \in Mapped |->
     IF c - a \in 0 .. n - 1 /\ Together(a, c) THEN b[c - a] ELSE flat[c]]

\* Nothing but n bytes from a on is written.
Confined(a, n) ==
  /\ flat' \in [Mapped -> Byte]
  /\ \A c \in Mapped :
       flat'[c] # flat[c] => c - a \in 0 .. n - 1 /\ Together(a, c)

Fetches ==
  IF pc \in Mapped THEN {Decode[FromBytes(b, 4)] : b \in Reads(pc, 4)} ELSE {}

-----------------------------------------------------------------------------
(***************************************************************************)
(* Instructions.                                                           *)
(***************************************************************************)
After == Wrap(pc + 4)

Put(rd, v) == x' = [x EXCEPT ![rd] = IF rd = 0 THEN 0 ELSE v]

GoesTo(target) == pc' = target /\ status' = status

Immediate ==
  [ADD |-> "ADDI", SLL |-> "SLLI", SLT |-> "SLTI", SLTU |-> "SLTIU",
   XOR |-> "XORI", SRL |-> "SRLI", SRA |-> "SRAI", OR |-> "ORI", AND |-> "ANDI"]

\* The operation an instruction stands for, and its second operand.
Means(i, op, b) ==
  \/ i.insn_ty = op /\ b = x[i.rs2]
  \/ op \in DOMAIN Immediate /\ i.insn_ty = Immediate[op] /\ b = i.imm

Calculate(i) ==
  /\ \E op \in RegOps, b \in {x[i.rs2], i.imm} :
       /\ Means(i, op, b) /\ ~DivTraps(op, x[i.rs1], b)
       /\ Put(i.rd, Compute(op, x[i.rs1], b))
  /\ GoesTo(After) /\ flat' = flat

Upper(i) ==
  /\ \/ i.insn_ty = "LUI"   /\ Put(i.rd, Wrap(i.imm * UpperUnit))
     \/ i.insn_ty = "AUIPC" /\ Put(i.rd, Wrap(pc + i.imm * UpperUnit))
  /\ GoesTo(After) /\ flat' = flat

At(i) == Wrap(x[i.rs1] + i.imm)

Loads  == {"LB", "LBU", "LH", "LHU", "LW"}
Stores == {"SB", "SH", "SW"}

Size(i) ==
  IF i.insn_ty \in {"LB", "LBU", "SB"} THEN 1
  ELSE IF i.insn_ty \in {"LH", "LHU", "SH"} THEN 2
  ELSE IF i.insn_ty \in {"FLx", "FSx"} /\ i.funct = DOUBLE THEN 8
  ELSE 4

\* The word that the bytes of a load stand for.
Value(i, b) ==
  LET v == FromBytes(b, Size(i))
  IN  IF i.insn_ty = "LB" THEN Wrap(SignExtend(v, ByteMod))
      ELSE IF i.insn_ty = "LH" THEN Wrap(SignExtend(v, HalfMod))
      ELSE v

Load(i) ==
  /\ i.insn_ty \in Loads /\ At(i) \in Mapped
  /\ \E b \in Reads(At(i), Size(i)) : Put(i.rd, Value(i, b))
  /\ GoesTo(After) /\ flat' = flat

Store(i) ==
  /\ i.insn_ty \in Stores /\ At(i) \in Mapped
  /\ flat' = Written(At(i), Size(i),
                     [k \in 0 .. Size(i) - 1 |-> ByteOf(x[i.rs2], k)])
  /\ GoesTo(After) /\ x' = x

Equality   == {"BEQ", "BNE"}
SignedOrder == {"BLT", "BGE"}
Order      == {"BLTU", "BGEU"}

\* Of each two branches, one is taken when the other is not.
Condition(ty, a, b) ==
  IF ty \in Equality THEN (ty = "BEQ") = (a = b)
  ELSE IF ty \in SignedOrder THEN (ty = "BLT") = (Signed(a) < Signed(b))
  ELSE (ty = "BLTU") = (a < b)

Branch(i) ==
  /\ i.insn_ty \in Equality \cup SignedOrder \cup Order
  /\ GoesTo(IF Condition(i.insn_ty, x[i.rs1], x[i.rs2]) THEN Wrap(pc + i.imm)
            ELSE After)
  /\ x' = x /\ flat' = flat

Jump(i) ==
  /\ \/ i.insn_ty = "JAL"  /\ GoesTo(Wrap(pc + i.imm))
     \/ i.insn_ty = "JALR" /\ GoesTo(2 * (At(i) \div 2))
  /\ Put(i.rd, After) /\ flat' = flat

Ebreak(i) == i.insn_ty = "EBREAK" /\ GoesTo(After) /\ x' = x /\ flat' = flat

\* A call that the emulator serves: it answers in a0, and only fstat writes.
Call(i) ==
  /\ i.insn_ty = "ECALL"
  /\ \/ x[17] \in {SysNo["READ"], SysNo["WRITE"], SysNo["BRK"]} /\ flat' = flat
     \/ x[17] = SysNo["FSTAT"] /\ Confined(x[11], StatSize)
  /\ x[17] # SysNo["BRK"] => x[11] \in Mapped
  /\ \E v \in Word : Put(10, v)
  /\ GoesTo(After)

\* A floating-point instruction other than a load, a store and FCLASS.
Float(i) ==
  /\ i.insn_ty \in FloatTypes \ {"FLx", "FSx", "FCLASSx"}
  /\ \/ x' = x
     \/ /\ i.insn_ty \in Comparisons \cup ToInt \cup {"FMV_X_W"}
        /\ \E v \in Word : Put(i.rd, v)
  /\ GoesTo(After) /\ flat' = flat

FloatTransfer(i) ==
  /\ i.insn_ty \in {"FLx", "FSx"} /\ i.funct \in Widths /\ At(i) \in Mapped
  /\ IF i.insn_ty = "FLx" THEN flat' = flat ELSE Confined(At(i), Size(i))
  /\ GoesTo(After) /\ x' = x

-----------------------------------------------------------------------------
(***************************************************************************)
(* The ends of a run.                                                      *)
(***************************************************************************)
Buffered == {SysNo["READ"], SysNo["WRITE"], SysNo["FSTAT"]}
Served   == Buffered \cup {SysNo["BRK"]}

\* The guest exits, or asks for what the emulator does not do; an instruction
\* it does not know does not move the pc.
Halt(i) ==
  /\ \/ /\ \/ i.insn_ty \in {"FENCE", "FENCE_I"}
           \/ i.insn_ty = "ECALL" /\ (x[17] = SysNo["EXIT"] \/ x[17] \notin Served)
        /\ pc' = After
     \/ i.insn_ty \in {"DIAGN", "FCLASSx"} /\ pc' = pc
  /\ status' = "halted"
  /\ x' = x /\ flat' = flat

Accesses == Loads \cup Stores \cup {"FLx", "FSx"}

\* A call with a buffer, of which fstat alone is written by the host.
BadBuffer(i) ==
  /\ i.insn_ty = "ECALL"
  /\ \/ x[17] \in Buffered /\ x[11] \notin Mapped
     \/ x[17] = SysNo["FSTAT"] /\ ~Inside(x[11], StatSize)

\* What an instruction the emulator may die of has done wrong.
Wrong(i) ==
  \/ i.insn_ty \in {"FATAL", "UNREACHABLE"}
  \/ i.insn_ty \in Divisions /\ DivTraps(i.insn_ty, x[i.rs1], x[i.rs2])
  \/ i.insn_ty \in Accesses /\ At(i) \notin Mapped
  \/ i.insn_ty \in Stores \cup {"FSx"} /\ ~Inside(At(i), Size(i))
  \/ BadBuffer(i)
  \/ i.insn_ty \in WidthRequired /\ i.funct \notin Widths

Die ==
  /\ pc \notin Mapped \/ \E i \in Fetches : Wrong(i)
  /\ status' = "dead"
  /\ UNCHANGED <<x, flat, pc>>

Execute(i) ==
  \/ Calculate(i) \/ Upper(i)  \/ Load(i)  \/ Store(i) \/ Branch(i)
  \/ Jump(i)      \/ Ebreak(i) \/ Call(i)  \/ Float(i) \/ FloatTransfer(i)
  \/ Halt(i)

Next == status = "running" /\ (Die \/ \E i \in Fetches : Execute(i))

Spec == Init /\ [][Next]_vars
=============================================================================
