------------------------------ MODULE InsnSet ------------------------------
(***************************************************************************)
(* The decoded instructions (platform.h: enum e_insn, insn_t), and what    *)
(* rvemu_dispatch needs of the decoder and of the arithmetic.              *)
(***************************************************************************)
EXTENDS Operations, FloatOps

CONSTANT Reg    \* the register numbers: 0 .. 31 in the program

\* The operation each register-immediate instruction shares with RegOps.
ImmOp ==
  [ADDI |-> "ADD", SLLI |-> "SLL", SLTI |-> "SLT", SLTIU |-> "SLTU",
   XORI |-> "XOR", SRLI |-> "SRL", SRAI |-> "SRA", ORI |-> "OR",
   ANDI |-> "AND"]

LoadSize  == [LB |-> 1, LH |-> 2, LW |-> 4, LBU |-> 1, LHU |-> 2]
\* Mutant of StoreSize: SH stores a word.
StoreSizeWide == [SB |-> 1, SH |-> 4, SW |-> 4]

StoreSize == [SB |-> 1, SH |-> 2, SW |-> 4]
Branches  == {"BEQ", "BNE", "BLT", "BGE", "BLTU", "BGEU"}
Fences    == {"FENCE", "FENCE_I"}

\* The ways rvdec_insn yields no instruction: it reports a diagnostic (which
\* suspends), it returns RV_INSN__INVALID without one, rvasm_emit calls
\* rvtrbk_fatal, or control reaches a __builtin_unreachable.
Rejections == {"DIAGN", "SILENT", "FATAL", "UNREACHABLE"}

InsnTypes ==
  RegOps \cup DOMAIN ImmOp \cup DOMAIN LoadSize \cup DOMAIN StoreSize
    \cup Branches \cup Fences \cup FloatTypes \cup Rejections
    \cup {"JAL", "JALR", "LUI", "AUIPC", "ECALL", "EBREAK"}

\* insn_t, without the rs3 that only the fused multiply-adds read.
Insns ==
  [insn_ty : InsnTypes, rd : Reg, rs1 : Reg, rs2 : Reg, funct : Nat,
   imm : Word]

\* Every word is decoded to an instruction or rejected; the offset of a jump or
\* a branch is even by the layout of its format.
IsDecoder(decode) ==
  /\ decode \in [Word -> Insns]
  /\ \A w \in Word :
       decode[w].insn_ty \in Branches \cup {"JAL"} => decode[w].imm % 2 = 0

\* Where the host does not trap, the result is a word.
ComputesWords(compute(_, _, _)) ==
  \A op \in RegOps : \A a, b \in Word :
     ~DivTraps(op, a, b) => compute(op, a, b) \in Word
=============================================================================
