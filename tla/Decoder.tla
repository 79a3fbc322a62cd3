------------------------------ MODULE Decoder ------------------------------
(***************************************************************************)
(* rvdec_insn (decoder.c, insn/*_ty.c): the instruction a word stands for. *)
(* A word is given by the fields of the R format (union insn_base), from   *)
(* which every other format's fields are put together; a decoded immediate *)
(* is given as the i32 that its word_t holds.                              *)
(***************************************************************************)
EXTENDS Integers

U3 == 0 .. 7
U5 == 0 .. 31
U7 == 0 .. 127

BaseWords ==
  [opcode : U7, rd : U5, funct3 : U3, rs1 : U5, rs2 : U5, funct7 : U7]

\* (union insn_base)bytes: bit-fields are allocated from the least bit on.
BaseOf(bytes) ==
  [opcode |-> bytes % 128,
   rd     |-> (bytes \div 128) % 32,
   funct3 |-> (bytes \div 4096) % 8,
   rs1    |-> (bytes \div 32768) % 32,
   rs2    |-> (bytes \div 1048576) % 32,
   funct7 |-> bytes \div 33554432]

-----------------------------------------------------------------------------
(***************************************************************************)
(* Which words are which instruction: the values each field may have.      *)
(***************************************************************************)
Any(opcode) ==
  [opcode |-> {opcode}, rd |-> U5, funct3 |-> U3, rs1 |-> U5, rs2 |-> U5,
   funct7 |-> U7]

Funct3(opcode, funct3) == [Any(opcode) EXCEPT !.funct3 = {funct3}]

\* Mutant of Arith: the function bits above funct3 are not looked at.
ArithAnyFunct7(opcode, funct7, funct3) == Funct3(opcode, funct3)

Arith(opcode, funct7, funct3) ==
  [Funct3(opcode, funct3) EXCEPT !.funct7 = {funct7}]

\* FENCE, ECALL and the like are single words.
Single(opcode, funct3, imm) ==
  [Funct3(opcode, funct3) EXCEPT !.rd = {0}, !.rs1 = {0},
     !.rs2 = {imm % 32}, !.funct7 = {imm \div 32}]

\* The least bit of funct7 is the precision.
Float(funct7, rs2, funct3) ==
  [Any(83) EXCEPT !.funct7 = {funct7, funct7 + 1}, !.rs2 = rs2,
     !.funct3 = funct3]
Convert(funct7, rs2) == [Any(83) EXCEPT !.funct7 = {funct7}, !.rs2 = {rs2}]

Pattern ==
  [LUI |-> Any(55), AUIPC |-> Any(23), JAL |-> Any(111), JALR |-> Any(103),
   BEQ  |-> Funct3(99, 0), BNE  |-> Funct3(99, 1), BLT  |-> Funct3(99, 4),
   BGE  |-> Funct3(99, 5), BLTU |-> Funct3(99, 6), BGEU |-> Funct3(99, 7),
   LB   |-> Funct3(3, 0), LH  |-> Funct3(3, 1), LW |-> Funct3(3, 2),
   LBU  |-> Funct3(3, 4), LHU |-> Funct3(3, 5),
   SB   |-> Funct3(35, 0), SH |-> Funct3(35, 1), SW |-> Funct3(35, 2),
   ADDI |-> Funct3(19, 0), SLTI |-> Funct3(19, 2), SLTIU |-> Funct3(19, 3),
   XORI |-> Funct3(19, 4), ORI  |-> Funct3(19, 6), ANDI  |-> Funct3(19, 7),
   SLLI |-> Arith(19, 0, 1), SRLI |-> Arith(19, 0, 5),
   SRAI |-> Arith(19, 32, 5),
   ADD  |-> Arith(51, 0, 0), SUB  |-> Arith(51, 32, 0),
   SLL  |-> Arith(51, 0, 1), SLT  |-> Arith(51, 0, 2),
   SLTU |-> Arith(51, 0, 3), XOR  |-> Arith(51, 0, 4),
   SRL  |-> Arith(51, 0, 5), SRA  |-> Arith(51, 32, 5),
   OR   |-> Arith(51, 0, 6), AND  |-> Arith(51, 0, 7),
   MUL    |-> Arith(51, 1, 0), MULH  |-> Arith(51, 1, 1),
   MULHSU |-> Arith(51, 1, 2), MULHU |-> Arith(51, 1, 3),
   DIV    |-> Arith(51, 1, 4), DIVU  |-> Arith(51, 1, 5),
   REM    |-> Arith(51, 1, 6), REMU  |-> Arith(51, 1, 7),
   FENCE  |-> Single(15, 0, 255), FENCE_I |-> Single(15, 1, 0),
   ECALL  |-> Single(115, 0, 0),  EBREAK  |-> Single(115, 0, 1),
   FLx    |-> [Any(7)  EXCEPT !.funct3 = {2, 3}],
   FSx    |-> [Any(39) EXCEPT !.funct3 = {2, 3}],
   FMADDx |-> Any(67), FMSUBx |-> Any(71), FNMSUBx |-> Any(75),
   FNMADDx |-> Any(79),
   FADDx  |-> Float(0, U5, U3),   FSUBx   |-> Float(4, U5, U3),
   FMULx  |-> Float(8, U5, U3),   FDIVx   |-> Float(12, U5, U3),
   FSGNJx |-> Float(16, U5, {0}), FSGNJNx |-> Float(16, U5, {1}),
   FSGNJXx |-> Float(16, U5, {2}),
   FMINx  |-> Float(20, U5, {0}), FMAXx |-> Float(20, U5, {1}),
   FLEx   |-> Float(80, U5, {0}), FLTx  |-> Float(80, U5, {1}),
   FEQx   |-> Float(80, U5, {2}),
   FSQRTx   |-> Float(44, {0}, U3),
   FCVT_W_x |-> Float(96, {0}, U3),    FCVT_WU_x |-> Float(96, {1}, U3),
   FCVT_x_W |-> Float(104, {0, 1}, U3),
   FMV_X_W  |-> Float(112, {0}, {0}),  FCLASSx   |-> Float(112, {0}, {1}),
   FMV_W_X  |-> Float(120, {0}, U3),
   FCVT_S_D |-> Convert(32, 1),        FCVT_D_S  |-> Convert(33, 0)]

Is(w, ty) == \A f \in DOMAIN w : w[f] \in Pattern[ty][f]

Meanings(w) == {ty \in DOMAIN Pattern : Is(w, ty)}

\* The order in which the cases are tried decides nothing.
Unambiguous(w) == \A s, t \in Meanings(w) : s = t

\* Why a word that is none of them is rejected (Emulator names the outcomes):
\* a shift with bad function bits falls out of its switch, an arithmetic
\* instruction is dropped without a diagnostic, and the CSR instructions
\* end in rvasm_emit.
Rejection(w) ==
  IF w.opcode = 19 /\ w.funct3 = 1 THEN "UNREACHABLE"
  ELSE IF w.opcode = 51 THEN "SILENT"
  ELSE IF w.opcode = 115 /\ w.funct3 \in {1, 2, 3, 5, 6, 7} THEN "FATAL"
  ELSE "DIAGN"

InsnTy(w) ==
  IF Meanings(w) # {} THEN CHOOSE ty \in Meanings(w) : TRUE ELSE Rejection(w)

-----------------------------------------------------------------------------
(***************************************************************************)
(* Fields.                                                                 *)
(***************************************************************************)
\* Mutant of SignExtended: the comparison misses the sign bit itself.
SignExtendedLate(v, bit) == IF v > bit THEN v - (2 * bit) ELSE v

\* SIGNEXT, of a v below twice the sign bit.
SignExtended(v, bit) == IF v >= bit THEN v - (2 * bit) ELSE v

ImmI(w) == SignExtended((32 * w.funct7) + w.rs2, 2048)
ImmS(w) == SignExtended((32 * w.funct7) + w.rd, 2048)

\* Mutant of ImmB: the immediate's bit 11 is left where its field is.
ImmBUnmoved(w) ==
  SignExtended((4096 * (w.funct7 \div 64)) + (32 * (w.funct7 % 64)) + w.rd, 4096)

ImmB(w) ==
  SignExtended((4096 * (w.funct7 \div 64)) + (2048 * (w.rd % 2))
               + (32 * (w.funct7 % 64)) + (2 * (w.rd \div 2)), 4096)
ImmU(w) ==
  (8192 * w.funct7) + (256 * w.rs2) + (8 * w.rs1) + w.funct3
ImmJ(w) ==
  SignExtended((1048576 * (w.funct7 \div 64)) + (4096 * ((8 * w.rs1) + w.funct3))
               + (2048 * (w.rs2 % 2))
               + (2 * ((16 * (w.funct7 % 64)) + (w.rs2 \div 2))), 1048576)

Formats ==
  [R |-> {51, 83}, I |-> {103, 3, 19, 15, 115, 7}, S |-> {35, 39},
   U |-> {23, 55}, J |-> {111}, B |-> {99}, R4 |-> {67, 71, 75, 79}]

Has(w, fmt) == w.opcode \in Formats[fmt]

\* The fields that a format does not name are zero.
Fields(w) ==
  LET none == [rd |-> 0, rs1 |-> 0, rs2 |-> 0, rs3 |-> 0, funct |-> 0, imm |-> 0]
  IN  IF Has(w, "R") THEN
        [none EXCEPT !.rd = w.rd, !.rs1 = w.rs1, !.rs2 = w.rs2,
           !.funct = (8 * w.funct7) + w.funct3]
      ELSE IF Has(w, "I") THEN
        [none EXCEPT !.rd = w.rd, !.rs1 = w.rs1, !.funct = w.funct3,
           !.imm = ImmI(w)]
      ELSE IF Has(w, "S") THEN
        [none EXCEPT !.rs1 = w.rs1, !.rs2 = w.rs2, !.funct = w.funct3,
           !.imm = ImmS(w)]
      ELSE IF Has(w, "U") THEN [none EXCEPT !.rd = w.rd, !.imm = ImmU(w)]
      ELSE IF Has(w, "J") THEN [none EXCEPT !.rd = w.rd, !.imm = ImmJ(w)]
      ELSE IF Has(w, "B") THEN
        [none EXCEPT !.rs1 = w.rs1, !.rs2 = w.rs2, !.funct = w.funct3,
           !.imm = ImmB(w)]
      ELSE IF Has(w, "R4") THEN
        [none EXCEPT !.rd = w.rd, !.rs1 = w.rs1, !.rs2 = w.rs2,
           !.rs3 = w.funct7 \div 4, !.funct = w.funct3]
      ELSE none

\* What Emulator assumes of its decoder: the offsets of jumps and branches are
\* even, whatever the word.
EvenOffset(w) == Has(w, "B") \/ Has(w, "J") => Fields(w).imm % 2 = 0

RvdecInsn(w) == [insn_ty |-> InsnTy(w), fields |-> Fields(w)]
=============================================================================
