------------------------------ MODULE Decoding ------------------------------
(***************************************************************************)
(* One call of rvdec_insn on any word, and what the instruction it returns *)
(* must be, against the layout of the instruction formats given bit by bit. *)
(***************************************************************************)
EXTENDS Decoder, InsnSet, Bits

CONSTANT Samples    \* the words that are decoded

ASSUME SamplesAssumption == Samples \subseteq BaseWords

VARIABLES word, insn

decodingVars == <<word, insn>>

NotDecoded == [insn_ty |-> "NotDecoded"]

DecodingInit == word \in Samples /\ insn = NotDecoded

Decode ==
  /\ insn = NotDecoded
  /\ insn' = RvdecInsn(word)
  /\ word' = word

DecodingSpec == DecodingInit /\ [][Decode]_decodingVars

\* The insn_t that Hart is given for a word of the program: an immediate is
\* stored in a word_t.
RvdecWord(bytes) ==
  LET i == RvdecInsn(BaseOf(bytes))
  IN  [insn_ty |-> i.insn_ty, rd |-> i.fields.rd, rs1 |-> i.fields.rs1,
       rs2 |-> i.fields.rs2, funct |-> i.fields.funct,
       imm |-> Wrap(i.fields.imm)]

-----------------------------------------------------------------------------
Decoded  == insn # NotDecoded
Accepted == Decoded /\ insn.insn_ty \in DOMAIN Pattern

\* Bit k of the word, from the field of the R format it lies in.
WordBit(w, k) ==
  IF k >= 25 THEN Bit(w.funct7, k - 25)
  ELSE IF k >= 20 THEN Bit(w.rs2, k - 20)
  ELSE IF k >= 15 THEN Bit(w.rs1, k - 15)
  ELSE IF k >= 12 THEN Bit(w.funct3, k - 12)
  ELSE IF k >= 7 THEN Bit(w.rd, k - 7)
  ELSE Bit(w.opcode, k)

\* Where the formats put the fields: bits lo to hi of the word are the bits of
\* the field from bit on.
At(hi, lo, field, bit) == [hi |-> hi, lo |-> lo, field |-> field, bit |-> bit]
Layout ==
  [R |-> {At(11, 7, "rd", 0), At(14, 12, "funct", 0), At(19, 15, "rs1", 0),
          At(24, 20, "rs2", 0), At(31, 25, "funct", 3)},
   I |-> {At(11, 7, "rd", 0), At(14, 12, "funct", 0), At(19, 15, "rs1", 0),
          At(31, 20, "imm", 0)},
   S |-> {At(11, 7, "imm", 0), At(14, 12, "funct", 0), At(19, 15, "rs1", 0),
          At(24, 20, "rs2", 0), At(31, 25, "imm", 5)},
   B |-> {At(7, 7, "imm", 11), At(11, 8, "imm", 1), At(14, 12, "funct", 0),
          At(19, 15, "rs1", 0), At(24, 20, "rs2", 0), At(30, 25, "imm", 5),
          At(31, 31, "imm", 12)},
   U |-> {At(11, 7, "rd", 0), At(31, 12, "imm", 0)},
   J |-> {At(11, 7, "rd", 0), At(19, 12, "imm", 12), At(20, 20, "imm", 11),
          At(30, 21, "imm", 1), At(31, 31, "imm", 20)},
   R4 |-> {At(11, 7, "rd", 0), At(14, 12, "funct", 0), At(19, 15, "rs1", 0),
           At(24, 20, "rs2", 0), At(31, 27, "rs3", 0)}]

\* Nothing of a word is lost, and nothing is misplaced: an accepted word can be
\* rebuilt bit by bit from the instruction (insn/*_ty.c: the shifts that put
\* the immediates together, the fields that each format copies).
FieldsInPlace ==
  Accepted =>
    \E fmt \in DOMAIN Formats :
      /\ Has(word, fmt)
      /\ \A part \in Layout[fmt] : \A k \in part.lo .. part.hi :
           WordBit(word, k) = Bit(insn.fields[part.field], part.bit + k - part.lo)

\* A signed immediate repeats its sign above the bits the word has for it
\* (platform.h:40-41, SIGNEXT).
Sign == [I |-> 11, S |-> 11, B |-> 12, J |-> 20]
ImmediatesAreSigned ==
  Decoded =>
    \A fmt \in DOMAIN Sign : \A k \in Sign[fmt] .. 30 :
      Has(word, fmt) => Bit(insn.fields.imm, k) = WordBit(word, 31)

\* No word is two instructions, so the order in which rvdec_insn and the
\* switches of rvdec_Rty__2 try their cases decides nothing (r_ty.c:37-102).
OneInstruction == Decoded => Unambiguous(word)

\* Jumps and branches keep the pc aligned to two bytes, as Emulator's
\* EvenStaysEven needs: no bit of a word lands in bit 0 of their offset (b_ty.c:11-17,
\* j_ty.c:12-18).
OffsetsEven ==
  Decoded /\ (Has(word, "B") \/ Has(word, "J")) => insn.fields.imm % 2 = 0

\* "default: __builtin_unreachable ()" (dispatch.c:377-378 and the other
\* switches on insn.funct): what is decoded to an instruction whose switch says
\* so has the funct of a single or of a double.
UnreachableHolds ==
  Accepted /\ insn.insn_ty \in WidthRequired => insn.fields.funct \in Widths
=============================================================================
