------------------------------- MODULE Words -------------------------------
(***************************************************************************)
(* The machine integers of the emulator (include/types.h, the typedefs of  *)
(* include/platform.h): a byte is u8, reg_t and word_t are u32, ireg_t and *)
(* iword_t are i32.  A word is four bytes whatever a byte holds, so        *)
(* ByteMod = 256 is the program and ByteMod = 2 a sixteen-value word on    *)
(* which every carry, sign bit and wrap-around still happens.              *)
(***************************************************************************)
EXTENDS Integers

CONSTANT ByteMod    \* values of a u8: 256 in the program

ASSUME ByteModAssumption ==
  /\ ByteMod \in Nat
  /\ ByteMod > 0
  /\ ByteMod % 2 = 0

HalfMod == ByteMod * ByteMod
WordMod == HalfMod * HalfMod

Byte == 0 .. ByteMod - 1
Word == 0 .. WordMod - 1

\* The conversion to u32 of every value stored in a register or in the pc.
Wrap(n) == n % WordMod

\* The conversion (i32)w: the same bits read in two's complement.
Signed(w) == IF 2 * w < WordMod THEN w ELSE w - WordMod

\* The value of an intN_t read in a wider register: mod is 2^N.
SignExtend(v, mod) == IF 2 * v < mod THEN v ELSE v - mod

\* Mutant of ClearBit0: a jump to the sum as it is.
KeepBit0(v) == v

\* v & ~1
ClearBit0(v) == v - (v % 2)

\* What one unit of the k-th little-endian byte of a word weighs.
Weight(k) == <<1, ByteMod, HalfMod, HalfMod * ByteMod>>[k + 1]

\* The k-th byte of v in memory order (the host is little-endian, as RV32 is).
ByteOf(v, k) == (v \div Weight(k)) % ByteMod

\* The value of the n bytes b[0], b[1], .. (n is 1, 2 or 4).
FromBytes(b, n) ==
  b[0] + (IF n > 1 THEN ByteMod * b[1] ELSE 0)
       + (IF n > 2 THEN HalfMod * (b[2] + ByteMod * b[3]) ELSE 0)
=============================================================================
