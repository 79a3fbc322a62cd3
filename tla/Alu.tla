-------------------------------- MODULE Alu --------------------------------
(***************************************************************************)
(* What dispatch.c computes for the register-register instructions of      *)
(* RV32I and of the M extension, C operators and conversions included.     *)
(* The register-immediate instructions compute the same with the immediate *)
(* as second operand.                                                      *)
(***************************************************************************)
EXTENDS Operations, Bits

CONSTANT XLen    \* bits of a word: 32 in the program

ASSUME XLenAssumption == XLen \in Nat /\ Pow2[XLen] = WordMod

\* The distance of a shift: the low bits of the second operand.
Shamt(b) == b % XLen

ShiftLeft(a, b)       == Wrap(a * Pow2[Shamt(b)])
ShiftRight(a, b)      == a \div Pow2[Shamt(b)]
ArithmeticShift(a, b) == Wrap(Signed(a) \div Pow2[Shamt(b)])

\* C's comparison operators, with the operands converted to i32 or not.
LessUnsigned(a, b) == IF a < b THEN 1 ELSE 0
LessSigned(a, b)   == IF Signed(a) < Signed(b) THEN 1 ELSE 0

\* C's / and % on signed operands truncate towards zero.
Magnitude(n) == IF n < 0 THEN -n ELSE n
Quotient(a, b) ==
  LET q == Magnitude(a) \div Magnitude(b)
  IN  IF (a < 0) = (b < 0) THEN q ELSE -q
EuclideanRemainder(a, b) == a % Magnitude(b)   \* mutant: never negative
Remainder(a, b) == a - (b * Quotient(a, b))

\* C's &, | and ^ combine the bits at each place.
And(a, b) == OfBits([k \in 0 .. XLen - 1 |-> Bit(a, k) * Bit(b, k)], XLen)
Xor(a, b) ==
  OfBits([k \in 0 .. XLen - 1 |-> IF Bit(a, k) = Bit(b, k) THEN 0 ELSE 1], XLen)
Or(a, b) ==
  OfBits([k \in 0 .. XLen - 1 |-> IF Bit(a, k) = 1 THEN 1 ELSE Bit(b, k)], XLen)

\* Mutant of UpperProduct: every operand is sign-extended.
SignedUpperProduct(a, b) == Wrap((Signed(a) * Signed(b)) \div WordMod)

\* The upper word of a 64-bit product of two zero-extended registers: the
\* instructions that keep it all read their operands as u32, so they agree.
UpperProduct(a, b) == (a * b) \div WordMod

Execute(op, a, b) ==
  CASE op = "ADD"  -> Wrap(a + b)
    [] op = "SUB"  -> Wrap(a - b)
    [] op = "SLL"  -> ShiftLeft(a, b)
    [] op = "SRL"  -> ShiftRight(a, b)
    [] op = "SRA"  -> ArithmeticShift(a, b)
    [] op = "SLT"  -> LessSigned(a, b)
    [] op = "SLTU" -> LessUnsigned(a, b)
    [] op = "XOR"  -> Xor(a, b)
    [] op = "OR"   -> Or(a, b)
    [] op = "AND"  -> And(a, b)
    [] op = "MUL"  -> Wrap(a * b)
    [] op \in {"MULH", "MULHSU", "MULHU"} -> UpperProduct(a, b)
    [] op = "DIV"  -> Wrap(Quotient(Signed(a), Signed(b)))
    [] op = "REM"  -> Wrap(Remainder(Signed(a), Signed(b)))
    [] op = "DIVU" -> a \div b
    [] op = "REMU" -> a % b
=============================================================================
