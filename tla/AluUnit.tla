------------------------------ MODULE AluUnit ------------------------------
(***************************************************************************)
(* One operation of Alu on any operands, and what its result must be.  The *)
(* references share nothing with the C expressions: a result is described  *)
(* bit by bit, or by the equation it solves.                               *)
(***************************************************************************)
EXTENDS Alu

VARIABLES op, a, b, out

aluVars == <<op, a, b, out>>

Pending == -1
Trapped == -2

AluInit ==
  /\ op \in RegOps
  /\ a \in Word
  /\ b \in Word
  /\ out = Pending

Compute ==
  /\ out = Pending
  /\ ~DivTraps(op, a, b)
  /\ out' = Execute(op, a, b)
  /\ UNCHANGED <<op, a, b>>

Trap ==
  /\ out = Pending
  /\ DivTraps(op, a, b)
  /\ out' = Trapped
  /\ UNCHANGED <<op, a, b>>

AluNext == Compute \/ Trap

AluSpec == AluInit /\ [][AluNext]_aluVars

-----------------------------------------------------------------------------
Result(o) == out \in Word /\ op = o
Places    == 0 .. XLen - 1

\* The quotient and the remainder solve the equation of division exactly, with
\* a remainder smaller than the divisor and, where operands are signed, of the
\* dividend's sign (dispatch.c:315-331: C truncates towards zero).
DivisionsSolve ==
  /\ Result("REM") =>
       LET n == Signed(a)
           d == Signed(b)
           q == Signed(Execute("DIV", a, b))
           r == Signed(out)
       IN  /\ n = (q * d) + r
           /\ Magnitude(r) < Magnitude(d)
           /\ r # 0 => (r < 0) = (n < 0)
  /\ Result("REMU") =>
       /\ a = (Execute("DIVU", a, b) * b) + out
       /\ out < b

\* A shift moves bits: a result bit is the operand's bit one distance away, and
\* what comes in is zero or, for SRA, the sign (dispatch.c:85-110: the distance
\* is masked, and >> on an i32 is arithmetic).
ShiftsMoveBits ==
  out \in Word =>
    LET n == b % XLen
    IN  \A k \in Places :
          /\ op = "SLL" =>
               Bit(out, k) = IF k >= n THEN Bit(a, k - n) ELSE 0
          /\ op = "SRL" =>
               Bit(out, k) = IF k + n < XLen THEN Bit(a, k + n) ELSE 0
          /\ op = "SRA" =>
               Bit(out, k) = Bit(a, IF k + n < XLen THEN k + n ELSE XLen - 1)

\* Two's complement order is unsigned order with the sign bits flipped, and the
\* comparisons are the borrow of a subtraction (dispatch.c:89-96).
ComparisonsAgree ==
  /\ Result("SLTU") => (out = 1) = (a + WordMod - b < WordMod)
  /\ Result("SLT")  =>
       LET Flip(w) == Wrap(w + (WordMod \div 2))
       IN  out = Execute("SLTU", Flip(a), Flip(b))

\* MUL and MULHU are the two words of the product (dispatch.c:290-314).
ProductSplits ==
  Result("MULHU") => (out * WordMod) + Execute("MUL", a, b) = a * b

\* Or and exclusive or, with the bits that both operands have counted once more
\* or twice more, add up to the sum: no bit is lost, made up or moved
\* (dispatch.c:98-118: the same three lines but for the C operator).
BitsAddUp ==
  /\ Result("OR")  => out + Execute("AND", a, b) = a + b
  /\ Result("XOR") => out + (2 * Execute("AND", a, b)) = a + b

\* MULH is the upper word of the product of the operands read as signed, as
\* the multiplication extension the emulator advertises has it.
MulhIsSigned ==
  Result("MULH") =>
    (Signed(out) * WordMod) + Execute("MUL", a, b) = Signed(a) * Signed(b)
=============================================================================
