----------------------------- MODULE InsnProofs -----------------------------
(***************************************************************************)
(* What one instruction means, for every word that can be fetched and for  *)
(* all operands: the arithmetic of Alu for every word size, and the        *)
(* decoder for every word of 32 bits.  With them, what Emulator assumes of *)
(* its arithmetic and of its decoder holds of those of the program.        *)
(***************************************************************************)
EXTENDS AluUnit, Decoding, WordTheorems

-----------------------------------------------------------------------------
(***************************************************************************)
(* The arithmetic.  Shifts and logic are known by the bits of what they    *)
(* return (Bits, WordTheorems), the rest by the equations it solves.       *)
(***************************************************************************)

\* A word has at least one bit.
LEMMA XLenType == XLen \in Nat \ {0} /\ Pow2[XLen] = WordMod
<1>1. XLen \in Nat /\ Pow2[XLen] = WordMod
  BY XLenAssumption
<1>2. XLen # 0
  BY <1>1, ModuliType, Pow2Rules
<1> QED
  BY <1>1, <1>2

\* The sign bit weighs half the modulus.
LEMMA SignBit ==
  /\ XLen - 1 \in Nat /\ Pow2[XLen - 1] \in Nat \ {0}
  /\ WordMod = 2 * Pow2[XLen - 1]
<1>1. XLen - 1 \in Nat /\ (XLen - 1) + 1 = XLen
  BY XLenType
<1>2. Pow2[(XLen - 1) + 1] = 2 * Pow2[XLen - 1] /\ Pow2[XLen - 1] \in Nat \ {0}
  BY <1>1, Pow2Rules
<1> QED
  BY <1>1, <1>2, XLenType

\* Two's complement: an i32 is the u32 it is read from, or one modulus less.
LEMMA SignedRange ==
  ASSUME NEW x \in Word
  PROVE  /\ Signed(x) \in Int
         /\ 0 - WordMod <= 2 * Signed(x) /\ 2 * Signed(x) < WordMod
         /\ Signed(x) = x \/ Signed(x) = x - WordMod
BY ModuliType DEF Signed, Word

\* An i32 stored in a register is read back as it was.
LEMMA SignedOfWrap ==
  ASSUME NEW n \in Int, 0 - WordMod <= 2 * n, 2 * n < WordMod
  PROVE  Signed(Wrap(n)) = n
<1>1. CASE n >= 0
  <2>1. n \in Word
    BY <1>1, ModuliType DEF Word
  <2> QED
    BY <2>1, WrapSmall, ModuliType DEF Signed
<1>2. CASE n < 0
  <2>1. Wrap(n) = n + WordMod
    BY <1>2, WrapBorrow, ModuliType
  <2> QED
    BY <1>2, <2>1, ModuliType DEF Signed
<1> QED
  BY <1>1, <1>2

\* A conversion to u32 keeps the bits that a word has.
LEMMA BitsOfWrap ==
  ASSUME NEW v \in Int, NEW k \in Places
  PROVE  Bit(Wrap(v), k) = Bit(v, k)
<1> DEFINE q == v \div WordMod
<1>1. q \in Int /\ Wrap(v) \in Int /\ v = Wrap(v) + Pow2[XLen] * q
  <2>1. WordMod \in Nat \ {0}
    BY ModuliType
  <2>2. /\ q \in Int /\ v % WordMod \in 0 .. WordMod - 1
        /\ v = (v % WordMod) + WordMod * q
    BY <2>1, Divided
  <2> HIDE DEF q
  <2> QED
    BY <2>2, XLenType DEF Wrap
<1>2. k \in Nat /\ XLen \in Nat /\ k < XLen
  BY XLenType DEF Places
<1> HIDE DEF q
<1> QED
  BY <1>1, <1>2, BitOfSum

\* A bit is zero or one.
LEMMA BitType == ASSUME NEW v \in Int, NEW k \in Nat PROVE Bit(v, k) \in {0, 1}
<1>1. v \div Pow2[k] \in Int
  BY Pow2Rules, Divided
<1> QED
  BY <1>1 DEF Bit

\* The bits of C's &, | and ^.
LEMMA LogicBits ==
  ASSUME NEW x \in Word, NEW y \in Word
  PROVE  /\ And(x, y) \in Word /\ Or(x, y) \in Word /\ Xor(x, y) \in Word
         /\ \A k \in Places :
              /\ Bit(And(x, y), k) = Bit(x, k) * Bit(y, k)
              /\ Bit(Or(x, y), k) = IF Bit(x, k) = 1 THEN 1 ELSE Bit(y, k)
              /\ Bit(Xor(x, y), k) = IF Bit(x, k) = Bit(y, k) THEN 0 ELSE 1
<1>1. \A k \in 0 .. XLen - 1 : Bit(x, k) \in {0, 1} /\ Bit(y, k) \in {0, 1}
  BY BitType DEF Word
<1>2. Word = 0 .. Pow2[XLen] - 1 /\ XLen \in Nat
  BY XLenType DEF Word
<1>3. And(x, y) \in Word
      /\ \A k \in Places : Bit(And(x, y), k) = Bit(x, k) * Bit(y, k)
  <2> DEFINE bits == [k \in 0 .. XLen - 1 |-> Bit(x, k) * Bit(y, k)]
  <2>1. \A k \in 0 .. XLen - 1 : bits[k] \in {0, 1}
    BY <1>1
  <2> HIDE DEF bits
  <2>2. /\ OfBits(bits, XLen) \in Word
        /\ \A k \in 0 .. XLen - 1 : Bit(OfBits(bits, XLen), k) = bits[k]
    BY <1>2, <2>1, OfBitsDefined
  <2> QED
    BY <2>2 DEF And, bits, Places
<1>4. Or(x, y) \in Word
      /\ \A k \in Places : Bit(Or(x, y), k) = IF Bit(x, k) = 1 THEN 1 ELSE Bit(y, k)
  <2> DEFINE bits ==
        [k \in 0 .. XLen - 1 |-> IF Bit(x, k) = 1 THEN 1 ELSE Bit(y, k)]
  <2>1. \A k \in 0 .. XLen - 1 : bits[k] \in {0, 1}
    BY <1>1
  <2> HIDE DEF bits
  <2>2. /\ OfBits(bits, XLen) \in Word
        /\ \A k \in 0 .. XLen - 1 : Bit(OfBits(bits, XLen), k) = bits[k]
    BY <1>2, <2>1, OfBitsDefined
  <2> QED
    BY <2>2 DEF Or, bits, Places
<1>5. Xor(x, y) \in Word
      /\ \A k \in Places : Bit(Xor(x, y), k) = IF Bit(x, k) = Bit(y, k) THEN 0 ELSE 1
  <2> DEFINE bits ==
        [k \in 0 .. XLen - 1 |-> IF Bit(x, k) = Bit(y, k) THEN 0 ELSE 1]
  <2>1. \A k \in 0 .. XLen - 1 : bits[k] \in {0, 1}
    OBVIOUS
  <2> HIDE DEF bits
  <2>2. /\ OfBits(bits, XLen) \in Word
        /\ \A k \in 0 .. XLen - 1 : Bit(OfBits(bits, XLen), k) = bits[k]
    BY <1>2, <2>1, OfBitsDefined
  <2> QED
    BY <2>2 DEF Xor, bits, Places
<1> QED
  BY <1>3, <1>4, <1>5

\* Two equations of this form add up to a third.
LEMMA SumsAddUp ==
  ASSUME NEW m \in {1, 2}, NEW c \in Int, NEW d \in Int, NEW x \in Int, NEW y \in Int,
         NEW c1 \in Int, NEW d1 \in Int, NEW x1 \in Int, NEW y1 \in Int,
         c + m * d = x + y, c1 + m * d1 = x1 + y1
  PROVE  (c + c1) + m * (d + d1) = (x + x1) + (y + y1)
<1>1. CASE m = 1
  BY <1>1
<1>2. CASE m = 2
  BY <1>2
<1> QED
  BY <1>1, <1>2

\* A number below a power of two is known by the bits below it.
LEMMA BitsAddUpBelow ==
  ASSUME NEW x \in Int, NEW y \in Int, NEW c \in Int, NEW d \in Int,
         NEW m \in {1, 2}, NEW n \in Nat,
         \A k \in 0 .. n - 1 : Bit(c, k) + m * Bit(d, k) = Bit(x, k) + Bit(y, k)
  PROVE  (c % Pow2[n]) + m * (d % Pow2[n]) = (x % Pow2[n]) + (y % Pow2[n])
<1> DEFINE Low(v, i) == v % Pow2[i]
           S == {i \in Nat : i <= n =>
                   Low(c, i) + m * Low(d, i) = Low(x, i) + Low(y, i)}
<1>1. 0 \in S
  BY Pow2Rules
<1>2. ASSUME NEW i \in Nat, i \in S PROVE i + 1 \in S
  <2> SUFFICES ASSUME i + 1 <= n
               PROVE  Low(c, i + 1) + m * Low(d, i + 1) =
                        Low(x, i + 1) + Low(y, i + 1)
    OBVIOUS
  <2> DEFINE p == Pow2[i]
  <2>1. p \in Nat \ {0}
    BY Pow2Rules
  <2>2. ASSUME NEW v \in Int
        PROVE  /\ Low(v, i + 1) = Low(v, i) + p * Bit(v, i)
               /\ Low(v, i) \in Int /\ Bit(v, i) \in {0, 1}
    <3>1. Low(v, i + 1) = Low(v, i) + p * Bit(v, i)
      BY BitsBelow
    <3>2. Low(v, i) \in Int
      <4>1. v % p \in 0 .. p - 1
        <5> HIDE DEF p
        <5> QED
          BY <2>1, Divided
      <4> QED
        BY <2>1, <4>1
    <3>3. Bit(v, i) \in {0, 1}
      BY BitType
    <3> QED
      BY <3>1, <3>2, <3>3
  <2>3. Low(c, i) + m * Low(d, i) = Low(x, i) + Low(y, i)
    BY <1>2
  <2>4. Bit(c, i) + m * Bit(d, i) = Bit(x, i) + Bit(y, i)
    BY <1>2
  <2> HIDE DEF p, Low, S
  <2>5. p * Bit(c, i) + m * (p * Bit(d, i)) = p * Bit(x, i) + p * Bit(y, i)
    <3>1. p * (Bit(c, i) + m * Bit(d, i)) = p * (Bit(x, i) + Bit(y, i))
      BY <2>4
    <3>2. Bit(x, i) \in Int /\ Bit(y, i) \in Int /\ Bit(c, i) \in Int /\ Bit(d, i) \in Int
      BY <2>2
    <3> QED
      BY <2>1, <3>1, <3>2
  <2>6. \A v \in Int : p * Bit(v, i) \in Int
    <3> SUFFICES ASSUME NEW v \in Int PROVE p * Bit(v, i) \in Int
      OBVIOUS
    <3>1. Bit(v, i) \in Int
      BY <2>2
    <3> QED
      BY <2>1, <3>1
  <2>7. (Low(c, i) + p * Bit(c, i)) + m * (Low(d, i) + p * Bit(d, i)) =
          (Low(x, i) + p * Bit(x, i)) + (Low(y, i) + p * Bit(y, i))
    <3>1. /\ Low(c, i) \in Int /\ Low(d, i) \in Int
          /\ Low(x, i) \in Int /\ Low(y, i) \in Int
      BY <2>2
    <3>2. /\ p * Bit(c, i) \in Int /\ p * Bit(d, i) \in Int
          /\ p * Bit(x, i) \in Int /\ p * Bit(y, i) \in Int
      BY <2>6
    <3> QED
      BY <2>3, <2>5, <3>1, <3>2, SumsAddUp
  <2>8. /\ Low(c, i + 1) = Low(c, i) + p * Bit(c, i)
        /\ Low(d, i + 1) = Low(d, i) + p * Bit(d, i)
        /\ Low(x, i + 1) = Low(x, i) + p * Bit(x, i)
        /\ Low(y, i + 1) = Low(y, i) + p * Bit(y, i)
    BY <2>2
  <2> QED
    BY <2>7, <2>8, Zenon
<1>3. \A i \in Nat : i \in S
  <2> HIDE DEF S
  <2> QED
    BY <1>1, <1>2, SetInduction
<1> QED
  BY <1>3

\* Or and xor are sums less the bits both operands have.
LEMMA LogicSums ==
  ASSUME NEW x \in Word, NEW y \in Word
  PROVE  /\ Or(x, y) + And(x, y) = x + y
         /\ Xor(x, y) + 2 * And(x, y) = x + y
<1>1. \A k \in 0 .. XLen - 1 : Bit(x, k) \in {0, 1} /\ Bit(y, k) \in {0, 1}
  BY BitType DEF Word
<1>2. \A k \in 0 .. XLen - 1 :
        /\ Bit(Or(x, y), k) + 1 * Bit(And(x, y), k) = Bit(x, k) + Bit(y, k)
        /\ Bit(Xor(x, y), k) + 2 * Bit(And(x, y), k) = Bit(x, k) + Bit(y, k)
  <2> SUFFICES ASSUME NEW k \in 0 .. XLen - 1
               PROVE  /\ Bit(Or(x, y), k) + 1 * Bit(And(x, y), k) = Bit(x, k) + Bit(y, k)
                      /\ Bit(Xor(x, y), k) + 2 * Bit(And(x, y), k) = Bit(x, k) + Bit(y, k)
    OBVIOUS
  <2>1. Bit(x, k) \in {0, 1} /\ Bit(y, k) \in {0, 1}
    BY <1>1
  <2>2. /\ Bit(And(x, y), k) = Bit(x, k) * Bit(y, k)
        /\ Bit(Or(x, y), k) = IF Bit(x, k) = 1 THEN 1 ELSE Bit(y, k)
        /\ Bit(Xor(x, y), k) = IF Bit(x, k) = Bit(y, k) THEN 0 ELSE 1
    BY LogicBits DEF Places
  <2> QED
    BY <2>1, <2>2
<1>3. \A v \in Word : v \in Int /\ v % Pow2[XLen] = v
  BY XLenType, WrapSmall, ModuliType DEF Word, Wrap
<1>4. And(x, y) \in Word /\ Or(x, y) \in Word /\ Xor(x, y) \in Word
  BY LogicBits
<1>5. XLen \in Nat
  BY XLenType
<1> DEFINE o == Or(x, y)
           e == Xor(x, y)
           n == And(x, y)
<1>6. /\ x \in Int /\ y \in Int /\ o \in Int /\ e \in Int /\ n \in Int
      /\ \A k \in 0 .. XLen - 1 :
           /\ Bit(o, k) + 1 * Bit(n, k) = Bit(x, k) + Bit(y, k)
           /\ Bit(e, k) + 2 * Bit(n, k) = Bit(x, k) + Bit(y, k)
  BY <1>2, <1>3, <1>4
<1>7. /\ x % Pow2[XLen] = x /\ y % Pow2[XLen] = y
      /\ o % Pow2[XLen] = o /\ e % Pow2[XLen] = e /\ n % Pow2[XLen] = n
  BY <1>3, <1>4
<1> HIDE DEF o, e, n
<1>8. (o % Pow2[XLen]) + 1 * (n % Pow2[XLen]) = (x % Pow2[XLen]) + (y % Pow2[XLen])
  BY <1>5, <1>6, BitsAddUpBelow
<1>9. (e % Pow2[XLen]) + 2 * (n % Pow2[XLen]) = (x % Pow2[XLen]) + (y % Pow2[XLen])
  BY <1>5, <1>6, BitsAddUpBelow
<1> QED
  BY <1>6, <1>7, <1>8, <1>9 DEF o, e, n

-----------------------------------------------------------------------------
(***************************************************************************)
(* Shifts.                                                                 *)
(***************************************************************************)

\* The masked distance of a shift is a place of a word.
LEMMA ShamtType ==
  ASSUME NEW y \in Word
  PROVE  Shamt(y) \in Places /\ Shamt(y) \in Nat
<1>1. y \in Int
  BY DEF Word
<1> QED
  BY <1>1, XLenType, Divided DEF Shamt, Places

\* The bits of <<, of a u32.
LEMMA ShiftLeftBits ==
  ASSUME NEW x \in Word, NEW y \in Word, NEW k \in Places
  PROVE  /\ ShiftLeft(x, y) \in Word
         /\ Bit(ShiftLeft(x, y), k) =
              IF k >= Shamt(y) THEN Bit(x, k - Shamt(y)) ELSE 0
<1> DEFINE n == Shamt(y)
<1>1. n \in Nat /\ k \in Nat /\ x \in Int
  BY ShamtType DEF Word, Places
<1> HIDE DEF n
<1>2. x * Pow2[n] \in Int
  BY <1>1, Pow2Rules
<1>3. ShiftLeft(x, y) = Wrap(x * Pow2[n])
  BY DEF ShiftLeft, n
<1>4. Bit(Wrap(x * Pow2[n]), k) = Bit(x * Pow2[n], k)
  BY <1>2, BitsOfWrap
<1>5. Bit(x * Pow2[n], k) = IF k >= n THEN Bit(x, k - n) ELSE 0
  BY <1>1, BitOfMultiple
<1>6. Wrap(x * Pow2[n]) \in Word
  BY <1>2, WrapType
<1> QED
  BY <1>3, <1>4, <1>5, <1>6 DEF n

\* The bits of >>, of a u32.
LEMMA ShiftRightBits ==
  ASSUME NEW x \in Word, NEW y \in Word, NEW k \in Places
  PROVE  /\ ShiftRight(x, y) \in Word
         /\ Bit(ShiftRight(x, y), k) =
              IF k + Shamt(y) < XLen THEN Bit(x, k + Shamt(y)) ELSE 0
<1> DEFINE n == Shamt(y)
           p == Pow2[n]
           q == x \div p
<1>1. n \in Nat /\ k \in Nat /\ n + k \in Nat /\ x \in Int /\ x >= 0 /\ x < WordMod
  BY ShamtType, ModuliType DEF Word, Places
<1> HIDE DEF n
<1>2. p \in Nat \ {0}
  BY <1>1, Pow2Rules
<1>3. ShiftRight(x, y) = q
  BY DEF ShiftRight, n
<1>4. q \in Word
  <2>1. q \in Int /\ x % p \in 0 .. p - 1 /\ x = (x % p) + p * q
    <3> HIDE DEF p
    <3> QED
      BY <1>1, <1>2, Divided
  <2> HIDE DEF p, q
  <2>2. q >= 0
    <3> SUFFICES ASSUME q <= 0 - 1 PROVE FALSE
      BY <2>1
    <3>1. p * q <= p * (0 - 1)
      BY <1>2, <2>1, TimesMonotone
    <3> QED
      BY <1>1, <1>2, <2>1, <3>1
  <2>3. q <= x
    <3>1. 1 <= p /\ q \in Nat
      BY <1>2, <2>1, <2>2
    <3>2. q * 1 <= q * p
      BY <1>2, <3>1, TimesMonotone
    <3>3. q * p = p * q
      BY <1>2, <2>1
    <3>4. p * q \in Int
      BY <1>2, <2>1
    <3> QED
      BY <1>1, <1>2, <2>1, <3>2, <3>3, <3>4
  <2> QED
    BY <1>1, <2>1, <2>2, <2>3, ModuliType DEF Word
<1>5. Bit(q, k) = Bit(x, n + k)
  BY <1>1, BitOfQuotient
<1>6. n + k >= XLen => Bit(x, n + k) = 0
  <2> SUFFICES ASSUME n + k >= XLen PROVE Bit(x, n + k) = 0
    OBVIOUS
  <2>1. XLen \in Nat /\ 0 - Pow2[XLen] <= x /\ x < Pow2[XLen]
    BY <1>1, XLenType, ModuliType
  <2>2. Bit(x, n + k) = IF x < 0 THEN 1 ELSE 0
    BY <1>1, <2>1, BitAbove
  <2> QED
    BY <1>1, <2>2
<1>7. k + n = n + k /\ (n + k < XLen \/ n + k >= XLen)
  BY <1>1, XLenType
<1> HIDE DEF p, q
<1> QED
  BY <1>3, <1>4, <1>5, <1>6, <1>7, XLenType, <1>1 DEF n

\* The bits of >>, of an i32.
LEMMA ArithmeticShiftBits ==
  ASSUME NEW x \in Word, NEW y \in Word, NEW k \in Places
  PROVE  /\ ArithmeticShift(x, y) \in Word
         /\ Bit(ArithmeticShift(x, y), k) =
              Bit(x, IF k + Shamt(y) < XLen THEN k + Shamt(y) ELSE XLen - 1)
<1> DEFINE n == Shamt(y)
           s == Signed(x)
           i == n + k
<1>1. n \in Nat /\ k \in Nat /\ x \in Int
  BY ShamtType, ModuliType DEF Word, Places
<1> HIDE DEF n
<1>2. /\ s \in Int /\ 0 - WordMod <= 2 * s /\ 2 * s < WordMod
      /\ s = x \/ s = x - WordMod
  BY SignedRange
<1> HIDE DEF s
<1>3. s \div Pow2[n] \in Int
  BY <1>1, <1>2, Pow2Rules, Divided
<1>4. ArithmeticShift(x, y) = Wrap(s \div Pow2[n])
  BY DEF ArithmeticShift, n, s
<1>5. ArithmeticShift(x, y) \in Word
  BY <1>3, <1>4, WrapType
<1>6. Bit(ArithmeticShift(x, y), k) = Bit(s, i)
  <2>1. Bit(Wrap(s \div Pow2[n]), k) = Bit(s \div Pow2[n], k)
    BY <1>3, BitsOfWrap
  <2>2. Bit(s \div Pow2[n], k) = Bit(s, n + k)
    BY <1>1, <1>2, BitOfQuotient
  <2> QED
    BY <1>4, <2>1, <2>2
<1>7. ASSUME NEW j \in Places PROVE Bit(s, j) = Bit(x, j)
  <2>1. j \in Nat /\ XLen \in Nat /\ j < XLen
    BY XLenType DEF Places
  <2>2. CASE s = x
    BY <2>2
  <2>3. CASE s = x - WordMod
    <3>1. s = x + Pow2[XLen] * (0 - 1)
      BY <1>1, <2>3, XLenType, ModuliType
    <3> QED
      BY <1>1, <2>1, <3>1, BitOfSum
  <2> QED
    BY <1>2, <2>2, <2>3
<1>8. CASE i < XLen
  <2>1. i \in Places
    BY <1>1, <1>8, XLenType DEF Places
  <2> QED
    BY <1>1, <1>5, <1>6, <1>7, <1>8, <2>1 DEF n
<1>9. CASE i >= XLen
  <2>1. 0 - Pow2[XLen - 1] <= s /\ s < Pow2[XLen - 1]
    BY <1>2, SignBit
  <2>2. i \in Nat /\ XLen - 1 \in Nat /\ i >= XLen - 1 /\ XLen - 1 >= XLen - 1
    BY <1>1, <1>9, SignBit, XLenType
  <2>3. /\ Bit(s, i) = IF s < 0 THEN 1 ELSE 0
        /\ Bit(s, XLen - 1) = IF s < 0 THEN 1 ELSE 0
    <3> HIDE DEF i
    <3> QED
      BY <1>2, <2>1, <2>2, BitAbove
  <2>4. XLen - 1 \in Places
    BY <2>2 DEF Places
  <2>5. Bit(s, XLen - 1) = Bit(x, XLen - 1)
    BY <1>7, <2>4
  <2>6. ~(k + n < XLen)
    BY <1>1, <1>9, XLenType
  <2> QED
    BY <1>5, <1>6, <2>3, <2>5, <2>6 DEF n
<1> QED
  BY <1>1, <1>8, <1>9, XLenType

-----------------------------------------------------------------------------
(***************************************************************************)
(* Division.                                                               *)
(***************************************************************************)

\* C's division, of any two integers: it solves its equation, and only a
\* divisor of magnitude one leaves the magnitude as it is.
LEMMA DivisionSolves ==
  ASSUME NEW n \in Int, NEW d \in Int, d # 0
  PROVE  /\ Quotient(n, d) \in Int /\ Remainder(n, d) \in Int
         /\ n = (Quotient(n, d) * d) + Remainder(n, d)
         /\ Magnitude(Remainder(n, d)) < Magnitude(d)
         /\ Remainder(n, d) # 0 => (Remainder(n, d) < 0) = (n < 0)
         /\ Magnitude(Quotient(n, d)) <= Magnitude(n)
         /\ Quotient(n, d) > 0 => (n < 0) = (d < 0)
         /\ Magnitude(Quotient(n, d)) = Magnitude(n) /\ n # 0 => d = 1 \/ d = 0 - 1
<1> DEFINE m == Magnitude(n)
           e == Magnitude(d)
           q == m \div e
           r == m % e
           p == e * q
           Q == Quotient(n, d)
           R == Remainder(n, d)
<1>1. /\ m \in Nat /\ e \in Nat \ {0}
      /\ m = (IF n < 0 THEN 0 - n ELSE n) /\ e = (IF d < 0 THEN 0 - d ELSE d)
  BY DEF Magnitude
<1>2. Q = (IF (n < 0) = (d < 0) THEN q ELSE 0 - q) /\ R = n - (d * Q)
  <2>1. Q = (IF (n < 0) = (d < 0) THEN q ELSE -q)
    BY Zenon DEF Quotient
  <2>2. R = n - (d * Q)
    BY Zenon DEF Remainder
  <2>3. q \in Int
    BY <1>1, Divided
  <2> QED
    BY <2>1, <2>2, <2>3
<1> HIDE DEF m, e, Q, R
<1>3. q \in Int /\ r \in 0 .. e - 1 /\ m = r + e * q
  <2>1. m \in Int /\ e \in Nat \ {0}
    BY <1>1
  <2> HIDE DEF p
  <2> QED
    BY <2>1, Divided
<1> HIDE DEF q, r
<1>4. q >= 0
  <2> SUFFICES ASSUME q <= 0 - 1 PROVE FALSE
    BY <1>3
  <2>1. e * q <= e * (0 - 1)
    BY <1>1, <1>3, TimesMonotone
  <2> QED
    BY <1>1, <1>3, <2>1
<1>5. p \in Nat /\ q <= p /\ (q = p => q = 0 \/ e = 1)
  <2>1. p \in Int
    BY <1>1, <1>3
  <2>2. q * 1 <= q * e /\ q * e = p
    BY <1>1, <1>3, <1>4, TimesMonotone
  <2>3. ASSUME q # 0, e # 1 PROVE q < p
    <3>1. q * 2 <= q * e
      BY <1>1, <1>3, <1>4, <2>3, TimesMonotone
    <3> QED
      BY <1>3, <1>4, <2>1, <2>2, <2>3, <3>1
  <2> QED
    BY <1>3, <1>4, <2>1, <2>2, <2>3
<1>6. d * Q = IF n < 0 THEN 0 - p ELSE p
  <2>1. CASE d < 0 /\ n < 0
    <3>1. Q = q /\ d = 0 - e
      BY <1>1, <1>2, <2>1
    <3> QED
      BY <1>1, <1>3, <2>1, <3>1
  <2>2. CASE d < 0 /\ ~(n < 0)
    <3>1. Q = 0 - q /\ d = 0 - e
      BY <1>1, <1>2, <2>2
    <3> QED
      BY <1>1, <1>3, <2>2, <3>1
  <2>3. CASE ~(d < 0) /\ n < 0
    <3>1. Q = 0 - q /\ d = e
      BY <1>1, <1>2, <2>3
    <3> QED
      BY <1>1, <1>3, <2>3, <3>1
  <2>4. CASE ~(d < 0) /\ ~(n < 0)
    <3>1. Q = q /\ d = e
      BY <1>1, <1>2, <2>4
    <3> QED
      BY <1>1, <1>3, <2>4, <3>1
  <2> QED
    BY <2>1, <2>2, <2>3, <2>4
<1>7. Q \in Int /\ d * Q = Q * d
  BY <1>2, <1>3
<1>8. m = r + p
  BY <1>3
<1> HIDE DEF p
<1>9. R = IF n < 0 THEN 0 - r ELSE r
  BY <1>1, <1>2, <1>3, <1>5, <1>6, <1>8
<1>10. R \in Int /\ n = (Q * d) + R
  BY <1>2, <1>3, <1>5, <1>6, <1>7, <1>9
<1>11. Magnitude(R) < e /\ (R # 0 => (R < 0) = (n < 0))
  BY <1>1, <1>3, <1>9 DEF Magnitude
<1>12. Magnitude(Q) = q /\ (Q > 0 => (n < 0) = (d < 0))
  BY <1>2, <1>3, <1>4 DEF Magnitude
<1>13. q <= m /\ (q = m /\ n # 0 => e = 1)
  BY <1>1, <1>3, <1>4, <1>5, <1>8
<1> QED
  BY <1>1, <1>7, <1>10, <1>11, <1>12, <1>13 DEF m, e, Q, R

\* Where the host does not trap, a quotient and a remainder are i32s.
LEMMA DivisionFits ==
  ASSUME NEW x \in Word, NEW y \in Word, ~DivTraps("DIV", x, y)
  PROVE  /\ Signed(x) \in Int /\ Signed(y) \in Int /\ Signed(y) # 0
         /\ Quotient(Signed(x), Signed(y)) \in Int
         /\ Remainder(Signed(x), Signed(y)) \in Int
         /\ Signed(Wrap(Quotient(Signed(x), Signed(y)))) =
              Quotient(Signed(x), Signed(y))
         /\ Signed(Wrap(Remainder(Signed(x), Signed(y)))) =
              Remainder(Signed(x), Signed(y))
<1> DEFINE n == Signed(x)
           d == Signed(y)
           q == Quotient(n, d)
           r == Remainder(n, d)
<1>1. y # 0 /\ ~(2 * x = WordMod /\ y = WordMod - 1)
  BY DEF DivTraps, Divisions
<1>2. /\ x \in Int /\ 0 <= x /\ x < WordMod /\ y \in Int /\ 0 <= y /\ y < WordMod
      /\ WordMod \in Nat
  BY ModuliType DEF Word
<1>3. /\ n \in Int /\ 0 - WordMod <= 2 * n /\ 2 * n < WordMod
      /\ n = x \/ n = x - WordMod
      /\ d \in Int /\ 0 - WordMod <= 2 * d /\ 2 * d < WordMod
      /\ d = y \/ d = y - WordMod
  BY SignedRange
<1> HIDE DEF n, d
<1>4. d # 0
  BY <1>1, <1>2, <1>3
<1>5. ~(2 * n = 0 - WordMod /\ d = 0 - 1)
  BY <1>1, <1>2, <1>3
<1>6. /\ q \in Int /\ r \in Int
      /\ Magnitude(r) < Magnitude(d) /\ Magnitude(q) <= Magnitude(n)
      /\ q > 0 => (n < 0) = (d < 0)
      /\ Magnitude(q) = Magnitude(n) /\ n # 0 => d = 1 \/ d = 0 - 1
  BY <1>3, <1>4, DivisionSolves
<1> HIDE DEF q, r
<1>7. 0 - WordMod <= 2 * r /\ 2 * r < WordMod
  BY <1>2, <1>3, <1>6 DEF Magnitude
<1>8. 0 - WordMod <= 2 * q /\ 2 * q < WordMod
  <2>1. CASE q < 0
    BY <1>2, <1>3, <1>6, <2>1 DEF Magnitude
  <2>2. CASE q >= 0 /\ Magnitude(q) < Magnitude(n)
    BY <1>2, <1>3, <1>6, <2>2 DEF Magnitude
  <2>3. CASE q >= 0 /\ Magnitude(q) = Magnitude(n) /\ n = 0
    BY <1>2, <1>3, <1>6, <2>3, ModuliType DEF Magnitude
  <2>4. CASE q >= 0 /\ Magnitude(q) = Magnitude(n) /\ n > 0
    BY <1>2, <1>3, <1>6, <2>4 DEF Magnitude
  <2>5. CASE q >= 0 /\ Magnitude(q) = Magnitude(n) /\ n < 0
    <3>1. d = 1 \/ d = 0 - 1
      BY <1>3, <1>6, <2>5
    <3>2. CASE d = 0 - 1
      BY <1>2, <1>3, <1>5, <1>6, <2>5, <3>2 DEF Magnitude
    <3>3. CASE d = 1
      BY <1>2, <1>3, <1>6, <2>5, <3>3 DEF Magnitude
    <3> QED
      BY <3>1, <3>2, <3>3
  <2> QED
    <3>1. Magnitude(q) \in Int /\ Magnitude(n) \in Int
      BY <1>3, <1>6 DEF Magnitude
    <3> QED
      BY <1>3, <1>6, <2>1, <2>2, <2>3, <2>4, <2>5, <3>1
<1> QED
  BY <1>3, <1>4, <1>6, <1>7, <1>8, SignedOfWrap DEF n, d, q, r

-----------------------------------------------------------------------------
(***************************************************************************)
(* The instructions.                                                       *)
(***************************************************************************)

\* What each instruction computes.
LEMMA Computed ==
  ASSUME NEW x, NEW y
  PROVE  /\ Execute("ADD", x, y) = Wrap(x + y)
         /\ Execute("SUB", x, y) = Wrap(x - y)
         /\ Execute("SLL", x, y) = ShiftLeft(x, y)
         /\ Execute("SRL", x, y) = ShiftRight(x, y)
         /\ Execute("SRA", x, y) = ArithmeticShift(x, y)
         /\ Execute("SLT", x, y) = LessSigned(x, y)
         /\ Execute("SLTU", x, y) = LessUnsigned(x, y)
         /\ Execute("XOR", x, y) = Xor(x, y)
         /\ Execute("OR", x, y) = Or(x, y)
         /\ Execute("AND", x, y) = And(x, y)
         /\ Execute("MUL", x, y) = Wrap(x * y)
         /\ Execute("MULH", x, y) = UpperProduct(x, y)
         /\ Execute("MULHSU", x, y) = UpperProduct(x, y)
         /\ Execute("MULHU", x, y) = UpperProduct(x, y)
         /\ Execute("DIV", x, y) = Wrap(Quotient(Signed(x), Signed(y)))
         /\ Execute("REM", x, y) = Wrap(Remainder(Signed(x), Signed(y)))
         /\ Execute("DIVU", x, y) = x \div y
         /\ Execute("REMU", x, y) = x % y
BY SMT DEF Execute

\* The two words of a product.
LEMMA ProductWords ==
  ASSUME NEW x \in Word, NEW y \in Word
  PROVE  /\ UpperProduct(x, y) \in Word
         /\ (UpperProduct(x, y) * WordMod) + Wrap(x * y) = x * y
<1> DEFINE p == x * y
           q == p \div WordMod
<1>1. /\ x \in Nat /\ y \in Nat /\ x <= WordMod - 1 /\ y <= WordMod - 1
      /\ WordMod \in Nat \ {0}
  BY ModuliType DEF Word
<1>2. p \in Nat /\ p < WordMod * WordMod
  <2>1. p \in Nat
    BY <1>1
  <2>2. x * y <= x * (WordMod - 1) /\ x * (WordMod - 1) \in Int
    BY <1>1, TimesMonotone
  <2>3. (WordMod - 1) * x <= (WordMod - 1) * (WordMod - 1)
    BY <1>1, TimesMonotone
  <2>4. x * (WordMod - 1) = (WordMod - 1) * x
    BY <1>1
  <2>5. (WordMod - 1) * (WordMod - 1) < WordMod * WordMod
    <3>1. (WordMod - 1) * (WordMod - 1) = (WordMod * WordMod) - (2 * WordMod) + 1
      BY <1>1
    <3>2. WordMod * WordMod \in Int
      BY <1>1
    <3> QED
      BY <1>1, <3>1, <3>2
  <2>6. (WordMod - 1) * (WordMod - 1) \in Int /\ WordMod * WordMod \in Int
    BY <1>1
  <2> QED
    BY <2>1, <2>2, <2>3, <2>4, <2>5, <2>6
<1> HIDE DEF p
<1>3. q \in Int /\ Wrap(p) \in 0 .. WordMod - 1 /\ p = Wrap(p) + WordMod * q
  <2>1. p \in Int
    BY <1>2
  <2> QED
    BY <1>1, <2>1, Divided DEF Wrap
<1> HIDE DEF q
<1>4. q >= 0
  <2> SUFFICES ASSUME q <= 0 - 1 PROVE FALSE
    BY <1>3
  <2>1. WordMod * q <= WordMod * (0 - 1)
    BY <1>1, <1>3, TimesMonotone
  <2> QED
    BY <1>1, <1>2, <1>3, <2>1
<1>5. q < WordMod
  <2> SUFFICES ASSUME WordMod <= q PROVE FALSE
    BY <1>1, <1>3
  <2>1. WordMod * WordMod <= WordMod * q
    BY <1>1, <1>3, TimesMonotone
  <2>2. WordMod * WordMod \in Int /\ WordMod * q \in Int
    BY <1>1, <1>3
  <2> QED
    BY <1>1, <1>2, <1>3, <2>1, <2>2
<1>6. q * WordMod = WordMod * q /\ q * WordMod \in Int
  BY <1>1, <1>3
<1>7. (q * WordMod) + Wrap(p) = p
  BY <1>2, <1>3, <1>6
<1> QED
  BY <1>1, <1>3, <1>4, <1>5, <1>7 DEF UpperProduct, Word, p, q

\* An unsigned quotient and remainder.
LEMMA UnsignedDivision ==
  ASSUME NEW x \in Word, NEW y \in Word, y # 0
  PROVE  /\ x \div y \in Word /\ x % y \in Word /\ x % y < y
         /\ x = ((x \div y) * y) + (x % y)
<1> DEFINE q == x \div y
           r == x % y
<1>1. x \in Nat /\ y \in Nat \ {0} /\ x < WordMod /\ y < WordMod /\ WordMod \in Nat
  BY ModuliType DEF Word
<1>2. q \in Int /\ r \in 0 .. y - 1 /\ x = r + y * q
  <2>1. x \in Int
    BY <1>1
  <2> QED
    BY <1>1, <2>1, Divided
<1> HIDE DEF q, r
<1>3. q >= 0
  <2> SUFFICES ASSUME q <= 0 - 1 PROVE FALSE
    BY <1>2
  <2>1. y * q <= y * (0 - 1)
    BY <1>1, <1>2, TimesMonotone
  <2> QED
    BY <1>1, <1>2, <2>1
<1>4. q <= x
  <2>1. q * 1 <= q * y /\ q * y = y * q /\ q * y \in Int
    BY <1>1, <1>2, <1>3, TimesMonotone
  <2> QED
    BY <1>1, <1>2, <2>1
<1>5. q * y = y * q /\ q * y \in Int
  BY <1>1, <1>2
<1> QED
  BY <1>1, <1>2, <1>3, <1>4, <1>5 DEF Word, q, r

\* Flipping the sign bits turns the order of signed words into that of unsigned
\* ones.
LEMMA FlippedOrder ==
  ASSUME NEW x \in Word, NEW y \in Word
  PROVE  LessSigned(x, y) = LessUnsigned(Wrap(x + (WordMod \div 2)),
                                         Wrap(y + (WordMod \div 2)))
<1> DEFINE h == WordMod \div 2
<1>1. h \in Int /\ WordMod = 2 * h /\ h > 0
  BY ModuliType
<1> HIDE DEF h
<1>2. ASSUME NEW v \in Word PROVE Wrap(v + h) = Signed(v) + h
  <2>1. v \in Int /\ 0 <= v /\ v < WordMod
    BY <1>1 DEF Word
  <2>2. CASE v < h
    <3>1. v + h \in Word /\ Signed(v) = v
      BY <1>1, <2>1, <2>2 DEF Word, Signed
    <3> QED
      BY <3>1, WrapSmall
  <2>3. CASE v >= h
    <3>1. Wrap(v + h) = v + h - WordMod
      BY <1>1, <2>1, <2>3, WrapOnce
    <3>2. Signed(v) = v - WordMod
      BY <1>1, <2>1, <2>3 DEF Signed
    <3> QED
      BY <1>1, <2>1, <3>1, <3>2
  <2> QED
    BY <1>1, <2>1, <2>2, <2>3
<1>3. Signed(x) \in Int /\ Signed(y) \in Int
  BY SignedRange
<1>4. Wrap(x + h) = Signed(x) + h /\ Wrap(y + h) = Signed(y) + h
  BY <1>2
<1>5. Signed(x) + h < Signed(y) + h <=> Signed(x) < Signed(y)
  BY <1>1, <1>3
<1> QED
  BY <1>4, <1>5 DEF LessSigned, LessUnsigned, h

\* Every instruction yields a word from words on which the host does not trap:
\* what Hart assumes of its Compute, in AluAssumption, holds of Execute, for
\* every word size (dispatch.c:77-131, 284-345).
THEOREM ExecuteComputesWords == ComputesWords(Execute)
<1> SUFFICES ASSUME NEW o \in RegOps, NEW x \in Word, NEW y \in Word,
                    ~DivTraps(o, x, y)
             PROVE  Execute(o, x, y) \in Word
  BY DEF ComputesWords
<1>1. x \in Int /\ y \in Int /\ x + y \in Int /\ x - y \in Int /\ x * y \in Int
  BY DEF Word
<1>2. 0 \in Places /\ 0 \in Word /\ 1 \in Word
  BY XLenType, ModuliType DEF Places, Word
<1>3. CASE o \in {"ADD", "SUB", "MUL"}
  BY <1>1, <1>3, Computed, WrapType
<1>4. CASE o \in {"SLL", "SRL", "SRA"}
  <2>1. /\ ShiftLeft(x, y) \in Word /\ ShiftRight(x, y) \in Word
        /\ ArithmeticShift(x, y) \in Word
    BY <1>2, ShiftLeftBits, ShiftRightBits, ArithmeticShiftBits
  <2> QED
    BY <1>4, <2>1, Computed
<1>5. CASE o \in {"SLT", "SLTU"}
  BY <1>2, <1>5, Computed DEF LessSigned, LessUnsigned
<1>6. CASE o \in {"XOR", "OR", "AND"}
  BY <1>6, Computed, LogicBits
<1>7. CASE o \in {"MULH", "MULHSU", "MULHU"}
  <2>1. UpperProduct(x, y) \in Word
    BY ProductWords
  <2> QED
    BY <1>7, <2>1, Computed
<1>8. CASE o \in {"DIV", "REM"}
  <2>1. ~DivTraps("DIV", x, y)
    BY <1>8 DEF DivTraps, Divisions
  <2>2. /\ Wrap(Quotient(Signed(x), Signed(y))) \in Word
        /\ Wrap(Remainder(Signed(x), Signed(y))) \in Word
    BY <2>1, DivisionFits, WrapType
  <2> QED
    BY <1>8, <2>2, Computed
<1>9. CASE o \in {"DIVU", "REMU"}
  <2>1. y # 0
    BY <1>9 DEF DivTraps, Divisions
  <2>2. x \div y \in Word /\ x % y \in Word
    BY <2>1, UnsignedDivision
  <2> QED
    BY <1>9, <2>2, Computed
<1> QED
  BY <1>3, <1>4, <1>5, <1>6, <1>7, <1>8, <1>9 DEF RegOps

-----------------------------------------------------------------------------
(***************************************************************************)
(* What the unit shows of one operation, on all operands.                  *)
(***************************************************************************)

\* The operands stay; a result is the one of an operation that does not trap.
AluInv ==
  /\ op \in RegOps /\ a \in Word /\ b \in Word
  /\ \/ out = Pending
     \/ out = Trapped
     \/ out = Execute(op, a, b) /\ ~DivTraps(op, a, b)

\* Compute and Trap keep AluInv.
LEMMA AluInvariant == AluSpec => []AluInv
<1>1. AluInit => AluInv
  BY DEF AluInit, AluInv
<1>2. AluInv /\ [AluNext]_aluVars => AluInv'
  <2> SUFFICES ASSUME AluInv, [AluNext]_aluVars PROVE AluInv'
    OBVIOUS
  <2>1. CASE Compute
    BY <2>1 DEF AluInv, Compute
  <2>2. CASE Trap
    BY <2>2 DEF AluInv, Trap
  <2>3. CASE UNCHANGED aluVars
    BY <2>3 DEF AluInv, aluVars
  <2> QED
    BY <2>1, <2>2, <2>3 DEF AluNext
<1> QED
  BY <1>1, <1>2, PTL DEF AluSpec

\* No word is one of the marks for "no result".
LEMMA Results ==
  ASSUME AluInv, out \in Word
  PROVE  out = Execute(op, a, b) /\ ~DivTraps(op, a, b)
<1>1. Pending \notin Word /\ Trapped \notin Word
  BY ModuliType DEF Pending, Trapped, Word
<1> QED
  BY <1>1 DEF AluInv

\* C's truncating division is what the guest asked for: DivisionsSolve for every
\* word size and all operands (dispatch.c:315-345).
THEOREM DivisionsAlwaysSolve == AluSpec => []DivisionsSolve
<1>1. AluInv => DivisionsSolve
  <2> SUFFICES ASSUME AluInv PROVE DivisionsSolve
    OBVIOUS
  <2>1. a \in Word /\ b \in Word
    BY DEF AluInv
  <2>2. ASSUME Result("REM")
        PROVE  LET n == Signed(a)
                   d == Signed(b)
                   q == Signed(Execute("DIV", a, b))
                   r == Signed(out)
               IN  /\ n = (q * d) + r
                   /\ Magnitude(r) < Magnitude(d)
                   /\ r # 0 => (r < 0) = (n < 0)
    <3> DEFINE n == Signed(a)
               d == Signed(b)
               q == Signed(Execute("DIV", a, b))
               r == Signed(out)
    <3>1. out = Execute("REM", a, b) /\ ~DivTraps("REM", a, b)
      BY <2>2, Results DEF Result
    <3>2. ~DivTraps("DIV", a, b)
      BY <3>1 DEF DivTraps, Divisions
    <3>3. /\ q = Quotient(n, d) /\ r = Remainder(n, d)
          /\ n \in Int /\ d \in Int /\ d # 0
      BY <2>1, <3>1, <3>2, Computed, DivisionFits
    <3> HIDE DEF n, d, q, r
    <3>4. /\ n = (q * d) + r /\ Magnitude(r) < Magnitude(d)
          /\ r # 0 => (r < 0) = (n < 0)
      BY <3>3, DivisionSolves
    <3> QED
      BY <3>4, Zenon DEF n, d, q, r
  <2>3. ASSUME Result("REMU")
        PROVE  a = (Execute("DIVU", a, b) * b) + out /\ out < b
    <3>1. out = Execute("REMU", a, b) /\ ~DivTraps("REMU", a, b)
      BY <2>3, Results DEF Result
    <3>2. b # 0
      BY <3>1 DEF DivTraps, Divisions
    <3>3. out = a % b /\ Execute("DIVU", a, b) = a \div b
      BY <3>1, Computed
    <3>4. a % b < b /\ a = ((a \div b) * b) + (a % b)
      BY <2>1, <3>2, UnsignedDivision
    <3> QED
      BY <3>3, <3>4
  <2> QED
    BY <2>2, <2>3, Zenon DEF DivisionsSolve
<1> QED
  BY <1>1, AluInvariant, PTL

\* A shift moves every bit by its distance and fills with zero or the sign:
\* ShiftsMoveBits for every word size and all operands (dispatch.c:85-110).
THEOREM ShiftsAlwaysMoveBits == AluSpec => []ShiftsMoveBits
<1>1. AluInv => ShiftsMoveBits
  <2> SUFFICES ASSUME AluInv, out \in Word, NEW k \in Places
               PROVE  LET n == b % XLen
                      IN  /\ op = "SLL" =>
                               Bit(out, k) = IF k >= n THEN Bit(a, k - n) ELSE 0
                          /\ op = "SRL" =>
                               Bit(out, k) = IF k + n < XLen THEN Bit(a, k + n) ELSE 0
                          /\ op = "SRA" =>
                               Bit(out, k) =
                                 Bit(a, IF k + n < XLen THEN k + n ELSE XLen - 1)
    BY Zenon DEF ShiftsMoveBits
  <2>1. a \in Word /\ b \in Word /\ b % XLen = Shamt(b)
    BY DEF AluInv, Shamt
  <2>2. out = Execute(op, a, b)
    BY Results
  <2>3. ASSUME op = "SLL"
        PROVE  Bit(out, k) = IF k >= Shamt(b) THEN Bit(a, k - Shamt(b)) ELSE 0
    <3>1. out = ShiftLeft(a, b)
      BY <2>2, <2>3, Computed
    <3> QED
      BY <2>1, <3>1, ShiftLeftBits
  <2>4. ASSUME op = "SRL"
        PROVE  Bit(out, k) = IF k + Shamt(b) < XLen THEN Bit(a, k + Shamt(b)) ELSE 0
    <3>1. out = ShiftRight(a, b)
      BY <2>2, <2>4, Computed
    <3> QED
      BY <2>1, <3>1, ShiftRightBits
  <2>5. ASSUME op = "SRA"
        PROVE  Bit(out, k) =
                 Bit(a, IF k + Shamt(b) < XLen THEN k + Shamt(b) ELSE XLen - 1)
    <3>1. out = ArithmeticShift(a, b)
      BY <2>2, <2>5, Computed
    <3> QED
      BY <2>1, <3>1, ArithmeticShiftBits
  <2> QED
    BY <2>1, <2>3, <2>4, <2>5, Zenon
<1> QED
  BY <1>1, AluInvariant, PTL

\* Signed and unsigned order differ by the sign bits alone: ComparisonsAgree for
\* every word size and all operands (dispatch.c:89-96).
THEOREM ComparisonsAlwaysAgree == AluSpec => []ComparisonsAgree
<1>1. AluInv => ComparisonsAgree
  <2> SUFFICES ASSUME AluInv PROVE ComparisonsAgree
    OBVIOUS
  <2>1. a \in Word /\ b \in Word /\ a \in Int /\ b \in Int /\ WordMod \in Int
    BY ModuliType DEF AluInv, Word
  <2>2. ASSUME Result("SLTU") PROVE (out = 1) = (a + WordMod - b < WordMod)
    <3>1. out = LessUnsigned(a, b)
      BY <2>2, Results, Computed DEF Result
    <3> QED
      BY <2>1, <3>1 DEF LessUnsigned
  <2>3. ASSUME Result("SLT")
        PROVE  LET Flip(w) == Wrap(w + (WordMod \div 2))
               IN  out = Execute("SLTU", Flip(a), Flip(b))
    <3>1. out = LessSigned(a, b)
      BY <2>3, Results, Computed DEF Result
    <3> QED
      BY <2>1, <3>1, Computed, FlippedOrder
  <2> QED
    BY <2>2, <2>3, Zenon DEF ComparisonsAgree
<1> QED
  BY <1>1, AluInvariant, PTL

\* No bit of a product is lost between its two words: ProductSplits for every
\* word size and all operands (dispatch.c:290-314).
THEOREM ProductsAlwaysSplit == AluSpec => []ProductSplits
<1>1. AluInv => ProductSplits
  <2> SUFFICES ASSUME AluInv, Result("MULHU")
               PROVE  (out * WordMod) + Execute("MUL", a, b) = a * b
    BY DEF ProductSplits
  <2>1. a \in Word /\ b \in Word
    BY DEF AluInv
  <2>2. out = UpperProduct(a, b) /\ Execute("MUL", a, b) = Wrap(a * b)
    BY Results, Computed DEF Result
  <2>3. (UpperProduct(a, b) * WordMod) + Wrap(a * b) = a * b
    BY <2>1, ProductWords
  <2> QED
    BY <2>2, <2>3, Zenon
<1> QED
  BY <1>1, AluInvariant, PTL

\* &, | and ^ account for every bit of their operands: BitsAddUp for every word
\* size and all operands (dispatch.c:98-118).
THEOREM BitsAlwaysAddUp == AluSpec => []BitsAddUp
<1>1. AluInv => BitsAddUp
  <2> SUFFICES ASSUME AluInv PROVE BitsAddUp
    OBVIOUS
  <2>1. a \in Word /\ b \in Word
    BY DEF AluInv
  <2>2. /\ Or(a, b) + And(a, b) = a + b
        /\ Xor(a, b) + 2 * And(a, b) = a + b
    BY <2>1, LogicSums
  <2>3. Result("OR") => out = Or(a, b)
    BY Results, Computed DEF Result
  <2>4. Result("XOR") => out = Xor(a, b)
    BY Results, Computed DEF Result
  <2>5. Execute("AND", a, b) = And(a, b)
    BY Computed
  <2> QED
    BY <2>2, <2>3, <2>4, <2>5, Zenon DEF BitsAddUp
<1> QED
  BY <1>1, AluInvariant, PTL

-----------------------------------------------------------------------------
(***************************************************************************)
(* The decoder: no offset of a jump or a branch is odd.                    *)
(***************************************************************************)

\* SIGNEXT changes a value by an even number or not at all.
LEMMA SignExtendedEven ==
  ASSUME NEW bit \in Nat, NEW v \in Int, v % 2 = 0
  PROVE  SignExtended(v, bit) % 2 = 0
BY DEF SignExtended

\* A sum of a field's even multiples, as the offsets are put together.
LEMMA EvenSum ==
  ASSUME NEW x \in Int, NEW y \in Int, NEW z \in Int, NEW t \in Int,
         x % 2 = 0, y % 2 = 0, z % 2 = 0, t % 2 = 0
  PROVE  x + y + z + t \in Int /\ (x + y + z + t) % 2 = 0
OBVIOUS

\* The lowest bit of a branch's offset is zero (b_ty.c:11-17).
LEMMA ImmBEven ==
  ASSUME NEW w \in BaseWords
  PROVE  ImmB(w) % 2 = 0
<1> DEFINE x == 4096 * (w.funct7 \div 64)
           y == 2048 * (w.rd % 2)
           z == 32 * (w.funct7 % 64)
           t == 2 * (w.rd \div 2)
<1>1. /\ w.funct7 \div 64 \in Int /\ w.funct7 % 64 \in Int
      /\ w.rd \div 2 \in Int /\ w.rd % 2 \in Int
  BY DEF BaseWords, U5, U7
<1>2. /\ x \in Int /\ y \in Int /\ z \in Int /\ t \in Int
      /\ x % 2 = 0 /\ y % 2 = 0 /\ z % 2 = 0 /\ t % 2 = 0
  BY <1>1, SMT
<1>3. ImmB(w) = SignExtended(x + y + z + t, 4096)
  BY SMT DEF ImmB
<1> HIDE DEF x, y, z, t
<1> DEFINE v == x + y + z + t
<1>4. v \in Int /\ v % 2 = 0
  BY <1>2, EvenSum
<1> HIDE DEF v
<1> QED
  BY <1>3, <1>4, SignExtendedEven, SMT DEF v

\* The lowest bit of a jump's offset is zero (j_ty.c:12-18).
LEMMA ImmJEven ==
  ASSUME NEW w \in BaseWords
  PROVE  ImmJ(w) % 2 = 0
<1> DEFINE x == 1048576 * (w.funct7 \div 64)
           y == 4096 * ((8 * w.rs1) + w.funct3)
           z == 2048 * (w.rs2 % 2)
           t == 2 * ((16 * (w.funct7 % 64)) + (w.rs2 \div 2))
<1>1. /\ w.funct7 \div 64 \in Int /\ (8 * w.rs1) + w.funct3 \in Int
      /\ w.rs2 % 2 \in Int /\ (16 * (w.funct7 % 64)) + (w.rs2 \div 2) \in Int
  BY DEF BaseWords, U3, U5, U7
<1>2. /\ x \in Int /\ y \in Int /\ z \in Int /\ t \in Int
      /\ x % 2 = 0 /\ y % 2 = 0 /\ z % 2 = 0 /\ t % 2 = 0
  BY <1>1, SMT
<1>3. ImmJ(w) = SignExtended(x + y + z + t, 1048576)
  BY SMT DEF ImmJ
<1> HIDE DEF x, y, z, t
<1> DEFINE v == x + y + z + t
<1>4. v \in Int /\ v % 2 = 0
  BY <1>2, EvenSum
<1> HIDE DEF v
<1> QED
  BY <1>3, <1>4, SignExtendedEven, SMT DEF v

\* No word decodes to a jump or a branch with an odd offset, which is the part
\* of Emulator's DecodeAssumption that PcStaysEven rests on.
THEOREM JumpOffsetsEven == \A w \in BaseWords : EvenOffset(w)
<1> SUFFICES ASSUME NEW w \in BaseWords, Has(w, "B") \/ Has(w, "J")
             PROVE  Fields(w).imm % 2 = 0
  BY DEF EvenOffset
<1>1. Has(w, "B") <=> w.opcode = 99
  BY SMT DEF Has, Formats
<1>2. Has(w, "J") <=> w.opcode = 111
  BY SMT DEF Has, Formats
<1>3. ~Has(w, "R") /\ ~Has(w, "I") /\ ~Has(w, "S") /\ ~Has(w, "U")
  BY <1>1, <1>2, SMT DEF Has, Formats
<1>4. CASE Has(w, "J")
  <2>1. Fields(w).imm = ImmJ(w)
    BY <1>3, <1>4, SMT DEF Fields
  <2>2. ImmJ(w) % 2 = 0
    BY ImmJEven, SMT
  <2> QED
    BY <2>1, <2>2, SMT
<1>5. CASE ~Has(w, "J")
  <2>1. Fields(w).imm = ImmB(w)
    BY <1>3, <1>5, SMT DEF Fields
  <2>2. ImmB(w) % 2 = 0
    BY ImmBEven, SMT
  <2> QED
    BY <2>1, <2>2, SMT
<1> QED
  BY <1>4, <1>5

-----------------------------------------------------------------------------
(***************************************************************************)
(* No word is two instructions.  The opcode tells the types of an opcode   *)
(* from those of all others; among them the function bits decide.          *)
(***************************************************************************)
\* The types of instruction of each opcode.
OfFloats ==
  {"FADDx", "FSUBx", "FMULx", "FDIVx", "FSGNJx", "FSGNJNx", "FSGNJXx",
   "FMINx", "FMAXx", "FLEx", "FLTx", "FEQx", "FSQRTx", "FCVT_W_x",
   "FCVT_WU_x", "FCVT_x_W", "FMV_X_W", "FCLASSx", "FMV_W_X", "FCVT_S_D",
   "FCVT_D_S"}

Groups ==
  {<<55, {"LUI"}>>, <<23, {"AUIPC"}>>, <<111, {"JAL"}>>, <<103, {"JALR"}>>,
   <<99, {"BEQ", "BNE", "BLT", "BGE", "BLTU", "BGEU"}>>,
   <<3, {"LB", "LH", "LW", "LBU", "LHU"}>>, <<35, {"SB", "SH", "SW"}>>,
   <<19, {"ADDI", "SLTI", "SLTIU", "XORI", "ORI", "ANDI", "SLLI", "SRLI", "SRAI"}>>,
   <<51, RegOps>>,
   <<15, {"FENCE", "FENCE_I"}>>, <<115, {"ECALL", "EBREAK"}>>,
   <<7, {"FLx"}>>, <<39, {"FSx"}>>,
   <<67, {"FMADDx"}>>, <<71, {"FMSUBx"}>>, <<75, {"FNMSUBx"}>>, <<79, {"FNMADDx"}>>,
   <<83, OfFloats>>}

\* The fields that tell the patterns apart.
LEMMA Shapes ==
  /\ \A oc : Any(oc).opcode = {oc}
  /\ \A oc, f3 : Funct3(oc, f3).opcode = {oc} /\ Funct3(oc, f3).funct3 = {f3}
  /\ \A oc, f7, f3 :
       /\ Arith(oc, f7, f3).opcode = {oc}
       /\ Arith(oc, f7, f3).funct3 = {f3} /\ Arith(oc, f7, f3).funct7 = {f7}
  /\ \A oc, f3, imm :
       /\ Single(oc, f3, imm).opcode = {oc}
       /\ Single(oc, f3, imm).funct3 = {f3} /\ Single(oc, f3, imm).rs2 = {imm % 32}
  /\ \A f7, r2, f3 :
       /\ Float(f7, r2, f3).opcode = {83} /\ Float(f7, r2, f3).funct7 = {f7, f7 + 1}
       /\ Float(f7, r2, f3).rs2 = r2 /\ Float(f7, r2, f3).funct3 = f3
  /\ \A f7, r2 :
       /\ Convert(f7, r2).opcode = {83}
       /\ Convert(f7, r2).funct7 = {f7} /\ Convert(f7, r2).rs2 = {r2}
BY SMT DEF Any, Funct3, Arith, Single, Float, Convert

\* The patterns of a group have its opcode.
LEMMA GroupOpcode == \A g \in Groups : \A ty \in g[2] : Pattern[ty].opcode = {g[1]}
<1> SUFFICES ASSUME NEW g \in Groups, NEW ty \in g[2]
             PROVE  Pattern[ty].opcode = {g[1]}
  OBVIOUS
<1>1. CASE g = <<51, RegOps>>
  BY <1>1, Shapes, SMT DEF RegOps, Pattern
<1>2. CASE g = <<83, OfFloats>>
  BY <1>2, Shapes, SMT DEF OfFloats, Pattern
<1>3. CASE g[1] \in {3, 19, 35, 99}
  <2>1. CASE g[1] = 3
    BY <2>1, Shapes, SMT DEF Groups, Pattern
  <2>2. CASE g[1] = 19
    BY <2>2, Shapes, SMT DEF Groups, Pattern
  <2>3. CASE g[1] = 35
    BY <2>3, Shapes, SMT DEF Groups, Pattern
  <2>4. CASE g[1] = 99
    BY <2>4, Shapes, SMT DEF Groups, Pattern
  <2> QED
    BY <1>3, <2>1, <2>2, <2>3, <2>4
<1>4. CASE g[1] \in {55, 23, 111, 103, 67, 71, 75, 79}
  BY <1>4, Shapes, SMT DEF Groups, Pattern
<1>5. CASE g[1] \in {15, 115}
  BY <1>5, Shapes, SMT DEF Groups, Pattern
<1>6. CASE g[1] \in {7, 39}
  <2>1. /\ Pattern["FLx"] = [Any(7) EXCEPT !.funct3 = {2, 3}]
        /\ Pattern["FSx"] = [Any(39) EXCEPT !.funct3 = {2, 3}]
    BY SMT DEF Pattern
  <2>2. Pattern["FLx"].opcode = {7} /\ Pattern["FSx"].opcode = {39}
    BY <2>1, SMT DEF Any
  <2> QED
    BY <1>6, <2>2, SMT DEF Groups
<1> QED
  BY <1>1, <1>2, <1>3, <1>4, <1>5, <1>6, SMT DEF Groups

\* Every type of instruction is in a group.
LEMMA Grouped == \A ty \in DOMAIN Pattern : \E g \in Groups : ty \in g[2]
BY SMT DEF Groups, Pattern, RegOps, OfFloats

\* No two groups share an opcode.
LEMMA GroupsApart == \A g, h \in Groups : g[1] = h[1] => g = h
BY SMT DEF Groups

\* The fields of a word lie in the pattern of what it is.
LEMMA MatchedFields ==
  ASSUME NEW w \in BaseWords, NEW ty, Is(w, ty)
  PROVE  /\ w.opcode \in Pattern[ty].opcode /\ w.funct3 \in Pattern[ty].funct3
         /\ w.rs2 \in Pattern[ty].rs2 /\ w.funct7 \in Pattern[ty].funct7
BY SMT DEF BaseWords, Is

\* In a group, the function bits tell the types apart.
LEMMA GroupDistinct ==
  ASSUME NEW w \in BaseWords, NEW g \in Groups,
         NEW s \in g[2], NEW t \in g[2], Is(w, s), Is(w, t)
  PROVE  s = t
<1>1. /\ w.funct3 \in Pattern[s].funct3 /\ w.funct3 \in Pattern[t].funct3
      /\ w.funct7 \in Pattern[s].funct7 /\ w.funct7 \in Pattern[t].funct7
      /\ w.rs2 \in Pattern[s].rs2 /\ w.rs2 \in Pattern[t].rs2
  BY MatchedFields
<1>2. CASE g[1] = 51
  <2>1. g[2] = RegOps
    BY <1>2, SMT DEF Groups
  <2> QED
    BY <1>1, <2>1, Shapes, SMT DEF Pattern, RegOps
<1>3. CASE g[1] = 83
  <2>1. g[2] = OfFloats
    BY <1>3, SMT DEF Groups
  <2> QED
    BY <1>1, <2>1, Shapes, SMT DEF Pattern, OfFloats
<1>4. CASE g[1] \notin {51, 83}
  BY <1>1, <1>4, Shapes, SMT DEF Groups, Pattern
<1> QED
  BY <1>2, <1>3, <1>4

\* Of every word, the switches of rvdec_insn and of insn/r_ty.c:37-102 have one
\* case at most: whether rs2 is compared first, and what each mask hides of it,
\* decides nothing.
THEOREM OneMeaning == \A w \in BaseWords : Unambiguous(w)
<1> SUFFICES ASSUME NEW w \in BaseWords,
                    NEW s \in DOMAIN Pattern, NEW t \in DOMAIN Pattern,
                    Is(w, s), Is(w, t)
             PROVE  s = t
  BY DEF Unambiguous, Meanings
<1>1. PICK g \in Groups : s \in g[2]
  BY Grouped
<1>2. PICK h \in Groups : t \in h[2]
  BY Grouped
<1>3. Pattern[s].opcode = {g[1]} /\ Pattern[t].opcode = {h[1]}
  BY <1>1, <1>2, GroupOpcode
<1>4. w.opcode \in Pattern[s].opcode /\ w.opcode \in Pattern[t].opcode
  BY MatchedFields
<1>5. g = h
  BY <1>3, <1>4, GroupsApart
<1> QED
  BY <1>1, <1>2, <1>5, GroupDistinct

-----------------------------------------------------------------------------
(***************************************************************************)
(* Where the bits of a word go.                                            *)
(***************************************************************************)

\* The powers of two that the layout of the formats counts with.
LEMMA Powers ==
  /\ Pow2[0] = 1 /\ Pow2[1] = 2 /\ Pow2[2] = 4 /\ Pow2[3] = 8 /\ Pow2[4] = 16
  /\ Pow2[5] = 32 /\ Pow2[6] = 64 /\ Pow2[7] = 128 /\ Pow2[8] = 256
  /\ Pow2[11] = 2048 /\ Pow2[12] = 4096 /\ Pow2[13] = 8192 /\ Pow2[15] = 32768
  /\ Pow2[20] = 1048576 /\ Pow2[21] = 2097152 /\ Pow2[25] = 33554432
<1>1. /\ Pow2[0] = 1 /\ Pow2[1] = 2 /\ Pow2[2] = 4 /\ Pow2[3] = 8 /\ Pow2[4] = 16
      /\ Pow2[5] = 32
  <2>1. /\ Pow2[0] = 1 /\ Pow2[0 + 1] = 2 * Pow2[0] /\ Pow2[1 + 1] = 2 * Pow2[1]
        /\ Pow2[2 + 1] = 2 * Pow2[2] /\ Pow2[3 + 1] = 2 * Pow2[3]
        /\ Pow2[4 + 1] = 2 * Pow2[4]
    BY Pow2Rules
  <2> QED
    BY <2>1
<1>2. /\ Pow2[5 + 1] = Pow2[5] * Pow2[1] /\ Pow2[5 + 2] = Pow2[5] * Pow2[2]
      /\ Pow2[5 + 3] = Pow2[5] * Pow2[3]
  BY Pow2Sum
<1>3. Pow2[6] = 64 /\ Pow2[7] = 128 /\ Pow2[8] = 256
  BY <1>1, <1>2
<1>4. /\ Pow2[8 + 3] = Pow2[8] * Pow2[3] /\ Pow2[8 + 4] = Pow2[8] * Pow2[4]
      /\ Pow2[8 + 5] = Pow2[8] * Pow2[5] /\ Pow2[8 + 7] = Pow2[8] * Pow2[7]
  BY Pow2Sum
<1>5. Pow2[11] = 2048 /\ Pow2[12] = 4096 /\ Pow2[13] = 8192 /\ Pow2[15] = 32768
  BY <1>1, <1>3, <1>4
<1>6. /\ Pow2[13 + 7] = Pow2[13] * Pow2[7] /\ Pow2[13 + 8] = Pow2[13] * Pow2[8]
      /\ Pow2[13 + 12] = Pow2[13] * Pow2[12]
  BY Pow2Sum
<1>7. Pow2[20] = 1048576 /\ Pow2[21] = 2097152 /\ Pow2[25] = 33554432
  BY <1>3, <1>5, <1>6
<1> QED
  BY <1>1, <1>3, <1>5, <1>7

\* The small ones among them.
LEMMA LowPowers ==
  Pow2[1] = 2 /\ Pow2[2] = 4 /\ Pow2[3] = 8 /\ Pow2[4] = 16 /\ Pow2[5] = 32 /\ Pow2[6] = 64
BY Powers, SMT

\* The numbers of n bits.
Numbers(n) == 0 .. Pow2[n] - 1

\* The ranges of the fields.
LEMMA SmallNumbers ==
  /\ Numbers(1) = 0 .. 1 /\ Numbers(3) = 0 .. 7 /\ Numbers(4) = 0 .. 15
  /\ Numbers(5) = 0 .. 31 /\ Numbers(6) = 0 .. 63 /\ Numbers(7) = 0 .. 127
<1>1. Pow2[7] = 128
  BY Powers, SMT
<1> QED
  BY <1>1, LowPowers DEF Numbers

\* The number put together from a low part of n bits and a high part, and its
\* bits.
Join(n, lo, hi) == lo + Pow2[n] * hi

\* A bit of a joined number is a bit of one part.
LEMMA BitOfJoin ==
  ASSUME NEW n \in Nat, NEW lo \in Numbers(n), NEW hi \in Int, NEW k \in Nat
  PROVE  Bit(Join(n, lo, hi), k) = IF k < n THEN Bit(lo, k) ELSE Bit(hi, k - n)
<1>1. Pow2[n] \in Nat \ {0} /\ lo \in Int /\ lo \in 0 .. Pow2[n] - 1
  BY Pow2Rules DEF Numbers
<1>2. CASE k < n
  BY <1>1, <1>2, BitOfSum DEF Join
<1>3. CASE k >= n
  <2> DEFINE v == lo + Pow2[n] * hi
  <2>1. v \div Pow2[n] = hi /\ v \in Int
    <3> DEFINE p == Pow2[n]
    <3>1. p \in Nat \ {0} /\ lo \in 0 .. p - 1
      BY <1>1
    <3> HIDE DEF p
    <3>2. (lo + p * hi) \div p = hi /\ lo + p * hi \in Int
      BY <3>1, DivMod
    <3> QED
      BY <3>2 DEF p
  <2>2. k - n \in Nat /\ n + (k - n) = k
    BY <1>3
  <2> HIDE DEF v
  <2>3. Bit(v \div Pow2[n], k - n) = Bit(v, n + (k - n))
    BY <2>1, <2>2, BitOfQuotient
  <2> QED
    BY <1>3, <2>1, <2>2, <2>3 DEF v, Join
<1> QED
  BY <1>2, <1>3

\* Joined, parts of n and m bits have n + m.
LEMMA JoinRange ==
  ASSUME NEW n \in Nat, NEW m \in Nat,
         NEW lo \in Numbers(n), NEW hi \in Numbers(m)
  PROVE  Join(n, lo, hi) \in Numbers(n + m)
<1> DEFINE p == Pow2[n]
           q == Pow2[m]
<1>1. p \in Nat \ {0} /\ q \in Nat \ {0} /\ Pow2[n + m] = p * q
  BY Pow2Rules, Pow2Sum
<1>2. lo \in 0 .. p - 1 /\ hi \in 0 .. q - 1
  BY DEF Numbers
<1> HIDE DEF p, q
<1>3. p * hi <= p * (q - 1) /\ p * (q - 1) = p * q - p
  BY <1>1, <1>2, TimesMonotone
<1>4. p * hi \in Nat /\ p * q \in Int
  BY <1>1, <1>2
<1>5. lo + p * hi \in 0 .. (p * q) - 1
  BY <1>1, <1>2, <1>3, <1>4
<1> QED
  BY <1>1, <1>5 DEF p, Join, Numbers

\* A mask of the low n bits keeps them.
LEMMA BitOfMask ==
  ASSUME NEW n \in Nat, NEW v \in Int, NEW k \in Nat, k < n
  PROVE  Bit(v % Pow2[n], k) = Bit(v, k)
<1> DEFINE r == v % Pow2[n]
           q == v \div Pow2[n]
<1>1. r \in Int /\ q \in Int /\ v = r + Pow2[n] * q
  <2> DEFINE p == Pow2[n]
  <2>1. p \in Nat \ {0}
    BY Pow2Rules
  <2> HIDE DEF p
  <2>2. v % p \in Int /\ v \div p \in Int /\ v = (v % p) + p * (v \div p)
    BY <2>1, Divided
  <2> QED
    BY <2>2 DEF p
<1> HIDE DEF r, q
<1>2. Bit(r + Pow2[n] * q, k) = Bit(r, k)
  BY <1>1, BitOfSum
<1> QED
  BY <1>1, <1>2 DEF r

\* SIGNEXT keeps the bits the value has, and repeats the highest above them
\* (platform.h:40-41).
LEMMA BitOfSignExtended ==
  ASSUME NEW n \in Nat, NEW v \in Numbers(n + 1), NEW k \in Nat
  PROVE  /\ SignExtended(v, Pow2[n]) \in Int
         /\ Bit(SignExtended(v, Pow2[n]), k) = IF k <= n THEN Bit(v, k) ELSE Bit(v, n)
<1> DEFINE p == Pow2[n]
           s == SignExtended(v, p)
<1>1. p \in Nat \ {0} /\ Pow2[n + 1] = 2 * p
  BY Pow2Rules
<1>2. v \in Int /\ 0 <= v /\ v < 2 * p
  BY <1>1 DEF Numbers
<1>3. s = (IF v >= p THEN v - 2 * p ELSE v) /\ s \in Int
  BY <1>1, <1>2 DEF SignExtended
<1>4. ASSUME NEW j \in Nat, j <= n PROVE Bit(s, j) = Bit(v, j)
  <2>1. CASE v >= p
    <3>1. s = v + Pow2[n + 1] * (0 - 1) /\ j < n + 1 /\ n + 1 \in Nat
      <4> HIDE DEF p, s
      <4> QED
        BY <1>1, <1>2, <1>3, <1>4, <2>1
    <3> HIDE DEF s
    <3> QED
      BY <1>2, <3>1, BitOfSum
  <2>2. CASE ~(v >= p)
    BY <1>3, <2>2
  <2> QED
    BY <2>1, <2>2
<1>5. CASE k <= n
  BY <1>3, <1>4, <1>5
<1>6. CASE k > n
  <2>1. 0 - p <= s /\ s < p
    <3> HIDE DEF p, s
    <3> QED
      BY <1>1, <1>2, <1>3
  <2> HIDE DEF s
  <2>2. Bit(s, k) = (IF s < 0 THEN 1 ELSE 0) /\ Bit(s, n) = IF s < 0 THEN 1 ELSE 0
    BY <1>3, <1>6, <2>1, BitAbove
  <2>3. Bit(s, n) = Bit(v, n)
    BY <1>4
  <2> QED
    BY <1>3, <1>6, <2>2, <2>3 DEF s
<1> QED
  BY <1>5, <1>6

\* The fields of the R format are numbers of their widths.
LEMMA FieldTypes ==
  ASSUME NEW w \in BaseWords
  PROVE  /\ w.opcode \in Numbers(7) /\ w.rd \in Numbers(5) /\ w.funct3 \in Numbers(3)
         /\ w.rs1 \in Numbers(5) /\ w.rs2 \in Numbers(5) /\ w.funct7 \in Numbers(7)
BY SmallNumbers DEF BaseWords, U3, U5, U7

\* Five low bits and seven high ones, as the I and the S format have them.
Twelve(lo, hi) == SignExtended((32 * hi) + lo, 2048)

\* The bits of such an immediate, its sign repeated.
LEMMA BitsOfTwelve ==
  ASSUME NEW lo \in Numbers(5), NEW hi \in Numbers(7), NEW k \in Nat
  PROVE  /\ Twelve(lo, hi) \in Int
         /\ Bit(Twelve(lo, hi), k) = IF k < 5 THEN Bit(lo, k)
                                     ELSE IF k <= 11 THEN Bit(hi, k - 5)
                                     ELSE Bit(hi, 6)
<1> DEFINE v == lo + 32 * hi
<1>1. v \in 0 .. 4095 /\ Twelve(lo, hi) = SignExtended(v, 2048)
  <2>1. lo \in 0 .. 31 /\ hi \in 0 .. 127
    BY SmallNumbers
  <2>2. v \in 0 .. 4095 /\ (32 * hi) + lo = v
    BY <2>1, SMT
  <2> HIDE DEF v
  <2> QED
    BY <2>2, SMT DEF Twelve
<1>2. ASSUME NEW j \in Nat
      PROVE  Bit(v, j) = IF j < 5 THEN Bit(lo, j) ELSE Bit(hi, j - 5)
  <2>1. lo \in Numbers(5) /\ hi \in Int /\ Pow2[5] = 32
    BY LowPowers, SmallNumbers
  <2>2. Bit(Join(5, lo, hi), j) = IF j < 5 THEN Bit(lo, j) ELSE Bit(hi, j - 5)
    BY <2>1, BitOfJoin
  <2>3. Join(5, lo, hi) = v
    BY <2>1 DEF Join
  <2> QED
    BY <2>2, <2>3
<1> HIDE DEF v
<1>3. v \in Numbers(11 + 1) /\ Pow2[11] = 2048
  <2>1. Pow2[12] = 4096 /\ Pow2[11] = 2048 /\ 11 + 1 = 12
    BY Powers
  <2> QED
    BY <1>1, <2>1 DEF Numbers
<1>4. /\ SignExtended(v, Pow2[11]) \in Int
      /\ Bit(SignExtended(v, Pow2[11]), k) = IF k <= 11 THEN Bit(v, k) ELSE Bit(v, 11)
  BY <1>3, BitOfSignExtended
<1>5. Bit(v, 11) = Bit(hi, 6)
  BY <1>2
<1> QED
  BY <1>1, <1>2, <1>3, <1>4, <1>5

\* The immediates of the I and the S format.
LEMMA TwelveBits ==
  ASSUME NEW w \in BaseWords
  PROVE  ImmI(w) = Twelve(w.rs2, w.funct7) /\ ImmS(w) = Twelve(w.rd, w.funct7)
BY SMT DEF ImmI, ImmS, Twelve

\* Halves and masks of a field keep its bits.
LEMMA FieldParts ==
  ASSUME NEW f \in Numbers(7)
  PROVE  /\ f \div 64 \in Numbers(1) /\ f % 64 \in Numbers(6) /\ f % 2 \in Numbers(1)
         /\ Bit(f \div 64, 0) = Bit(f, 6) /\ Bit(f % 2, 0) = Bit(f, 0)
         /\ \A k \in 0 .. 5 : Bit(f % 64, k) = Bit(f, k)
         /\ \A k \in Nat : Bit(f \div 2, k) = Bit(f, 1 + k)
         /\ \A k \in Nat : Bit(f \div 4, k) = Bit(f, 2 + k)
<1>1. Pow2[1] = 2 /\ Pow2[2] = 4 /\ Pow2[6] = 64 /\ f \in 0 .. 127 /\ f \in Int
  <2>1. f \in 0 .. 127
    BY SmallNumbers, Zenon
  <2> QED
    BY <2>1, LowPowers, SMT
<1>2. /\ Bit(f \div Pow2[6], 0) = Bit(f, 6 + 0)
      /\ \A k \in Nat : Bit(f \div Pow2[1], k) = Bit(f, 1 + k)
      /\ \A k \in Nat : Bit(f \div Pow2[2], k) = Bit(f, 2 + k)
  <2>1. f \in Int /\ 6 \in Nat /\ 1 \in Nat /\ 2 \in Nat /\ 0 \in Nat
    BY <1>1
  <2> QED
    BY <2>1, BitOfQuotient, Zenon
<1>3. Bit(f % Pow2[1], 0) = Bit(f, 0)
  <2>1. f \in Int /\ 1 \in Nat /\ 0 \in Nat /\ 0 < 1
    BY <1>1
  <2> QED
    BY <2>1, BitOfMask, Zenon
<1>4. ASSUME NEW k \in 0 .. 5 PROVE Bit(f % Pow2[6], k) = Bit(f, k)
  <2>1. k \in Nat /\ k < 6 /\ 6 \in Nat
    OBVIOUS
  <2> QED
    BY <1>1, <2>1, BitOfMask
<1>5. f \div 64 \in Numbers(1) /\ f % 64 \in Numbers(6) /\ f % 2 \in Numbers(1)
  BY <1>1, SmallNumbers
<1> QED
  BY <1>1, <1>2, <1>3, <1>4, <1>5

\* The offset of a jump or a branch: the lower bits of the one field around its
\* lowest bit, the upper bits of the other, and above them what is left.
Offset(d, f, rest) ==
  Join(1, 0, Join(4, d \div 2, Join(6, f % 64, Join(1, d % 2, rest))))

\* The bits of an offset.
LEMMA BitsOfOffset ==
  ASSUME NEW d \in Numbers(5), NEW f \in Numbers(7),
         NEW n \in Nat, NEW rest \in Numbers(n)
  PROVE  /\ Offset(d, f, rest) \in Numbers(12 + n)
         /\ \A j \in 1 .. 4 : Bit(Offset(d, f, rest), j) = Bit(d, j)
         /\ \A j \in 5 .. 10 : Bit(Offset(d, f, rest), j) = Bit(f, j - 5)
         /\ Bit(Offset(d, f, rest), 11) = Bit(d, 0)
         /\ \A j \in Nat : Bit(Offset(d, f, rest), 12 + j) = Bit(rest, j)
<1> DEFINE m == f % 64
           h == d \div 2
           t == d % 2
           u == Join(1, t, rest)
           x == Join(6, m, u)
           y == Join(4, h, x)
           v == Join(1, 0, y)
<1>1. /\ Bit(t, 0) = Bit(d, 0)
      /\ \A j \in 0 .. 5 : Bit(m, j) = Bit(f, j)
      /\ \A j \in Nat : Bit(h, j) = Bit(d, 1 + j)
      /\ m \in Numbers(6) /\ t \in Numbers(1)
  <2>1. d \in Numbers(7)
    BY SmallNumbers
  <2> QED
    BY <2>1, FieldParts
<1>2. m \in Numbers(6) /\ h \in Numbers(4) /\ t \in Numbers(1) /\ 0 \in Numbers(1)
  BY <1>1, SmallNumbers
<1> HIDE DEF m, h, t
<1>3. /\ u \in Numbers(1 + n) /\ x \in Numbers(6 + (1 + n))
      /\ y \in Numbers(4 + (6 + (1 + n))) /\ v \in Numbers(1 + (4 + (6 + (1 + n))))
  <2>1. u \in Numbers(1 + n)
    BY <1>2, JoinRange
  <2>2. x \in Numbers(6 + (1 + n))
    <3> HIDE DEF u
    <3> QED
      BY <1>2, <2>1, JoinRange
  <2>3. y \in Numbers(4 + (6 + (1 + n)))
    <3> HIDE DEF x
    <3> QED
      BY <1>2, <2>2, JoinRange
  <2>4. v \in Numbers(1 + (4 + (6 + (1 + n))))
    <3> HIDE DEF y
    <3> QED
      BY <1>2, <2>3, JoinRange
  <2> QED
    BY <2>1, <2>2, <2>3, <2>4
<1>4. u \in Int /\ x \in Int /\ y \in Int /\ rest \in Int
  <2>1. \A i \in Nat : Numbers(i) \subseteq Int
    BY Pow2Rules DEF Numbers
  <2> HIDE DEF u, x, y, v
  <2> QED
    BY <1>3, <2>1
<1>5. ASSUME NEW j \in Nat
      PROVE  /\ j >= 1 => Bit(v, j) = Bit(y, j - 1)
             /\ Bit(y, j) = IF j < 4 THEN Bit(h, j) ELSE Bit(x, j - 4)
             /\ Bit(x, j) = IF j < 6 THEN Bit(m, j) ELSE Bit(u, j - 6)
             /\ Bit(u, j) = IF j < 1 THEN Bit(t, j) ELSE Bit(rest, j - 1)
  <2>1. Bit(u, j) = IF j < 1 THEN Bit(t, j) ELSE Bit(rest, j - 1)
    BY <1>2, <1>4, BitOfJoin
  <2>2. Bit(x, j) = IF j < 6 THEN Bit(m, j) ELSE Bit(u, j - 6)
    <3> HIDE DEF u
    <3> QED
      BY <1>2, <1>4, BitOfJoin
  <2>3. Bit(y, j) = IF j < 4 THEN Bit(h, j) ELSE Bit(x, j - 4)
    <3> HIDE DEF x
    <3> QED
      BY <1>2, <1>4, BitOfJoin
  <2>4. Bit(v, j) = IF j < 1 THEN Bit(0, j) ELSE Bit(y, j - 1)
    <3> HIDE DEF y
    <3> QED
      BY <1>2, <1>4, BitOfJoin
  <2> HIDE DEF u, x, y, v
  <2> QED
    BY <2>1, <2>2, <2>3, <2>4
<1>6. Offset(d, f, rest) = v
  BY Zenon DEF Offset, u, x, y, v, m, h, t
<1> HIDE DEF u, x, y, v
<1>7. ASSUME NEW j \in 1 .. 4 PROVE Bit(v, j) = Bit(d, j)
  <2>1. Bit(v, j) = Bit(y, j - 1) /\ Bit(y, j - 1) = Bit(h, j - 1)
    BY <1>5
  <2>2. Bit(h, j - 1) = Bit(d, 1 + (j - 1)) /\ 1 + (j - 1) = j
    BY <1>1
  <2> QED
    BY <2>1, <2>2
<1>8. ASSUME NEW j \in Nat, j >= 5
      PROVE  Bit(v, j) = Bit(x, j - 5)
  <2>1. /\ Bit(v, j) = Bit(y, j - 1) /\ Bit(y, j - 1) = Bit(x, (j - 1) - 4)
        /\ (j - 1) - 4 = j - 5
    BY <1>5, <1>8
  <2> QED
    BY <2>1
<1>9. ASSUME NEW j \in 5 .. 10 PROVE Bit(v, j) = Bit(f, j - 5)
  <2>1. j - 5 \in 0 .. 5 /\ Bit(v, j) = Bit(x, j - 5)
    BY <1>8
  <2> QED
    BY <1>1, <1>5, <2>1
<1>10. Bit(v, 11) = Bit(d, 0)
  <2>1. Bit(v, 11) = Bit(x, 6) /\ Bit(x, 6) = Bit(u, 0) /\ Bit(u, 0) = Bit(t, 0)
    BY <1>5, <1>8
  <2> QED
    BY <1>1, <2>1
<1>11. ASSUME NEW j \in Nat PROVE Bit(v, 12 + j) = Bit(rest, j)
  <2>1. Bit(v, 12 + j) = Bit(x, (12 + j) - 5) /\ (12 + j) - 5 = 7 + j
    BY <1>8
  <2>2. Bit(x, 7 + j) = Bit(u, (7 + j) - 6) /\ (7 + j) - 6 = 1 + j
    BY <1>5
  <2>3. Bit(u, 1 + j) = Bit(rest, (1 + j) - 1) /\ (1 + j) - 1 = j
    BY <1>5
  <2> QED
    BY <2>1, <2>2, <2>3
<1>12. v \in Numbers(12 + n)
  <2>1. 1 + (4 + (6 + (1 + n))) = 12 + n
    OBVIOUS
  <2> QED
    BY <1>3, <2>1
<1> QED
  BY <1>6, <1>7, <1>9, <1>10, <1>11, <1>12, Zenon

\* An offset as b_ty.c and j_ty.c put it together.
LEMMA OffsetSum ==
  ASSUME NEW d \in Numbers(5), NEW f \in Numbers(7), NEW rest \in Int
  PROVE  Offset(d, f, rest) =
           (4096 * rest) + (2048 * (d % 2)) + (32 * (f % 64)) + (2 * (d \div 2))
<1> DEFINE m == f % 64
           h == d \div 2
           t == d % 2
<1>1. m \in Int /\ h \in Int /\ t \in Int
  BY SmallNumbers
<1>2. Offset(d, f, rest) = 0 + 2 * (h + 16 * (m + 64 * (t + 2 * rest)))
  BY LowPowers, Zenon DEF Offset, Join
<1> HIDE DEF m, h, t
<1>3. 0 + 2 * (h + 16 * (m + 64 * (t + 2 * rest))) =
        (4096 * rest) + (2048 * t) + (32 * m) + (2 * h)
  BY <1>1, SMT
<1> QED
  BY <1>2, <1>3, SMT DEF m, h, t

\* The offset of a branch (b_ty.c:11-17).
LEMMA BitsOfImmB ==
  ASSUME NEW w \in BaseWords, NEW k \in Nat
  PROVE  /\ ImmB(w) \in Int
         /\ k \in 1 .. 4 => Bit(ImmB(w), k) = Bit(w.rd, k)
         /\ k \in 5 .. 10 => Bit(ImmB(w), k) = Bit(w.funct7, k - 5)
         /\ k = 11 => Bit(ImmB(w), k) = Bit(w.rd, 0)
         /\ k >= 12 => Bit(ImmB(w), k) = Bit(w.funct7, 6)
<1> DEFINE f == w.funct7
           d == w.rd
           s == f \div 64
           v == Offset(d, f, s)
           i == ImmB(w)
<1>1. f \in Numbers(7) /\ d \in Numbers(5)
  BY FieldTypes
<1>2. i = SignExtended((4096 * (f \div 64)) + (2048 * (d % 2)) + (32 * (f % 64))
                       + (2 * (d \div 2)), 4096)
  BY SMT DEF ImmB
<1> HIDE DEF f, d, i
<1>3. s \in Numbers(1) /\ Bit(s, 0) = Bit(f, 6)
  BY <1>1, FieldParts, SmallNumbers
<1>4. i = SignExtended(v, Pow2[12])
  <2>1. v = (4096 * (f \div 64)) + (2048 * (d % 2)) + (32 * (f % 64)) + (2 * (d \div 2))
    <3>1. s \in Int /\ d % 2 \in Int /\ f % 64 \in Int /\ d \div 2 \in Int
      BY <1>1, <1>3, SmallNumbers, SMT
    <3>2. v = (4096 * s) + (2048 * (d % 2)) + (32 * (f % 64)) + (2 * (d \div 2))
      BY <1>1, <3>1, OffsetSum, SMT
    <3> QED
      BY <3>1, <3>2, SMT
  <2>2. Pow2[12] = 4096
    BY Powers, SMT
  <2> HIDE DEF v
  <2> QED
    BY <1>2, <2>1, <2>2, SMT
<1> HIDE DEF s
<1>5. /\ v \in Numbers(12 + 1)
      /\ \A j \in 1 .. 4 : Bit(v, j) = Bit(d, j)
      /\ \A j \in 5 .. 10 : Bit(v, j) = Bit(f, j - 5)
      /\ Bit(v, 11) = Bit(d, 0)
      /\ \A j \in Nat : Bit(v, 12 + j) = Bit(s, j)
  BY <1>1, <1>3, BitsOfOffset
<1> HIDE DEF v
<1>6. i \in Int /\ Bit(i, k) = IF k <= 12 THEN Bit(v, k) ELSE Bit(v, 12)
  BY <1>4, <1>5, BitOfSignExtended, SMT
<1>7. Bit(v, 12) = Bit(f, 6)
  <2>1. Bit(v, 12 + 0) = Bit(s, 0)
    BY <1>5
  <2> QED
    BY <1>3, <2>1
<1>8. /\ k \in 1 .. 4 => Bit(i, k) = Bit(d, k)
      /\ k \in 5 .. 10 => Bit(i, k) = Bit(f, k - 5)
      /\ k = 11 => Bit(i, k) = Bit(d, 0)
      /\ k >= 12 => Bit(i, k) = Bit(f, 6)
  BY <1>5, <1>6, <1>7
<1> QED
  BY <1>6, <1>8 DEF d, f, i

\* The offset of a jump (j_ty.c:12-18).
LEMMA BitsOfImmJ ==
  ASSUME NEW w \in BaseWords, NEW k \in Nat
  PROVE  /\ ImmJ(w) \in Int
         /\ k \in 1 .. 4 => Bit(ImmJ(w), k) = Bit(w.rs2, k)
         /\ k \in 5 .. 10 => Bit(ImmJ(w), k) = Bit(w.funct7, k - 5)
         /\ k = 11 => Bit(ImmJ(w), k) = Bit(w.rs2, 0)
         /\ k \in 12 .. 14 => Bit(ImmJ(w), k) = Bit(w.funct3, k - 12)
         /\ k \in 15 .. 19 => Bit(ImmJ(w), k) = Bit(w.rs1, k - 15)
         /\ k >= 20 => Bit(ImmJ(w), k) = Bit(w.funct7, 6)
<1> DEFINE f == w.funct7
           d == w.rs2
           g == w.funct3
           r == w.rs1
           s == f \div 64
           z == Join(5, r, s)
           q == Join(3, g, z)
           v == Offset(d, f, q)
           i == ImmJ(w)
<1>1. f \in Numbers(7) /\ d \in Numbers(5) /\ g \in Numbers(3) /\ r \in Numbers(5)
  BY FieldTypes
<1>2. i = SignExtended((1048576 * (f \div 64)) + (4096 * ((8 * r) + g))
                       + (2048 * (d % 2))
                       + (2 * ((16 * (f % 64)) + (d \div 2))), 1048576)
  BY SMT DEF ImmJ
<1> HIDE DEF f, d, g, r, i
<1>3. /\ s \in Numbers(1) /\ Bit(s, 0) = Bit(f, 6)
      /\ r \in Numbers(5) /\ g \in Numbers(3) /\ s \in Int
  BY <1>1, FieldParts, SmallNumbers
<1>4. i = SignExtended(v, Pow2[20])
  <2>1. v = (1048576 * (f \div 64)) + (4096 * ((8 * r) + g)) + (2048 * (d % 2))
            + (2 * ((16 * (f % 64)) + (d \div 2)))
    <3>1. /\ s \in Int /\ d % 2 \in Int /\ f % 64 \in Int /\ d \div 2 \in Int
          /\ r \in Int /\ g \in Int
      BY <1>1, <1>3, SmallNumbers, SMT
    <3>2. q = g + 8 * (r + 32 * s)
      BY LowPowers, SMT DEF Join
    <3>3. q \in Int
      <4> HIDE DEF s, q
      <4> QED
        BY <3>1, <3>2
    <3> HIDE DEF q
    <3>4. v = (4096 * q) + (2048 * (d % 2)) + (32 * (f % 64)) + (2 * (d \div 2))
      BY <1>1, <3>3, OffsetSum, SMT
    <3> HIDE DEF v
    <3> QED
      BY <3>1, <3>2, <3>4, SMT
  <2>2. Pow2[20] = 1048576
    BY Powers, SMT
  <2> HIDE DEF v
  <2> QED
    BY <1>2, <2>1, <2>2, SMT
<1> HIDE DEF s
<1>5. z \in Numbers(5 + 1) /\ z \in Int
  BY <1>3, JoinRange DEF Numbers
<1>6. q \in Numbers(3 + 6)
  <2>1. z \in Numbers(6)
    BY <1>5
  <2> HIDE DEF z
  <2> QED
    BY <1>3, <2>1, JoinRange
<1>7. ASSUME NEW j \in Nat
      PROVE  /\ Bit(q, j) = IF j < 3 THEN Bit(g, j) ELSE Bit(z, j - 3)
             /\ Bit(z, j) = IF j < 5 THEN Bit(r, j) ELSE Bit(s, j - 5)
  <2>1. Bit(z, j) = IF j < 5 THEN Bit(r, j) ELSE Bit(s, j - 5)
    BY <1>3, BitOfJoin
  <2>2. Bit(q, j) = IF j < 3 THEN Bit(g, j) ELSE Bit(z, j - 3)
    <3> HIDE DEF z
    <3> QED
      BY <1>3, <1>5, BitOfJoin
  <2> QED
    BY <2>1, <2>2
<1> HIDE DEF z, q
<1>8. /\ v \in Numbers(12 + 9)
      /\ \A j \in 1 .. 4 : Bit(v, j) = Bit(d, j)
      /\ \A j \in 5 .. 10 : Bit(v, j) = Bit(f, j - 5)
      /\ Bit(v, 11) = Bit(d, 0)
      /\ \A j \in Nat : Bit(v, 12 + j) = Bit(q, j)
  <2>1. q \in Numbers(9)
    BY <1>6
  <2> QED
    BY <1>1, <2>1, BitsOfOffset
<1> HIDE DEF v
<1>9. /\ \A j \in 12 .. 14 : Bit(v, j) = Bit(g, j - 12)
      /\ \A j \in 15 .. 19 : Bit(v, j) = Bit(r, j - 15)
      /\ Bit(v, 20) = Bit(f, 6)
  <2>1. ASSUME NEW j \in 0 .. 2 PROVE Bit(v, 12 + j) = Bit(g, j)
    BY <1>7, <1>8
  <2>2. ASSUME NEW j \in Nat PROVE Bit(v, 15 + j) = Bit(z, j)
    <3>1. Bit(v, 12 + (3 + j)) = Bit(q, 3 + j) /\ Bit(q, 3 + j) = Bit(z, (3 + j) - 3)
      BY <1>7, <1>8
    <3>2. 12 + (3 + j) = 15 + j /\ (3 + j) - 3 = j
      OBVIOUS
    <3> QED
      BY <3>1, <3>2
  <2>3. ASSUME NEW j \in 0 .. 4 PROVE Bit(v, 15 + j) = Bit(r, j)
    BY <1>7, <2>2
  <2>4. Bit(v, 15 + 5) = Bit(f, 6)
    <3>1. Bit(v, 15 + 5) = Bit(z, 5) /\ Bit(z, 5) = Bit(s, 0)
      BY <1>7, <2>2
    <3> QED
      BY <1>3, <3>1
  <2>5. ASSUME NEW j \in 12 .. 14 PROVE Bit(v, j) = Bit(g, j - 12)
    <3>1. j - 12 \in 0 .. 2 /\ 12 + (j - 12) = j
      OBVIOUS
    <3> QED
      BY <2>1, <3>1
  <2>6. ASSUME NEW j \in 15 .. 19 PROVE Bit(v, j) = Bit(r, j - 15)
    <3>1. j - 15 \in 0 .. 4 /\ 15 + (j - 15) = j
      OBVIOUS
    <3> QED
      BY <2>3, <3>1
  <2> QED
    BY <2>4, <2>5, <2>6
<1>10. i \in Int /\ Bit(i, k) = IF k <= 20 THEN Bit(v, k) ELSE Bit(v, 20)
  <2>1. v \in Numbers(20 + 1)
    BY <1>8
  <2> QED
    BY <1>4, <2>1, BitOfSignExtended, SMT
<1>11. /\ k \in 1 .. 4 => Bit(i, k) = Bit(d, k)
       /\ k \in 5 .. 10 => Bit(i, k) = Bit(f, k - 5)
       /\ k = 11 => Bit(i, k) = Bit(d, 0)
       /\ k \in 12 .. 14 => Bit(i, k) = Bit(g, k - 12)
       /\ k \in 15 .. 19 => Bit(i, k) = Bit(r, k - 15)
       /\ k >= 20 => Bit(i, k) = Bit(f, 6)
  BY <1>8, <1>9, <1>10
<1> QED
  BY <1>10, <1>11 DEF d, f, g, r, i

\* The immediate of the U format.
LEMMA BitsOfImmU ==
  ASSUME NEW w \in BaseWords, NEW k \in 0 .. 19
  PROVE  /\ ImmU(w) \in Int
         /\ Bit(ImmU(w), k) = IF k < 3 THEN Bit(w.funct3, k)
                              ELSE IF k < 8 THEN Bit(w.rs1, k - 3)
                              ELSE IF k < 13 THEN Bit(w.rs2, k - 8)
                              ELSE Bit(w.funct7, k - 13)
<1> DEFINE f == w.funct7
           d == w.rs2
           g == w.funct3
           r == w.rs1
           x == d + 32 * f
           y == r + 32 * x
           v == g + 8 * y
<1>1. f \in Numbers(7) /\ d \in Numbers(5) /\ g \in Numbers(3) /\ r \in Numbers(5)
  BY FieldTypes
<1>2. ImmU(w) = (8192 * f) + (256 * d) + (8 * r) + g
  BY SMT DEF ImmU
<1> HIDE DEF f, d, g, r
<1>3. ImmU(w) = v /\ v \in Int
  <2>1. f \in Int /\ d \in Int /\ g \in Int /\ r \in Int
    BY <1>1, SmallNumbers
  <2> QED
    BY <1>2, <2>1
<1>4. /\ d \in Numbers(5) /\ r \in Numbers(5) /\ g \in Numbers(3)
      /\ x = Join(5, d, f) /\ y = Join(5, r, x) /\ v = Join(3, g, y)
      /\ f \in Int /\ x \in Int /\ y \in Int
  BY <1>1, LowPowers, SmallNumbers DEF Join
<1> HIDE DEF x, y, v
<1>5. ASSUME NEW j \in Nat
      PROVE  /\ Bit(v, j) = IF j < 3 THEN Bit(g, j) ELSE Bit(y, j - 3)
             /\ Bit(y, j) = IF j < 5 THEN Bit(r, j) ELSE Bit(x, j - 5)
             /\ Bit(x, j) = IF j < 5 THEN Bit(d, j) ELSE Bit(f, j - 5)
  <2>1. Bit(Join(3, g, y), j) = IF j < 3 THEN Bit(g, j) ELSE Bit(y, j - 3)
    BY <1>4, BitOfJoin
  <2>2. Bit(Join(5, r, x), j) = IF j < 5 THEN Bit(r, j) ELSE Bit(x, j - 5)
    BY <1>4, BitOfJoin
  <2>3. Bit(Join(5, d, f), j) = IF j < 5 THEN Bit(d, j) ELSE Bit(f, j - 5)
    BY <1>4, BitOfJoin
  <2> QED
    BY <1>4, <2>1, <2>2, <2>3
<1>6. Bit(v, k) = IF k < 3 THEN Bit(g, k)
                  ELSE IF k < 8 THEN Bit(r, k - 3)
                  ELSE IF k < 13 THEN Bit(d, k - 8)
                  ELSE Bit(f, k - 13)
  <2>1. CASE k < 3
    BY <1>5, <2>1
  <2>2. CASE k >= 3 /\ k < 8
    <3>1. Bit(v, k) = Bit(y, k - 3) /\ k - 3 \in Nat /\ k - 3 < 5
      BY <1>5, <2>2
    <3> QED
      BY <1>5, <2>2, <3>1
  <2>3. CASE k >= 8
    <3>1. Bit(v, k) = Bit(y, k - 3) /\ k - 3 \in Nat /\ k - 3 >= 5
      BY <1>5, <2>3
    <3>2. Bit(y, k - 3) = Bit(x, (k - 3) - 5) /\ (k - 3) - 5 = k - 8 /\ k - 8 \in Nat
      BY <1>5, <2>3, <3>1
    <3>3. /\ Bit(x, k - 8) = IF k - 8 < 5 THEN Bit(d, k - 8) ELSE Bit(f, (k - 8) - 5)
          /\ (k - 8) - 5 = k - 13
      BY <1>5, <3>2
    <3> QED
      BY <2>3, <3>1, <3>2, <3>3
  <2> QED
    BY <2>1, <2>2, <2>3
<1> QED
  BY <1>3, <1>6 DEF f, d, g, r

\* The R format's function bits.
LEMMA BitsOfFunct ==
  ASSUME NEW w \in BaseWords, NEW k \in Nat
  PROVE  Bit((8 * w.funct7) + w.funct3, k) =
           IF k < 3 THEN Bit(w.funct3, k) ELSE Bit(w.funct7, k - 3)
<1> DEFINE f == w.funct7
           g == w.funct3
           v == (8 * f) + g
<1>1. f \in Numbers(7) /\ g \in Numbers(3)
  BY FieldTypes
<1> HIDE DEF f, g
<1>2. f \in Int /\ g \in Numbers(3) /\ v = Join(3, g, f)
  BY <1>1, LowPowers, SmallNumbers DEF Join
<1> HIDE DEF v
<1>3. Bit(v, k) = IF k < 3 THEN Bit(g, k) ELSE Bit(f, k - 3)
  BY <1>2, BitOfJoin
<1> QED
  BY <1>3 DEF f, g, v

\* The bits of a word, by the field of the R format they lie in.
LEMMA WordBits ==
  ASSUME NEW w
  PROVE  /\ \A k \in 7 .. 11 : WordBit(w, k) = Bit(w.rd, k - 7)
         /\ \A k \in 12 .. 14 : WordBit(w, k) = Bit(w.funct3, k - 12)
         /\ \A k \in 15 .. 19 : WordBit(w, k) = Bit(w.rs1, k - 15)
         /\ \A k \in 20 .. 24 : WordBit(w, k) = Bit(w.rs2, k - 20)
         /\ \A k \in 25 .. 31 : WordBit(w, k) = Bit(w.funct7, k - 25)
BY SMT DEF WordBit

\* No opcode has two formats.
LEMMA OneFormat ==
  ASSUME NEW w, NEW f \in DOMAIN Formats, NEW g \in DOMAIN Formats, Has(w, f), Has(w, g)
  PROVE  f = g
BY SMT DEF Has, Formats

\* The fields that each format copies.
LEMMA FieldsOf ==
  ASSUME NEW w
  PROVE  /\ Has(w, "R") => /\ Fields(w).rd = w.rd /\ Fields(w).rs1 = w.rs1
                           /\ Fields(w).rs2 = w.rs2
                           /\ Fields(w).funct = (8 * w.funct7) + w.funct3
         /\ Has(w, "I") => /\ Fields(w).rd = w.rd /\ Fields(w).rs1 = w.rs1
                           /\ Fields(w).funct = w.funct3 /\ Fields(w).imm = ImmI(w)
         /\ Has(w, "S") => /\ Fields(w).rs1 = w.rs1 /\ Fields(w).rs2 = w.rs2
                           /\ Fields(w).funct = w.funct3 /\ Fields(w).imm = ImmS(w)
         /\ Has(w, "B") => /\ Fields(w).rs1 = w.rs1 /\ Fields(w).rs2 = w.rs2
                           /\ Fields(w).funct = w.funct3 /\ Fields(w).imm = ImmB(w)
         /\ Has(w, "U") => Fields(w).rd = w.rd /\ Fields(w).imm = ImmU(w)
         /\ Has(w, "J") => Fields(w).rd = w.rd /\ Fields(w).imm = ImmJ(w)
         /\ Has(w, "R4") => /\ Fields(w).rd = w.rd /\ Fields(w).rs1 = w.rs1
                            /\ Fields(w).rs2 = w.rs2 /\ Fields(w).funct = w.funct3
                            /\ Fields(w).rs3 = w.funct7 \div 4
<1>1. "R" \in DOMAIN Formats /\ "I" \in DOMAIN Formats /\ "S" \in DOMAIN Formats
      /\ "U" \in DOMAIN Formats /\ "J" \in DOMAIN Formats /\ "B" \in DOMAIN Formats
      /\ "R4" \in DOMAIN Formats
  BY SMT DEF Formats
<1>2. CASE Has(w, "R")
  <2>1. ~Has(w, "I") /\ ~Has(w, "S") /\ ~Has(w, "U") /\ ~Has(w, "J") /\ ~Has(w, "B")
        /\ ~Has(w, "R4")
    BY <1>1, <1>2, OneFormat, SMT
  <2> QED
    BY <1>2, <2>1, SMT DEF Fields
<1>3. CASE Has(w, "I")
  <2>1. ~Has(w, "R") /\ ~Has(w, "S") /\ ~Has(w, "U") /\ ~Has(w, "J") /\ ~Has(w, "B")
        /\ ~Has(w, "R4")
    BY <1>1, <1>3, OneFormat, SMT
  <2> QED
    BY <1>3, <2>1, SMT DEF Fields
<1>4. CASE Has(w, "S")
  <2>1. ~Has(w, "R") /\ ~Has(w, "I") /\ ~Has(w, "U") /\ ~Has(w, "J") /\ ~Has(w, "B")
        /\ ~Has(w, "R4")
    BY <1>1, <1>4, OneFormat, SMT
  <2> QED
    BY <1>4, <2>1, SMT DEF Fields
<1>5. CASE Has(w, "U")
  <2>1. ~Has(w, "R") /\ ~Has(w, "I") /\ ~Has(w, "S") /\ ~Has(w, "J") /\ ~Has(w, "B")
        /\ ~Has(w, "R4")
    BY <1>1, <1>5, OneFormat, SMT
  <2> QED
    BY <1>5, <2>1, SMT DEF Fields
<1>6. CASE Has(w, "J")
  <2>1. ~Has(w, "R") /\ ~Has(w, "I") /\ ~Has(w, "S") /\ ~Has(w, "U") /\ ~Has(w, "B")
        /\ ~Has(w, "R4")
    BY <1>1, <1>6, OneFormat, SMT
  <2> QED
    BY <1>6, <2>1, SMT DEF Fields
<1>7. CASE Has(w, "B")
  <2>1. ~Has(w, "R") /\ ~Has(w, "I") /\ ~Has(w, "S") /\ ~Has(w, "U") /\ ~Has(w, "J")
        /\ ~Has(w, "R4")
    BY <1>1, <1>7, OneFormat, SMT
  <2> QED
    BY <1>7, <2>1, SMT DEF Fields
<1>8. CASE Has(w, "R4")
  <2>1. ~Has(w, "R") /\ ~Has(w, "I") /\ ~Has(w, "S") /\ ~Has(w, "U") /\ ~Has(w, "J")
        /\ ~Has(w, "B")
    BY <1>1, <1>8, OneFormat, SMT
  <2> QED
    BY <1>8, <2>1, SMT DEF Fields
<1> QED
  BY <1>2, <1>3, <1>4, <1>5, <1>6, <1>7, <1>8

\* Bits lo to hi of the word are the bits of v from bit on.
Shown(w, v, hi, lo, bit) ==
  \A k \in lo .. hi : WordBit(w, k) = Bit(v, bit + k - lo)

\* The fields that are copied whole lie where the word has them.
LEMMA CopiedFields ==
  ASSUME NEW w \in BaseWords
  PROVE  /\ Shown(w, w.rd, 11, 7, 0) /\ Shown(w, w.funct3, 14, 12, 0)
         /\ Shown(w, w.rs1, 19, 15, 0) /\ Shown(w, w.rs2, 24, 20, 0)
BY WordBits, SMT DEF Shown

\* The two parts of the R format's funct, and the third register of R4.
LEMMA SplitFields ==
  ASSUME NEW w \in BaseWords
  PROVE  /\ Shown(w, (8 * w.funct7) + w.funct3, 14, 12, 0)
         /\ Shown(w, (8 * w.funct7) + w.funct3, 31, 25, 3)
         /\ Shown(w, w.funct7 \div 4, 31, 27, 0)
<1>1. ASSUME NEW k \in 12 .. 14
      PROVE  WordBit(w, k) = Bit((8 * w.funct7) + w.funct3, 0 + k - 12)
  <2>1. k - 12 \in Nat /\ k - 12 < 3 /\ 0 + k - 12 = k - 12
    OBVIOUS
  <2>2. Bit((8 * w.funct7) + w.funct3, k - 12) = Bit(w.funct3, k - 12)
    BY <2>1, BitsOfFunct
  <2> QED
    BY <2>1, <2>2, WordBits
<1>2. ASSUME NEW k \in 25 .. 31
      PROVE  WordBit(w, k) = Bit((8 * w.funct7) + w.funct3, 3 + k - 25)
  <2>1. k - 22 \in Nat /\ ~(k - 22 < 3) /\ 3 + k - 25 = k - 22 /\ (k - 22) - 3 = k - 25
    OBVIOUS
  <2>2. Bit((8 * w.funct7) + w.funct3, k - 22) = Bit(w.funct7, (k - 22) - 3)
    BY <2>1, BitsOfFunct
  <2> QED
    BY <2>1, <2>2, WordBits
<1>3. ASSUME NEW k \in 27 .. 31
      PROVE  WordBit(w, k) = Bit(w.funct7 \div 4, 0 + k - 27)
  <2>1. k - 27 \in Nat /\ 0 + k - 27 = k - 27 /\ 2 + (k - 27) = k - 25
    OBVIOUS
  <2>2. Bit(w.funct7 \div 4, k - 27) = Bit(w.funct7, 2 + (k - 27))
    BY <2>1, FieldTypes, FieldParts
  <2> QED
    BY <2>1, <2>2, WordBits
<1> QED
  BY <1>1, <1>2, <1>3 DEF Shown

\* The immediates of twelve bits.
LEMMA TwelvePlaced ==
  ASSUME NEW w \in BaseWords
  PROVE  /\ Shown(w, ImmI(w), 31, 20, 0)
         /\ Shown(w, ImmS(w), 11, 7, 0) /\ Shown(w, ImmS(w), 31, 25, 5)
<1>1. /\ w.rd \in Numbers(5) /\ w.rs2 \in Numbers(5) /\ w.funct7 \in Numbers(7)
      /\ ImmI(w) = Twelve(w.rs2, w.funct7) /\ ImmS(w) = Twelve(w.rd, w.funct7)
  BY FieldTypes, TwelveBits
<1>2. ASSUME NEW k \in 0 .. 11
      PROVE  /\ Bit(ImmI(w), k) = IF k < 5 THEN Bit(w.rs2, k) ELSE Bit(w.funct7, k - 5)
             /\ Bit(ImmS(w), k) = IF k < 5 THEN Bit(w.rd, k) ELSE Bit(w.funct7, k - 5)
  BY <1>1, BitsOfTwelve
<1>3. ASSUME NEW k \in 20 .. 31 PROVE WordBit(w, k) = Bit(ImmI(w), 0 + k - 20)
  <2>1. k - 20 \in 0 .. 11 /\ 0 + k - 20 = k - 20 /\ (k - 20) - 5 = k - 25
    OBVIOUS
  <2>2. Bit(ImmI(w), k - 20) =
          IF k - 20 < 5 THEN Bit(w.rs2, k - 20) ELSE Bit(w.funct7, (k - 20) - 5)
    BY <1>2, <2>1
  <2> QED
    BY <2>1, <2>2, WordBits
<1>4. ASSUME NEW k \in 7 .. 11 PROVE WordBit(w, k) = Bit(ImmS(w), 0 + k - 7)
  <2>1. k - 7 \in 0 .. 11 /\ 0 + k - 7 = k - 7 /\ k - 7 < 5
    OBVIOUS
  <2>2. Bit(ImmS(w), k - 7) = Bit(w.rd, k - 7)
    BY <1>2, <2>1
  <2> QED
    BY <2>1, <2>2, WordBits
<1>5. ASSUME NEW k \in 25 .. 31 PROVE WordBit(w, k) = Bit(ImmS(w), 5 + k - 25)
  <2>1. k - 20 \in 0 .. 11 /\ 5 + k - 25 = k - 20 /\ (k - 20) - 5 = k - 25
        /\ ~(k - 20 < 5)
    OBVIOUS
  <2>2. Bit(ImmS(w), k - 20) = Bit(w.funct7, (k - 20) - 5)
    BY <1>2, <2>1
  <2> QED
    BY <2>1, <2>2, WordBits
<1> QED
  BY <1>3, <1>4, <1>5 DEF Shown

\* The offset of a branch.
LEMMA BranchPlaced ==
  ASSUME NEW w \in BaseWords
  PROVE  /\ Shown(w, ImmB(w), 7, 7, 11) /\ Shown(w, ImmB(w), 11, 8, 1)
         /\ Shown(w, ImmB(w), 30, 25, 5) /\ Shown(w, ImmB(w), 31, 31, 12)
<1>1. ASSUME NEW k \in 7 .. 7 PROVE WordBit(w, k) = Bit(ImmB(w), 11 + k - 7)
  <2>1. k = 7 /\ 11 + k - 7 = 11 /\ k - 7 = 0
    OBVIOUS
  <2> QED
    BY <2>1, BitsOfImmB, WordBits
<1>2. ASSUME NEW k \in 8 .. 11 PROVE WordBit(w, k) = Bit(ImmB(w), 1 + k - 8)
  <2>1. k - 7 \in 1 .. 4 /\ 1 + k - 8 = k - 7 /\ k \in 7 .. 11
    OBVIOUS
  <2> QED
    BY <2>1, BitsOfImmB, WordBits
<1>3. ASSUME NEW k \in 25 .. 30 PROVE WordBit(w, k) = Bit(ImmB(w), 5 + k - 25)
  <2>1. k - 20 \in 5 .. 10 /\ 5 + k - 25 = k - 20 /\ (k - 20) - 5 = k - 25
        /\ k \in 25 .. 31
    OBVIOUS
  <2>2. Bit(ImmB(w), k - 20) = Bit(w.funct7, (k - 20) - 5)
    BY <2>1, BitsOfImmB
  <2> QED
    BY <2>1, <2>2, WordBits
<1>4. ASSUME NEW k \in 31 .. 31 PROVE WordBit(w, k) = Bit(ImmB(w), 12 + k - 31)
  <2>1. k = 31 /\ 12 + k - 31 = 12 /\ k - 25 = 6
    OBVIOUS
  <2>2. Bit(ImmB(w), 12) = Bit(w.funct7, 6)
    BY BitsOfImmB
  <2> QED
    BY <2>1, <2>2, WordBits
<1> QED
  BY <1>1, <1>2, <1>3, <1>4 DEF Shown

\* The offset of a jump.
LEMMA JumpPlaced ==
  ASSUME NEW w \in BaseWords
  PROVE  /\ Shown(w, ImmJ(w), 19, 12, 12) /\ Shown(w, ImmJ(w), 20, 20, 11)
         /\ Shown(w, ImmJ(w), 30, 21, 1) /\ Shown(w, ImmJ(w), 31, 31, 20)
<1>1. ASSUME NEW k \in 12 .. 19 PROVE WordBit(w, k) = Bit(ImmJ(w), 12 + k - 12)
  <2>1. 12 + k - 12 = k /\ k \in Nat /\ (k \in 12 .. 14 \/ k \in 15 .. 19)
    OBVIOUS
  <2> QED
    BY <2>1, BitsOfImmJ, WordBits
<1>2. ASSUME NEW k \in 20 .. 20 PROVE WordBit(w, k) = Bit(ImmJ(w), 11 + k - 20)
  <2>1. k = 20 /\ 11 + k - 20 = 11 /\ k - 20 = 0
    OBVIOUS
  <2> QED
    BY <2>1, BitsOfImmJ, WordBits
<1>3. ASSUME NEW k \in 21 .. 30 PROVE WordBit(w, k) = Bit(ImmJ(w), 1 + k - 21)
  <2>1. CASE k \in 21 .. 24
    <3>1. k - 20 \in 1 .. 4 /\ 1 + k - 21 = k - 20 /\ k \in 20 .. 24
      BY <2>1
    <3> QED
      BY <3>1, BitsOfImmJ, WordBits
  <2>2. CASE k \in 25 .. 30
    <3>1. k - 20 \in 5 .. 10 /\ 1 + k - 21 = k - 20 /\ (k - 20) - 5 = k - 25
          /\ k \in 25 .. 31
      BY <2>2
    <3>2. Bit(ImmJ(w), k - 20) = Bit(w.funct7, (k - 20) - 5)
      BY <3>1, BitsOfImmJ
    <3> QED
      BY <3>1, <3>2, WordBits
  <2> QED
    BY <2>1, <2>2
<1>4. ASSUME NEW k \in 31 .. 31 PROVE WordBit(w, k) = Bit(ImmJ(w), 20 + k - 31)
  <2>1. k = 31 /\ 20 + k - 31 = 20 /\ k - 25 = 6
    OBVIOUS
  <2>2. Bit(ImmJ(w), 20) = Bit(w.funct7, 6)
    BY BitsOfImmJ
  <2> QED
    BY <2>1, <2>2, WordBits
<1> QED
  BY <1>1, <1>2, <1>3, <1>4 DEF Shown

\* The immediate of the U format.
LEMMA UpperPlaced ==
  ASSUME NEW w \in BaseWords
  PROVE  Shown(w, ImmU(w), 31, 12, 0)
<1>1. ASSUME NEW k \in 12 .. 31 PROVE WordBit(w, k) = Bit(ImmU(w), 0 + k - 12)
  <2>1. /\ k - 12 \in 0 .. 19 /\ 0 + k - 12 = k - 12
        /\ (k - 12) - 3 = k - 15 /\ (k - 12) - 8 = k - 20 /\ (k - 12) - 13 = k - 25
    OBVIOUS
  <2>2. Bit(ImmU(w), k - 12) =
          IF k - 12 < 3 THEN Bit(w.funct3, k - 12)
          ELSE IF k - 12 < 8 THEN Bit(w.rs1, (k - 12) - 3)
          ELSE IF k - 12 < 13 THEN Bit(w.rs2, (k - 12) - 8)
          ELSE Bit(w.funct7, (k - 12) - 13)
    BY <2>1, BitsOfImmU
  <2>3. k \in 12 .. 14 \/ k \in 15 .. 19 \/ k \in 20 .. 24 \/ k \in 25 .. 31
    OBVIOUS
  <2> QED
    BY <2>1, <2>2, <2>3, WordBits
<1> QED
  BY <1>1 DEF Shown

\* Whatever the format, the instruction's fields show the whole word.
LEMMA EveryPart ==
  ASSUME NEW w \in BaseWords, NEW fmt \in DOMAIN Formats, Has(w, fmt),
         NEW part \in Layout[fmt]
  PROVE  Shown(w, Fields(w)[part.field], part.hi, part.lo, part.bit)
<1> DEFINE Holds(p) == Shown(w, Fields(w)[p.field], p.hi, p.lo, p.bit)
<1>1. \A hi, lo, field, bit :
        Holds(At(hi, lo, field, bit)) <=> Shown(w, Fields(w)[field], hi, lo, bit)
  BY DEF At
<1>2. fmt \in {"R", "I", "S", "U", "J", "B", "R4"}
  BY SMT DEF Formats
<1> HIDE DEF Holds
<1>3. CASE fmt = "R"
  <2>1. /\ Holds(At(11, 7, "rd", 0)) /\ Holds(At(14, 12, "funct", 0))
        /\ Holds(At(19, 15, "rs1", 0)) /\ Holds(At(24, 20, "rs2", 0))
        /\ Holds(At(31, 25, "funct", 3))
    BY <1>1, <1>3, FieldsOf, CopiedFields, SplitFields
  <2> QED
    BY <1>3, <2>1 DEF Layout, Holds
<1>4. CASE fmt = "I"
  <2>1. /\ Holds(At(11, 7, "rd", 0)) /\ Holds(At(14, 12, "funct", 0))
        /\ Holds(At(19, 15, "rs1", 0)) /\ Holds(At(31, 20, "imm", 0))
    BY <1>1, <1>4, FieldsOf, CopiedFields, TwelvePlaced
  <2> QED
    BY <1>4, <2>1 DEF Layout, Holds
<1>5. CASE fmt = "S"
  <2>1. /\ Holds(At(11, 7, "imm", 0)) /\ Holds(At(14, 12, "funct", 0))
        /\ Holds(At(19, 15, "rs1", 0)) /\ Holds(At(24, 20, "rs2", 0))
        /\ Holds(At(31, 25, "imm", 5))
    BY <1>1, <1>5, FieldsOf, CopiedFields, TwelvePlaced
  <2> QED
    BY <1>5, <2>1 DEF Layout, Holds
<1>6. CASE fmt = "B"
  <2>1. /\ Holds(At(7, 7, "imm", 11)) /\ Holds(At(11, 8, "imm", 1))
        /\ Holds(At(14, 12, "funct", 0)) /\ Holds(At(19, 15, "rs1", 0))
        /\ Holds(At(24, 20, "rs2", 0)) /\ Holds(At(30, 25, "imm", 5))
        /\ Holds(At(31, 31, "imm", 12))
    BY <1>1, <1>6, FieldsOf, CopiedFields, BranchPlaced
  <2> QED
    BY <1>6, <2>1 DEF Layout, Holds
<1>7. CASE fmt = "U"
  <2>1. Holds(At(11, 7, "rd", 0)) /\ Holds(At(31, 12, "imm", 0))
    BY <1>1, <1>7, FieldsOf, CopiedFields, UpperPlaced
  <2> QED
    BY <1>7, <2>1 DEF Layout, Holds
<1>8. CASE fmt = "J"
  <2>1. /\ Holds(At(11, 7, "rd", 0)) /\ Holds(At(19, 12, "imm", 12))
        /\ Holds(At(20, 20, "imm", 11)) /\ Holds(At(30, 21, "imm", 1))
        /\ Holds(At(31, 31, "imm", 20))
    BY <1>1, <1>8, FieldsOf, CopiedFields, JumpPlaced
  <2> QED
    BY <1>8, <2>1 DEF Layout, Holds
<1>9. CASE fmt = "R4"
  <2>1. /\ Holds(At(11, 7, "rd", 0)) /\ Holds(At(14, 12, "funct", 0))
        /\ Holds(At(19, 15, "rs1", 0)) /\ Holds(At(24, 20, "rs2", 0))
        /\ Holds(At(31, 27, "rs3", 0))
    BY <1>1, <1>9, FieldsOf, CopiedFields, SplitFields
  <2> QED
    BY <1>9, <2>1 DEF Layout, Holds
<1> QED
  BY <1>2, <1>3, <1>4, <1>5, <1>6, <1>7, <1>8, <1>9 DEF Holds

\* A signed immediate above its bits is bit 31 of the word.
LEMMA SignOf ==
  ASSUME NEW w \in BaseWords, NEW fmt \in DOMAIN Sign, Has(w, fmt),
         NEW k \in Sign[fmt] .. 30
  PROVE  Bit(Fields(w).imm, k) = WordBit(w, 31)
<1>1. WordBit(w, 31) = Bit(w.funct7, 6)
  BY SMT DEF WordBit
<1>2. fmt \in {"I", "S", "B", "J"}
  BY SMT DEF Sign
<1>3. CASE fmt \in {"I", "S"}
  <2>1. k \in 11 .. 30
    BY <1>3, SMT DEF Sign
  <2>2. k \in Nat /\ ~(k < 5) /\ (k <= 11 => k - 5 = 6)
    BY <2>1, SMT
  <2>3. Bit(ImmI(w), k) = Bit(w.funct7, 6) /\ Bit(ImmS(w), k) = Bit(w.funct7, 6)
    BY <2>2, FieldTypes, TwelveBits, BitsOfTwelve
  <2> QED
    BY <1>1, <1>3, <2>3, FieldsOf
<1>4. CASE fmt = "B"
  <2>1. k \in Nat /\ k >= 12
    BY <1>4, SMT DEF Sign
  <2> QED
    BY <1>1, <1>4, <2>1, BitsOfImmB, FieldsOf
<1>5. CASE fmt = "J"
  <2>1. k \in Nat /\ k >= 20
    BY <1>5, SMT DEF Sign
  <2> QED
    BY <1>1, <1>5, <2>1, BitsOfImmJ, FieldsOf
<1> QED
  BY <1>2, <1>3, <1>4, <1>5

\* The reasons of a rejection are no instructions.
LEMMA RejectionsApart == \A w : Rejection(w) \in Rejections
BY Zenon DEF Rejection, Rejections

\* No pattern is of a rejection.
LEMMA NoRejection == \A ty \in DOMAIN Pattern : ty \notin Rejections
BY SMT DEF Pattern, Rejections

\* The opcode of an accepted word has a format.
LEMMA AcceptedFormat ==
  ASSUME NEW w \in BaseWords, InsnTy(w) \in DOMAIN Pattern
  PROVE  \E fmt \in DOMAIN Formats : Has(w, fmt)
<1>1. Meanings(w) # {}
  <2> SUFFICES ASSUME Meanings(w) = {}
               PROVE  FALSE
    OBVIOUS
  <2>1. InsnTy(w) = Rejection(w)
    BY DEF InsnTy
  <2> QED
    BY <2>1, RejectionsApart, NoRejection
<1>2. PICK ty \in DOMAIN Pattern : Is(w, ty)
  BY <1>1 DEF Meanings
<1>3. PICK g \in Groups : ty \in g[2]
  BY Grouped
<1>4. w.opcode = g[1]
  <2>1. w.opcode \in Pattern[ty].opcode /\ Pattern[ty].opcode = {g[1]}
    BY <1>2, <1>3, MatchedFields, GroupOpcode
  <2> QED
    BY <2>1
<1>5. g[1] \in {51, 83} \cup {103, 3, 19, 15, 115, 7} \cup {35, 39} \cup {23, 55}
                 \cup {111} \cup {99} \cup {67, 71, 75, 79}
  BY SMT DEF Groups
<1> QED
  BY <1>4, <1>5, SMT DEF Has, Formats

-----------------------------------------------------------------------------
(***************************************************************************)
(* What every call of rvdec_insn returns.                                  *)
(***************************************************************************)
DecodingInv ==
  /\ word \in BaseWords
  /\ Decoded => insn = RvdecInsn(word)

LEMMA DecodingInvariant == DecodingSpec => []DecodingInv
<1>1. DecodingInit => DecodingInv
  BY SamplesAssumption DEF DecodingInit, DecodingInv, Decoded
<1>2. DecodingInv /\ [Decode]_decodingVars => DecodingInv'
  BY DEF DecodingInv, Decode, decodingVars, Decoded
<1> QED
  BY <1>1, <1>2, PTL DEF DecodingSpec

\* An accepted word can be rebuilt from its instruction, bit by bit, whatever
\* the word (decoder.c:4-62, insn/*_ty.c).
THEOREM FieldsAlwaysInPlace == DecodingSpec => []FieldsInPlace
<1>1. DecodingInv => FieldsInPlace
  <2> SUFFICES ASSUME DecodingInv, Accepted
               PROVE  \E fmt \in DOMAIN Formats :
                        /\ Has(word, fmt)
                        /\ \A part \in Layout[fmt] : \A k \in part.lo .. part.hi :
                             WordBit(word, k)
                               = Bit(insn.fields[part.field], part.bit + k - part.lo)
    BY DEF FieldsInPlace
  <2>1. /\ word \in BaseWords /\ insn.fields = Fields(word)
        /\ InsnTy(word) \in DOMAIN Pattern
    BY DEF DecodingInv, Accepted, RvdecInsn
  <2>2. PICK fmt \in DOMAIN Formats : Has(word, fmt)
    BY <2>1, AcceptedFormat
  <2>3. \A part \in Layout[fmt] :
          Shown(word, Fields(word)[part.field], part.hi, part.lo, part.bit)
    BY <2>1, <2>2, EveryPart
  <2> QED
    BY <2>1, <2>2, <2>3 DEF Shown
<1> QED
  BY <1>1, DecodingInvariant, PTL

\* A signed immediate repeats bit 31 of its word above the bits it has
\* (platform.h:40-41).
THEOREM ImmediatesAlwaysSigned == DecodingSpec => []ImmediatesAreSigned
<1>1. DecodingInv => ImmediatesAreSigned
  <2> SUFFICES ASSUME DecodingInv, Decoded, NEW fmt \in DOMAIN Sign,
                      NEW k \in Sign[fmt] .. 30, Has(word, fmt)
               PROVE  Bit(insn.fields.imm, k) = WordBit(word, 31)
    BY DEF ImmediatesAreSigned
  <2>1. word \in BaseWords /\ insn.fields = Fields(word)
    BY DEF DecodingInv, RvdecInsn
  <2> QED
    BY <2>1, SignOf
<1> QED
  BY <1>1, DecodingInvariant, PTL

\* Whatever the word, the order in which the cases of its opcode are tried
\* decides nothing (r_ty.c:37-102).
THEOREM AlwaysOneInstruction == DecodingSpec => []OneInstruction
<1>1. DecodingInv => OneInstruction
  BY OneMeaning DEF DecodingInv, OneInstruction
<1> QED
  BY <1>1, DecodingInvariant, PTL

\* Whatever the word, a jump's or a branch's offset is even (b_ty.c:11-17,
\* j_ty.c:12-18).
THEOREM OffsetsAlwaysEven == DecodingSpec => []OffsetsEven
<1>1. DecodingInv => OffsetsEven
  <2> SUFFICES ASSUME DecodingInv, Decoded, Has(word, "B") \/ Has(word, "J")
               PROVE  insn.fields.imm % 2 = 0
    BY DEF OffsetsEven
  <2>1. word \in BaseWords /\ insn.fields = Fields(word)
    BY DEF DecodingInv, RvdecInsn
  <2> QED
    BY <2>1, JumpOffsetsEven DEF EvenOffset
<1> QED
  BY <1>1, DecodingInvariant, PTL

-----------------------------------------------------------------------------
(***************************************************************************)
(* The decoder of the program is one that Emulator may be given.           *)
(***************************************************************************)

\* A word of the program is below 2^32.
LEMMA ProgramWord ==
  ASSUME ByteMod = 256, NEW n \in Word
  PROVE  n \in Nat /\ n < 128 * 33554432 /\ WordMod = 128 * 33554432
<1>1. HalfMod = 65536
  BY SMT DEF HalfMod
<1>2. WordMod = 128 * 33554432
  BY <1>1, SMT DEF WordMod
<1>3. n \in Nat /\ n < WordMod
  BY ModuliType DEF Word
<1> QED
  BY <1>2, <1>3, SMT

\* The bit-fields of a word are in their ranges.
LEMMA BaseOfType ==
  ASSUME ByteMod = 256, NEW n \in Word
  PROVE  BaseOf(n) \in BaseWords
<1>1. n \in Nat /\ n < 128 * 33554432
  BY ProgramWord
<1>2. n \div 33554432 \in 0 .. 127
  BY <1>1, SMT
<1>3. /\ n % 128 \in 0 .. 127 /\ (n \div 128) % 32 \in 0 .. 31
      /\ (n \div 4096) % 8 \in 0 .. 7 /\ (n \div 32768) % 32 \in 0 .. 31
      /\ (n \div 1048576) % 32 \in 0 .. 31
  BY <1>1, SMT
<1> QED
  BY <1>2, <1>3, SMT DEF BaseOf, BaseWords, U3, U5, U7

\* Together they are the whole word, so what is said of WordBit is said of the
\* bits that were fetched.
THEOREM BaseOfKeepsBits ==
  ASSUME ByteMod = 256
  PROVE  \A n \in Word : \A k \in 0 .. 31 : WordBit(BaseOf(n), k) = Bit(n, k)
<1> SUFFICES ASSUME NEW n \in Word, NEW k \in 0 .. 31
             PROVE  WordBit(BaseOf(n), k) = Bit(n, k)
  OBVIOUS
<1> DEFINE w == BaseOf(n)
<1>1. n \in Int
  BY ProgramWord
<1>2. /\ w.opcode = n % Pow2[7] /\ w.rd = (n \div Pow2[7]) % Pow2[5]
      /\ w.funct3 = (n \div Pow2[12]) % Pow2[3] /\ w.rs1 = (n \div Pow2[15]) % Pow2[5]
      /\ w.rs2 = (n \div Pow2[20]) % Pow2[5] /\ w.funct7 = n \div Pow2[25]
  BY Powers, SMT DEF BaseOf
<1> HIDE DEF w
<1>3. ASSUME NEW i \in Nat, NEW m \in Nat, NEW j \in Nat, j < m
      PROVE  Bit((n \div Pow2[i]) % Pow2[m], j) = Bit(n, i + j)
  <2>1. n \div Pow2[i] \in Int
    BY <1>1, Pow2Rules, Divided
  <2>2. Bit((n \div Pow2[i]) % Pow2[m], j) = Bit(n \div Pow2[i], j)
    BY <1>3, <2>1, BitOfMask
  <2> QED
    BY <1>1, <2>2, BitOfQuotient
<1>4. CASE k \in 0 .. 6
  <2>1. WordBit(w, k) = Bit(w.opcode, k) /\ k \in Nat /\ k < 7
    BY <1>4, SMT DEF WordBit
  <2> QED
    BY <1>1, <1>2, <2>1, BitOfMask DEF w
<1>5. CASE k \in 7 .. 11
  <2>1. k - 7 \in Nat /\ k - 7 < 5 /\ 7 + (k - 7) = k
    BY <1>5
  <2>2. Bit(w.rd, k - 7) = Bit(n, 7 + (k - 7))
    BY <1>2, <1>3, <2>1
  <2> QED
    BY <1>5, <2>1, <2>2, WordBits DEF w
<1>6. CASE k \in 12 .. 14
  <2>1. k - 12 \in Nat /\ k - 12 < 3 /\ 12 + (k - 12) = k
    BY <1>6
  <2>2. Bit(w.funct3, k - 12) = Bit(n, 12 + (k - 12))
    BY <1>2, <1>3, <2>1
  <2> QED
    BY <1>6, <2>1, <2>2, WordBits DEF w
<1>7. CASE k \in 15 .. 19
  <2>1. k - 15 \in Nat /\ k - 15 < 5 /\ 15 + (k - 15) = k
    BY <1>7
  <2>2. Bit(w.rs1, k - 15) = Bit(n, 15 + (k - 15))
    BY <1>2, <1>3, <2>1
  <2> QED
    BY <1>7, <2>1, <2>2, WordBits DEF w
<1>8. CASE k \in 20 .. 24
  <2>1. k - 20 \in Nat /\ k - 20 < 5 /\ 20 + (k - 20) = k
    BY <1>8
  <2>2. Bit(w.rs2, k - 20) = Bit(n, 20 + (k - 20))
    BY <1>2, <1>3, <2>1
  <2> QED
    BY <1>8, <2>1, <2>2, WordBits DEF w
<1>9. CASE k \in 25 .. 31
  <2>1. k - 25 \in Nat /\ 25 + (k - 25) = k
    BY <1>9
  <2>2. Bit(w.funct7, k - 25) = Bit(n, 25 + (k - 25))
    BY <1>1, <1>2, <2>1, BitOfQuotient
  <2> QED
    BY <1>9, <2>1, <2>2, WordBits DEF w
<1> QED
  BY <1>4, <1>5, <1>6, <1>7, <1>8, <1>9

\* The fields of any word, as insn_t holds them.
LEMMA FieldsType ==
  ASSUME NEW w \in BaseWords
  PROVE  /\ Fields(w).rd \in U5 /\ Fields(w).rs1 \in U5 /\ Fields(w).rs2 \in U5
         /\ Fields(w).funct \in Nat /\ Fields(w).imm \in Int
<1>1. /\ w.rd \in U5 /\ w.rs1 \in U5 /\ w.rs2 \in U5 /\ 0 \in U5
      /\ w.funct3 \in Nat /\ (8 * w.funct7) + w.funct3 \in Nat
  BY SMT DEF BaseWords, U3, U5, U7
<1>2. /\ ImmI(w) \in Int /\ ImmS(w) \in Int /\ ImmU(w) \in Int
      /\ ImmB(w) \in Int /\ ImmJ(w) \in Int
  <2>1. ImmI(w) \in Int /\ ImmS(w) \in Int
    BY FieldTypes, TwelveBits, BitsOfTwelve
  <2>2. 0 \in Nat /\ 0 \in 0 .. 19
    OBVIOUS
  <2> QED
    BY <2>1, <2>2, BitsOfImmU, BitsOfImmB, BitsOfImmJ
<1> DEFINE Typed(f) ==
      /\ f.rd \in U5 /\ f.rs1 \in U5 /\ f.rs2 \in U5 /\ f.funct \in Nat /\ f.imm \in Int
<1>3. Typed(Fields(w))
  BY <1>1, <1>2, SMT DEF Fields
<1> QED
  BY <1>3

\* Every type of instruction that a word can have is one of insn_ty's.
LEMMA InsnTyType ==
  ASSUME NEW w
  PROVE  InsnTy(w) \in InsnTypes
<1>1. \A ty \in DOMAIN Pattern : ty \in InsnTypes
  BY SMT DEF Pattern, InsnTypes, RegOps, ImmOp, LoadSize, StoreSize, Branches, Fences,
     FloatTypes, WidthRequired, WidthOptional, Arithmetic, MinMax, Comparisons,
     FromInt, ToInt, Conversions
<1>2. Rejection(w) \in InsnTypes
  BY RejectionsApart DEF InsnTypes
<1>3. CASE Meanings(w) # {}
  <2>1. InsnTy(w) \in Meanings(w)
    BY <1>3 DEF InsnTy
  <2> QED
    BY <1>1, <2>1 DEF Meanings
<1> QED
  BY <1>2, <1>3 DEF InsnTy

\* Jumps and branches have the opcodes of the J and the B format.
LEMMA JumpFormat ==
  ASSUME NEW w \in BaseWords, InsnTy(w) \in Branches \cup {"JAL"}
  PROVE  Has(w, "B") \/ Has(w, "J")
<1>1. Branches \cup {"JAL"} \subseteq DOMAIN Pattern
  BY SMT DEF Branches, Pattern
<1>2. Meanings(w) # {}
  <2> SUFFICES ASSUME Meanings(w) = {}
               PROVE  FALSE
    OBVIOUS
  <2>1. InsnTy(w) = Rejection(w)
    BY DEF InsnTy
  <2> QED
    BY <1>1, <2>1, RejectionsApart, NoRejection
<1>3. Is(w, InsnTy(w))
  BY <1>2 DEF InsnTy, Meanings
<1>4. w.opcode \in Pattern[InsnTy(w)].opcode
  BY <1>3, MatchedFields
<1>5. \A ty \in Branches \cup {"JAL"} : Pattern[ty].opcode \in {{99}, {111}}
  <2>1. \A ty \in Branches : \E g \in Groups : ty \in g[2] /\ g[1] = 99
    BY SMT DEF Branches, Groups
  <2>2. \E g \in Groups : "JAL" \in g[2] /\ g[1] = 111
    BY SMT DEF Groups
  <2> QED
    BY <2>1, <2>2, GroupOpcode
<1>6. w.opcode = 99 \/ w.opcode = 111
  BY <1>4, <1>5
<1> QED
  BY <1>6, SMT DEF Has, Formats

\* With bytes of eight bits and 32 registers, what rvdec_insn makes of words is
\* what Emulator takes for granted (DecodeAssumption), so the theorems about
\* the emulator are about the emulator with its own decoder.
THEOREM DecoderDecodes ==
  ASSUME ByteMod = 256, Reg = U5
  PROVE  IsDecoder([n \in Word |-> RvdecWord(n)])
<1>1. ASSUME NEW n \in Word PROVE RvdecWord(n) \in Insns
  <2> DEFINE w == BaseOf(n)
  <2>1. w \in BaseWords
    BY BaseOfType
  <2> HIDE DEF w
  <2>2. /\ InsnTy(w) \in InsnTypes
        /\ Fields(w).rd \in Reg /\ Fields(w).rs1 \in Reg /\ Fields(w).rs2 \in Reg
        /\ Fields(w).funct \in Nat /\ Wrap(Fields(w).imm) \in Word
    BY <2>1, InsnTyType, FieldsType, WrapType
  <2>3. RvdecWord(n) = [insn_ty |-> InsnTy(w), rd |-> Fields(w).rd,
                        rs1 |-> Fields(w).rs1, rs2 |-> Fields(w).rs2,
                        funct |-> Fields(w).funct, imm |-> Wrap(Fields(w).imm)]
    BY DEF RvdecWord, RvdecInsn, w
  <2> QED
    BY <2>2, <2>3 DEF Insns
<1>2. ASSUME NEW n \in Word, RvdecWord(n).insn_ty \in Branches \cup {"JAL"}
      PROVE  RvdecWord(n).imm % 2 = 0
  <2> DEFINE w == BaseOf(n)
  <2>1. w \in BaseWords
    BY BaseOfType
  <2>2. RvdecWord(n).insn_ty = InsnTy(w) /\ RvdecWord(n).imm = Wrap(Fields(w).imm)
    BY DEF RvdecWord, RvdecInsn
  <2> HIDE DEF w
  <2>3. Fields(w).imm % 2 = 0
    BY <1>2, <2>1, <2>2, JumpFormat, JumpOffsetsEven DEF EvenOffset
  <2>4. Fields(w).imm \in Int
    BY <2>1, FieldsType
  <2> QED
    BY <2>2, <2>3, <2>4, WrapEven
<1> QED
  BY <1>1, <1>2 DEF IsDecoder
=============================================================================
