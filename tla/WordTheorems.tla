---------------------------- MODULE WordTheorems ----------------------------
(***************************************************************************)
(* Facts about the machine integers that the proofs rest on, for every     *)
(* ByteMod the assumption of Words allows.                                 *)
(***************************************************************************)
EXTENDS Words, Bits, TLAPS, WellFoundedInduction

\* Multiplication by a natural keeps the order.
LEMMA TimesMonotone ==
  ASSUME NEW c \in Nat, NEW m \in Int, NEW n \in Int, m <= n
  PROVE  c * m <= c * n
OBVIOUS

\* The moduli are positive, and an even byte makes the word even too.
LEMMA ModuliType ==
  /\ HalfMod \in Nat /\ HalfMod > 0
  /\ WordMod \in Nat /\ WordMod > 0
  /\ WordMod % 2 = 0
<1> DEFINE k == ByteMod \div 2
<1>1. k \in Nat /\ ByteMod = 2 * k
  BY ByteModAssumption
<1>2. HalfMod \in Nat /\ HalfMod > 0
  BY ByteModAssumption DEF HalfMod
<1>3. WordMod \in Nat /\ WordMod > 0
  BY <1>2 DEF WordMod
<1> DEFINE h == k * ByteMod * HalfMod
<1>4. h \in Nat /\ WordMod = 2 * h
  BY <1>1, <1>2, ByteModAssumption DEF WordMod, HalfMod
<1> HIDE DEF k, h
<1>5. WordMod % 2 = 0
  BY <1>4
<1> QED
  BY <1>2, <1>3, <1>5

\* A conversion to u32 yields a word.
LEMMA WrapType == ASSUME NEW n \in Int PROVE Wrap(n) \in Word
BY ModuliType DEF Wrap, Word

\* A conversion to u32 changes no word, and takes one modulus off a value
\* that overflows once.
LEMMA WrapSmall == ASSUME NEW n \in Word PROVE Wrap(n) = n
BY ModuliType DEF Wrap, Word

LEMMA WrapOnce ==
  ASSUME NEW n \in Int, WordMod <= n, n < 2 * WordMod
  PROVE  Wrap(n) = n - WordMod
<1> DEFINE m == n - WordMod
<1>1. m \in 0 .. WordMod - 1 /\ n = m + WordMod
  BY ModuliType
<1>2. (m + WordMod) % WordMod = m
  BY <1>1, ModuliType
<1> QED
  BY <1>1, <1>2 DEF Wrap

\* A difference that borrows once gets one modulus back.
LEMMA WrapBorrow ==
  ASSUME NEW n \in Int, 0 - WordMod <= n, n < 0
  PROVE  Wrap(n) = n + WordMod
<1> DEFINE m == n + WordMod
<1>1. m \in 0 .. WordMod - 1 /\ n = m - WordMod
  BY ModuliType
<1>2. (m - WordMod) % WordMod = m
  BY <1>1, ModuliType
<1> QED
  BY <1>1, <1>2 DEF Wrap

\* The modulus is even, so a conversion to u32 keeps the parity.
LEMMA WrapEven ==
  ASSUME NEW n \in Int, n % 2 = 0
  PROVE  Wrap(n) % 2 = 0
<1> DEFINE h == WordMod \div 2
           q == n \div WordMod
           j == n \div 2
<1>1. h \in Int /\ WordMod = 2 * h
  BY ModuliType
<1>2. q \in Int /\ n = WordMod * q + Wrap(n)
  BY ModuliType DEF Wrap
<1>3. j \in Int /\ n = 2 * j
  OBVIOUS
<1>4. Wrap(n) \in Int
  BY ModuliType DEF Wrap
<1> HIDE DEF h, q, j
<1> DEFINE p == h * q
<1>5. p \in Int
  BY <1>1, <1>2
<1>6. WordMod * q = 2 * p
  BY <1>1, <1>2
<1> HIDE DEF p
<1>7. Wrap(n) = 2 * (j - p)
  BY <1>2, <1>3, <1>4, <1>5, <1>6
<1> QED
  BY <1>3, <1>5, <1>7

\* Clearing bit 0 of a word leaves an even word.
LEMMA ClearBit0Even ==
  ASSUME NEW v \in Word
  PROVE  ClearBit0(v) \in Word /\ ClearBit0(v) % 2 = 0
BY ModuliType DEF ClearBit0, Word

\* The bytes of a word are bytes.
LEMMA ByteOfType ==
  ASSUME NEW v \in Word, NEW k \in 0 .. 3
  PROVE  ByteOf(v, k) \in Byte
<1>1. Weight(k) \in Nat /\ Weight(k) > 0
  <2>1. HalfMod * ByteMod \in Nat /\ HalfMod * ByteMod > 0
    BY ModuliType, ByteModAssumption
  <2> QED
    BY <2>1, ModuliType, ByteModAssumption DEF Weight
<1>2. v \div Weight(k) \in Int
  BY <1>1 DEF Word
<1> QED
  BY <1>2, ByteModAssumption DEF ByteOf, Byte

\* What the bytes of an access spell is an integer.
LEMMA FromBytesType ==
  ASSUME NEW n \in {1, 2, 4}, NEW b \in [0 .. n - 1 -> Byte]
  PROVE  FromBytes(b, n) \in Int
<1>1. \A k \in 0 .. n - 1 : b[k] \in Int
  BY ByteModAssumption DEF Byte
<1>2. b[0] \in Int
  BY <1>1
<1>3. ASSUME n > 1 PROVE ByteMod * b[1] \in Int
  BY <1>1, <1>3, ByteModAssumption
<1>4. ASSUME n > 2 PROVE HalfMod * (b[2] + ByteMod * b[3]) \in Int
  <2>1. b[2] \in Int /\ b[3] \in Int
    BY <1>1, <1>4
  <2>2. b[2] + ByteMod * b[3] \in Int
    BY <2>1, ByteModAssumption
  <2> QED
    BY <2>2, ModuliType
<1> QED
  BY <1>2, <1>3, <1>4 DEF FromBytes

\* Four bytes spell a word.
LEMMA FourBytesType ==
  ASSUME NEW b, \A k \in 0 .. 3 : b[k] \in Byte
  PROVE  FromBytes(b, 4) \in Word
<1>1. \A k \in 0 .. 3 : b[k] \in 0 .. ByteMod - 1
  BY DEF Byte
<1>2. ASSUME NEW lo \in 0 .. ByteMod - 1, NEW hi \in 0 .. ByteMod - 1
      PROVE  lo + ByteMod * hi \in 0 .. HalfMod - 1
  <2>1. /\ ByteMod * hi \in Int /\ 0 <= ByteMod * hi
        /\ ByteMod * hi <= ByteMod * (ByteMod - 1)
    BY <1>2, ByteModAssumption
  <2>2. ByteMod * (ByteMod - 1) = HalfMod - ByteMod
    BY ByteModAssumption DEF HalfMod
  <2> QED
    BY <1>2, <2>1, <2>2, ByteModAssumption, ModuliType
<1> DEFINE lo == b[0] + ByteMod * b[1]
           hi == b[2] + ByteMod * b[3]
<1>3. lo \in 0 .. HalfMod - 1 /\ hi \in 0 .. HalfMod - 1
  BY <1>1, <1>2
<1>4. FromBytes(b, 4) = lo + HalfMod * hi
  BY DEF FromBytes
<1> HIDE DEF lo, hi
<1>5. /\ HalfMod * hi \in Int /\ 0 <= HalfMod * hi
      /\ HalfMod * hi <= HalfMod * (HalfMod - 1)
  BY <1>3, ModuliType
<1>6. HalfMod * (HalfMod - 1) = WordMod - HalfMod
  BY ModuliType DEF WordMod
<1> QED
  BY <1>3, <1>4, <1>5, <1>6, ModuliType DEF Word

\* Fewer bytes spell a word whose other bytes are zero.
LEMMA FromBytesWord ==
  ASSUME NEW n \in {1, 2, 4}, NEW b \in [0 .. n - 1 -> Byte]
  PROVE  FromBytes(b, n) \in Word
<1> DEFINE c == [k \in 0 .. 3 |-> IF k < n THEN b[k] ELSE 0]
<1>1. \A k \in 0 .. 3 : c[k] \in Byte
  BY ByteModAssumption DEF Byte
<1>2. FromBytes(c, 4) \in Word
  <2> HIDE DEF c
  <2> QED
    BY <1>1, FourBytesType
<1>3. FromBytes(c, 4) = FromBytes(b, n)
  <2>1. \A k \in 0 .. n - 1 : b[k] \in Int
    BY ByteModAssumption DEF Byte
  <2>2. CASE n = 1
    <3>1. c[0] = b[0] /\ c[1] = 0 /\ c[2] = 0 /\ c[3] = 0
      BY <2>2
    <3> HIDE DEF c
    <3>2. ByteMod * c[1] = 0 /\ HalfMod * (c[2] + ByteMod * c[3]) = 0
      BY <3>1, ByteModAssumption, ModuliType
    <3> QED
      BY <2>1, <2>2, <3>1, <3>2 DEF FromBytes
  <2>3. CASE n = 2
    <3>1. c[0] = b[0] /\ c[1] = b[1] /\ c[2] = 0 /\ c[3] = 0
      BY <2>3
    <3> HIDE DEF c
    <3>2. HalfMod * (c[2] + ByteMod * c[3]) = 0
      BY <3>1, ByteModAssumption, ModuliType
    <3>3. b[0] \in Int /\ ByteMod * b[1] \in Int
      BY <2>1, <2>3, ByteModAssumption
    <3> QED
      BY <2>3, <3>1, <3>2, <3>3 DEF FromBytes
  <2>4. CASE n = 4
    <3>1. c[0] = b[0] /\ c[1] = b[1] /\ c[2] = b[2] /\ c[3] = b[3]
      BY <2>4
    <3> HIDE DEF c
    <3> QED
      BY <2>4, <3>1 DEF FromBytes
  <2> QED
    BY <2>2, <2>3, <2>4
<1> QED
  BY <1>2, <1>3

\* A narrow value read as signed is an integer.
LEMMA SignExtendType ==
  ASSUME NEW v \in Int, NEW mod \in Int
  PROVE  SignExtend(v, mod) \in Int
BY DEF SignExtend

-----------------------------------------------------------------------------
(***************************************************************************)
(* Division, induction and powers of two.                                  *)
(***************************************************************************)
\* Division and remainder of a number given by its quotient and remainder.
LEMMA DivMod ==
  ASSUME NEW m \in Nat \ {0}, NEW q \in Int, NEW r \in 0 .. m - 1
  PROVE  (r + m * q) \div m = q /\ (r + m * q) % m = r
<1> DEFINE n == r + m * q
           d == n \div m
           s == n % m
<1>1. n \in Int /\ d \in Int /\ s \in 0 .. m - 1 /\ n = m * d + s
  OBVIOUS
<1>2. r = m * (d - q) + s
  BY <1>1
<1> HIDE DEF n, d, s
<1>3. CASE d >= q + 1
  <2>1. m * (d - q) >= m
    BY <1>1, <1>3
  <2> QED
    BY <1>1, <1>2, <2>1
<1>4. CASE d <= q - 1
  <2>1. m * (d - q) <= 0 - m
    BY <1>1, <1>4
  <2> QED
    BY <1>1, <1>2, <2>1
<1>5. CASE d = q
  BY <1>1, <1>2, <1>5 DEF n, d, s
<1> QED
  BY <1>1, <1>3, <1>4, <1>5

\* Division with remainder.
LEMMA Divided ==
  ASSUME NEW v \in Int, NEW m \in Nat \ {0}
  PROVE  /\ v \div m \in Int /\ v % m \in 0 .. m - 1
         /\ v = (v % m) + m * (v \div m)
OBVIOUS

\* Dividing twice is dividing by the product.
LEMMA DivDiv ==
  ASSUME NEW v \in Int, NEW m \in Nat \ {0}, NEW n \in Nat \ {0}
  PROVE  (v \div m) \div n = v \div (m * n)
<1> DEFINE q == v \div m
           r == v % m
           s == q % n
           t == q \div n
<1>1. q \in Int /\ r \in 0 .. m - 1 /\ v = r + m * q
  BY Divided
<1> HIDE DEF q, r
<1>2. t \in Int /\ s \in 0 .. n - 1 /\ q = s + n * t
  BY <1>1, Divided
<1> HIDE DEF s, t
<1>3. r + m * s \in 0 .. m * n - 1
  <2>1. m * s \in Nat /\ m * (n - 1) \in Nat /\ m * s <= m * (n - 1)
    <3>1. s \in Nat /\ n - 1 \in Nat /\ s <= n - 1
      BY <1>2
    <3> QED
      BY <3>1, TimesMonotone
  <2>2. m * (n - 1) = m * n - m
    OBVIOUS
  <2> QED
    BY <1>1, <2>1, <2>2
<1>4. m * n \in Nat \ {0}
  OBVIOUS
<1>5. v = (r + m * s) + (m * n) * t
  <2>1. v = r + m * (s + n * t)
    BY <1>1, <1>2
  <2>2. m * (s + n * t) = m * s + (m * n) * t
    BY <1>2
  <2> QED
    BY <1>1, <1>2, <2>1, <2>2
<1>6. v \div (m * n) = t
  BY <1>2, <1>3, <1>4, <1>5, DivMod
<1> QED
  BY <1>6 DEF q, t

\* A set of naturals that is not empty has a least element.
LEMMA LeastElement ==
  ASSUME NEW T, T \subseteq Nat, T # {}
  PROVE  \E x \in T : \A y \in T : x <= y
<1> DEFINE R == {p \in Nat \X Nat : p[1] < p[2]}
<1>1. IsWellFoundedOn(R, Nat)
  BY NatLessThanWellFounded DEF OpToRel
<1>2. PICK x \in T : \A y \in T : ~(<<y, x>> \in R)
  BY <1>1, WFMin, Zenon
<1>3. ASSUME NEW y \in T PROVE x <= y
  <2>1. x \in Nat /\ y \in Nat
    OBVIOUS
  <2>2. ~(y < x)
    BY <1>2, <2>1
  <2> QED
    BY <2>1, <2>2
<1> QED
  BY <1>3

\* Induction, of a set rather than of a predicate: the form that needs no
\* operator as a parameter.
LEMMA SetInduction ==
  ASSUME NEW S, 0 \in S, \A n \in Nat : n \in S => n + 1 \in S
  PROVE  \A n \in Nat : n \in S
<1> SUFFICES ASSUME Nat \ S # {} PROVE FALSE
  OBVIOUS
<1>1. PICK x \in Nat \ S : \A y \in Nat \ S : x <= y
  BY LeastElement
<1>2. x - 1 \in Nat /\ x - 1 \notin Nat \ S
  BY <1>1
<1>3. (x - 1) + 1 \in S
  BY <1>2
<1> QED
  BY <1>1, <1>3

\* The recursive definition of Pow2 has a solution: the values that the tables
\* of every length agree on.
LEMMA Pow2Defined == Pow2 = [n \in Nat |-> IF n = 0 THEN 1 ELSE 2 * Pow2[n - 1]]
<1> DEFINE IsTable(g, n) == /\ g \in [0 .. n -> Nat] /\ g[0] = 1
                            /\ \A i \in 1 .. n : g[i] = 2 * g[i - 1]
           Known == {n \in Nat : \E g : IsTable(g, n)}
<1>1. \A n \in Nat : n \in Known
  <2>1. 0 \in Known
    <3>1. IsTable([i \in 0 .. 0 |-> 1], 0)
      OBVIOUS
    <3> QED
      BY <3>1
  <2>2. ASSUME NEW n \in Nat, n \in Known PROVE n + 1 \in Known
    <3>1. PICK g : IsTable(g, n)
      BY <2>2
    <3> DEFINE h == [i \in 0 .. n + 1 |-> IF i = n + 1 THEN 2 * g[n] ELSE g[i]]
    <3>2. h \in [0 .. n + 1 -> Nat] /\ h[0] = 1
      BY <3>1
    <3>3. ASSUME NEW i \in 1 .. n + 1 PROVE h[i] = 2 * h[i - 1]
      BY <3>1
    <3>4. IsTable(h, n + 1)
      BY <3>2, <3>3
    <3> HIDE DEF h, IsTable
    <3> QED
      BY <3>4
  <2> HIDE DEF Known
  <2> QED
    BY <2>1, <2>2, SetInduction
<1>2. ASSUME NEW n \in Nat, NEW m \in Nat, NEW g, NEW h,
             IsTable(g, n), IsTable(h, m), n <= m
      PROVE  \A i \in 0 .. n : g[i] = h[i]
  <2> DEFINE Agreed == {i \in Nat : i <= n => g[i] = h[i]}
  <2>1. 0 \in Agreed
    BY <1>2
  <2>2. ASSUME NEW i \in Nat, i \in Agreed PROVE i + 1 \in Agreed
    <3> SUFFICES ASSUME i + 1 <= n PROVE g[i + 1] = h[i + 1]
      OBVIOUS
    <3>1. i + 1 \in 1 .. n /\ i + 1 \in 1 .. m /\ (i + 1) - 1 = i
      BY <1>2
    <3>2. g[i + 1] = 2 * g[i] /\ h[i + 1] = 2 * h[i]
      BY <1>2, <3>1
    <3> QED
      BY <2>2, <3>2
  <2> HIDE DEF Agreed
  <2>3. \A i \in Nat : i \in Agreed
    BY <2>1, <2>2, SetInduction
  <2> QED
    BY <2>3 DEF Agreed
<1> DEFINE Table(n) == CHOOSE g : IsTable(g, n)
           f == [n \in Nat |-> Table(n)[n]]
<1>3. \A n \in Nat : IsTable(Table(n), n)
  BY <1>1
<1>4. ASSUME NEW n \in Nat PROVE f[n] = IF n = 0 THEN 1 ELSE 2 * f[n - 1]
  <2> HIDE DEF Table
  <2>1. CASE n = 0
    BY <1>3, <2>1
  <2>2. CASE n # 0
    <3>1. n - 1 \in Nat /\ n - 1 <= n /\ n - 1 \in 0 .. n - 1
      BY <2>2
    <3>2. IsTable(Table(n), n) /\ IsTable(Table(n - 1), n - 1)
      BY <1>3, <3>1
    <3> HIDE DEF IsTable
    <3>3. Table(n - 1)[n - 1] = Table(n)[n - 1]
      BY <1>2, <3>1, <3>2
    <3>4. Table(n)[n] = 2 * Table(n)[n - 1]
      BY <2>2, <3>2 DEF IsTable
    <3> QED
      BY <2>2, <3>1, <3>3, <3>4
  <2> QED
    BY <2>1, <2>2
<1> HIDE DEF Table
<1>5. f = [n \in Nat |-> IF n = 0 THEN 1 ELSE 2 * f[n - 1]]
  BY <1>4
<1> HIDE DEF f
<1> QED
  BY <1>5, Zenon DEF Pow2

\* The powers of two, one from the other.
LEMMA Pow2Rules ==
  /\ Pow2[0] = 1
  /\ \A n \in Nat : Pow2[n + 1] = 2 * Pow2[n]
  /\ \A n \in Nat : Pow2[n] \in Nat \ {0}
<1>1. Pow2[0] = 1
  BY Pow2Defined
<1>2. ASSUME NEW n \in Nat PROVE Pow2[n + 1] = 2 * Pow2[n]
  <2>1. n + 1 \in Nat /\ n + 1 # 0 /\ (n + 1) - 1 = n
    OBVIOUS
  <2> QED
    BY <2>1, Pow2Defined
<1>3. \A n \in Nat : Pow2[n] \in Nat \ {0}
  <2> DEFINE S == {n \in Nat : Pow2[n] \in Nat \ {0}}
  <2>1. 0 \in S
    BY <1>1
  <2>2. ASSUME NEW n \in Nat, n \in S PROVE n + 1 \in S
    BY <1>2, <2>2
  <2>3. \A n \in Nat : n \in S
    <3> HIDE DEF S
    <3> QED
      BY <2>1, <2>2, SetInduction
  <2> QED
    BY <2>3
<1> QED
  BY <1>1, <1>2, <1>3

\* Exponents add up.
LEMMA Pow2Sum ==
  ASSUME NEW i \in Nat, NEW j \in Nat
  PROVE  Pow2[i + j] = Pow2[i] * Pow2[j]
<1> DEFINE S == {n \in Nat : Pow2[i + n] = Pow2[i] * Pow2[n]}
<1>1. 0 \in S
  BY Pow2Rules
<1>2. ASSUME NEW n \in Nat, n \in S PROVE n + 1 \in S
  <2>1. /\ i + n \in Nat /\ i + (n + 1) = (i + n) + 1
        /\ Pow2[i] \in Nat /\ Pow2[n] \in Nat
    BY Pow2Rules
  <2>2. Pow2[i + (n + 1)] = 2 * Pow2[i + n] /\ Pow2[n + 1] = 2 * Pow2[n]
    BY <2>1, Pow2Rules
  <2>3. Pow2[i + n] = Pow2[i] * Pow2[n]
    BY <1>2
  <2>4. 2 * (Pow2[i] * Pow2[n]) = Pow2[i] * (2 * Pow2[n])
    BY <2>1
  <2> QED
    BY <2>2, <2>3, <2>4
<1>3. \A n \in Nat : n \in S
  <2> HIDE DEF S
  <2> QED
    BY <1>1, <1>2, SetInduction
<1> QED
  BY <1>3

\* A larger power is an even multiple of a smaller one.
LEMMA Pow2Multiple ==
  ASSUME NEW k \in Nat, NEW n \in Nat, k < n
  PROVE  \E h \in Nat \ {0} : Pow2[n] = Pow2[k] * (2 * h)
<1> DEFINE d == (n - k) - 1
<1>1. d \in Nat /\ n = k + (d + 1)
  OBVIOUS
<1> HIDE DEF d
<1>2. Pow2[n] = Pow2[k] * Pow2[d + 1]
  BY <1>1, Pow2Sum
<1>3. Pow2[d + 1] = 2 * Pow2[d] /\ Pow2[d] \in Nat \ {0}
  BY <1>1, Pow2Rules
<1> QED
  BY <1>2, <1>3

\* Bits below the n-th do not see multiples of 2^n.
LEMMA BitOfSum ==
  ASSUME NEW v \in Int, NEW q \in Int, NEW k \in Nat, NEW n \in Nat, k < n
  PROVE  Bit(v + Pow2[n] * q, k) = Bit(v, k)
<1>1. PICK h \in Nat \ {0} : Pow2[n] = Pow2[k] * (2 * h)
  BY Pow2Multiple
<1> DEFINE p == Pow2[k]
           d == v \div p
           r == v % p
<1>2. p \in Nat \ {0}
  BY Pow2Rules
<1>3. d \in Int /\ r \in 0 .. p - 1 /\ v = r + p * d
  BY <1>2, Divided
<1> HIDE DEF p, d, r
<1>4. v + Pow2[n] * q = r + p * (d + 2 * (h * q))
  <2>1. Pow2[n] * q = p * (2 * (h * q))
    <3>1. Pow2[n] = p * (2 * h)
      BY <1>1 DEF p
    <3> QED
      BY <1>2, <3>1
  <2>2. p * (d + 2 * (h * q)) = p * d + p * (2 * (h * q))
    BY <1>2, <1>3
  <2>3. p * d \in Int /\ p * (2 * (h * q)) \in Int
    BY <1>2, <1>3
  <2> QED
    BY <1>3, <2>1, <2>2, <2>3
<1>5. h * q \in Int /\ d + 2 * (h * q) \in Int
  BY <1>3
<1>6. (v + Pow2[n] * q) \div p = d + 2 * (h * q)
  BY <1>2, <1>3, <1>4, <1>5, DivMod
<1>7. (d + 2 * (h * q)) % 2 = d % 2
  BY <1>3, <1>5
<1> QED
  BY <1>6, <1>7 DEF Bit, p, d

\* Dividing by a power of two moves the bits down.
LEMMA BitOfQuotient ==
  ASSUME NEW v \in Int, NEW k \in Nat, NEW n \in Nat
  PROVE  Bit(v \div Pow2[n], k) = Bit(v, n + k)
<1>1. Pow2[n] \in Nat \ {0} /\ Pow2[k] \in Nat \ {0}
  BY Pow2Rules
<1>2. Pow2[n + k] = Pow2[n] * Pow2[k]
  BY Pow2Sum
<1> QED
  BY <1>1, <1>2, DivDiv DEF Bit

\* Multiplying by a power of two moves them up.
LEMMA BitOfMultiple ==
  ASSUME NEW v \in Int, NEW k \in Nat, NEW n \in Nat
  PROVE  Bit(v * Pow2[n], k) = IF k >= n THEN Bit(v, k - n) ELSE 0
<1>1. Pow2[n] \in Nat \ {0}
  BY Pow2Rules
<1>2. v * Pow2[n] = 0 + Pow2[n] * v /\ v * Pow2[n] \in Int
  BY <1>1
<1>3. CASE k >= n
  <2>1. (v * Pow2[n]) \div Pow2[n] = v
    BY <1>1, <1>2, DivMod
  <2>2. k - n \in Nat /\ n + (k - n) = k
    BY <1>3
  <2>3. Bit((v * Pow2[n]) \div Pow2[n], k - n) = Bit(v * Pow2[n], n + (k - n))
    BY <1>2, <2>2, BitOfQuotient
  <2> QED
    BY <1>3, <2>1, <2>2, <2>3
<1>4. CASE k < n
  <2>1. Bit(0 + Pow2[n] * v, k) = Bit(0, k)
    BY <1>4, BitOfSum
  <2>2. Bit(0, k) = 0
    <3>1. Pow2[k] \in Nat \ {0}
      BY Pow2Rules
    <3>2. 0 = 0 + Pow2[k] * 0
      BY <3>1
    <3>3. 0 \div Pow2[k] = 0
      BY <3>1
    <3> QED
      BY <3>3 DEF Bit
  <2> QED
    BY <1>2, <1>4, <2>1, <2>2
<1> QED
  BY <1>3, <1>4

\* Above its highest bit a number repeats its sign.
LEMMA BitAbove ==
  ASSUME NEW n \in Nat, NEW k \in Nat, k >= n, NEW v \in Int,
         0 - Pow2[n] <= v, v < Pow2[n]
  PROVE  Bit(v, k) = IF v < 0 THEN 1 ELSE 0
<1>1. Pow2[n] <= Pow2[k] /\ Pow2[n] \in Nat \ {0} /\ Pow2[k] \in Nat \ {0}
  <2>1. k - n \in Nat /\ k = n + (k - n)
    OBVIOUS
  <2>2. Pow2[k] = Pow2[n] * Pow2[k - n]
    BY <2>1, Pow2Sum
  <2>3. Pow2[n] \in Nat \ {0} /\ Pow2[k] \in Nat \ {0} /\ Pow2[k - n] \in Nat \ {0}
    BY <2>1, Pow2Rules
  <2>4. Pow2[n] * 1 <= Pow2[n] * Pow2[k - n]
    BY <2>3, TimesMonotone
  <2> QED
    BY <2>2, <2>3, <2>4
<1>2. CASE v >= 0
  <2>1. v \in 0 .. Pow2[k] - 1 /\ v = v + Pow2[k] * 0
    BY <1>1, <1>2
  <2>2. v \div Pow2[k] = 0
    BY <1>1, <2>1, DivMod
  <2> QED
    BY <1>2, <2>2 DEF Bit
<1>3. CASE v < 0
  <2>1. v + Pow2[k] \in 0 .. Pow2[k] - 1 /\ v = (v + Pow2[k]) + Pow2[k] * (0 - 1)
    BY <1>1, <1>3
  <2>2. v \div Pow2[k] = 0 - 1
    BY <1>1, <2>1, DivMod
  <2> QED
    BY <1>3, <2>2 DEF Bit
<1> QED
  BY <1>2, <1>3

\* One bit more.
LEMMA BitsBelow ==
  ASSUME NEW v \in Int, NEW n \in Nat
  PROVE  v % Pow2[n + 1] = (v % Pow2[n]) + Pow2[n] * Bit(v, n)
<1> DEFINE p == Pow2[n]
           r == v % p
           q == v \div p
           b == q % 2
           h == q \div 2
<1>1. p \in Nat \ {0} /\ Pow2[n + 1] = p * 2
  BY Pow2Rules
<1>2. q \in Int /\ r \in 0 .. p - 1 /\ v = r + p * q
  BY <1>1, Divided
<1>3. Bit(v, n) = b
  BY DEF Bit
<1> HIDE DEF p, r, q
<1>4. h \in Int /\ b \in 0 .. 1 /\ q = b + 2 * h
  BY <1>2
<1> HIDE DEF b, h
<1>5. r + p * b \in 0 .. (p * 2) - 1
  <2>1. b = 0 \/ b = 1
    BY <1>4
  <2> QED
    BY <1>1, <1>2, <2>1
<1>6. v = (r + p * b) + (p * 2) * h
  <2>1. p * (b + 2 * h) = p * b + (p * 2) * h
    BY <1>1, <1>4
  <2>2. p * b \in Int /\ (p * 2) * h \in Int
    BY <1>1, <1>4
  <2> QED
    BY <1>2, <1>4, <2>1, <2>2
<1>7. v % (p * 2) = r + p * b
  <2>1. p * 2 \in Nat \ {0}
    BY <1>1
  <2> QED
    BY <1>4, <1>5, <1>6, <2>1, DivMod
<1> QED
  BY <1>1, <1>3, <1>7 DEF p, r

\* There is a number with the given bits, and so OfBits is one.
LEMMA OfBitsDefined ==
  ASSUME NEW n \in Nat, NEW bits, \A k \in 0 .. n - 1 : bits[k] \in {0, 1}
  PROVE  /\ OfBits(bits, n) \in 0 .. Pow2[n] - 1
         /\ \A k \in 0 .. n - 1 : Bit(OfBits(bits, n), k) = bits[k]
<1> DEFINE HasBits(v, m) == /\ v \in 0 .. Pow2[m] - 1
                            /\ \A k \in 0 .. m - 1 : Bit(v, k) = bits[k]
           S == {m \in Nat : m <= n => \E v : HasBits(v, m)}
<1>1. 0 \in S
  <2>1. HasBits(0, 0)
    BY Pow2Rules
  <2> QED
    BY <2>1, Zenon
<1>2. ASSUME NEW m \in Nat, m \in S PROVE m + 1 \in S
  <2> SUFFICES ASSUME m + 1 <= n PROVE \E v : HasBits(v, m + 1)
    OBVIOUS
  <2>1. PICK v : HasBits(v, m)
    BY <1>2
  <2> DEFINE p == Pow2[m]
             b == bits[m]
             w == v + p * b
  <2>2. p \in Nat \ {0} /\ Pow2[m + 1] = 2 * p /\ b \in {0, 1}
    BY Pow2Rules
  <2>3. v \in 0 .. p - 1
    BY <2>1
  <2>4. w \in 0 .. Pow2[m + 1] - 1
    <3> HIDE DEF p, b
    <3> QED
      BY <2>2, <2>3
  <2>5. ASSUME NEW k \in 0 .. m PROVE Bit(w, k) = bits[k]
    <3>1. CASE k = m
      <4>1. w \div p = b
        <5> HIDE DEF p, b
        <5> QED
          BY <2>2, <2>3, DivMod
      <4> QED
        BY <2>2, <3>1, <4>1 DEF Bit
    <3>2. CASE k < m
      <4>1. k \in Nat /\ v \in Int /\ b \in Int
        BY <2>2, <2>3
      <4>2. Bit(w, k) = Bit(v, k)
        BY <3>2, <4>1, BitOfSum
      <4> QED
        BY <2>1, <3>2, <4>2
    <3> QED
      BY <3>1, <3>2
  <2>6. HasBits(w, m + 1)
    <3> HIDE DEF w
    <3> QED
      BY <2>4, <2>5
  <2> HIDE DEF w, HasBits
  <2> QED
    BY <2>6
<1>3. \A m \in Nat : m \in S
  <2> HIDE DEF S
  <2> QED
    BY <1>1, <1>2, SetInduction
<1>4. \E v : HasBits(v, n)
  BY <1>3
<1> QED
  BY <1>4, Zenon DEF OfBits

-----------------------------------------------------------------------------
(***************************************************************************)
(* The bytes of a word, and the word of its bytes.                         *)
(***************************************************************************)

\* The bytes that spell a word are its bytes.
LEMMA BytesOfFour ==
  ASSUME NEW b, \A k \in 0 .. 3 : b[k] \in Byte, NEW k \in 0 .. 3
  PROVE  ByteOf(FromBytes(b, 4), k) = b[k]
<1> DEFINE B  == ByteMod
           H  == HalfMod
           lo == b[0] + B * b[1]
           hi == b[2] + B * b[3]
           v  == lo + H * hi
<1>1. /\ B \in Nat \ {0} /\ H = B * B /\ H \in Nat \ {0}
      /\ b[0] \in 0 .. B - 1 /\ b[1] \in 0 .. B - 1
      /\ b[2] \in 0 .. B - 1 /\ b[3] \in 0 .. B - 1
  BY ByteModAssumption, ModuliType DEF HalfMod, Byte
<1>2. FromBytes(b, 4) = v
  BY DEF FromBytes
<1>3. /\ ByteOf(v, 0) = (v \div 1) % B /\ ByteOf(v, 1) = (v \div B) % B
      /\ ByteOf(v, 2) = (v \div H) % B /\ ByteOf(v, 3) = (v \div (H * B)) % B
  BY DEF ByteOf, Weight
<1> HIDE DEF B, H
<1>4. ASSUME NEW p \in 0 .. B - 1, NEW q \in 0 .. B - 1
      PROVE  p + B * q \in 0 .. H - 1
  <2>1. B * q \in Int /\ 0 <= B * q /\ B * q <= B * (B - 1)
    BY <1>1, <1>4
  <2>2. B * (B - 1) = H - B
    BY <1>1
  <2> QED
    BY <1>1, <1>4, <2>1, <2>2
<1>5. lo \in 0 .. H - 1 /\ hi \in 0 .. H - 1
  BY <1>1, <1>4
<1>6. CASE k = 0
  <2>1. v = b[0] + B * (b[1] + B * hi)
    <3>1. \A x, y, z \in Int : (x + B * y) + (B * B) * z = x + B * (y + B * z)
      BY <1>1
    <3> QED
      BY <1>1, <1>5, <3>1
  <2>2. b[1] + B * hi \in Int /\ v \in Int
    BY <1>1, <1>5
  <2>3. v % B = b[0]
    <3> HIDE DEF hi, v
    <3> QED
      BY <1>1, <2>1, <2>2, DivMod
  <2>4. v \div 1 = v
    BY <2>2
  <2> QED
    BY <1>2, <1>3, <1>6, <2>3, <2>4
<1>7. CASE k = 1
  <2>1. v = b[0] + B * (b[1] + B * hi)
    <3>1. \A x, y, z \in Int : (x + B * y) + (B * B) * z = x + B * (y + B * z)
      BY <1>1
    <3> QED
      BY <1>1, <1>5, <3>1
  <2>2. b[1] + B * hi \in Int /\ hi \in Int
    BY <1>1, <1>5
  <2> HIDE DEF hi, v
  <2>3. v \div B = b[1] + B * hi
    BY <1>1, <2>1, <2>2, DivMod
  <2>4. (b[1] + B * hi) % B = b[1]
    BY <1>1, <2>2, DivMod
  <2> QED
    BY <1>2, <1>3, <1>7, <2>3, <2>4
<1>8. CASE k = 2
  <2>1. v \div H = hi
    <3>1. v = lo + H * hi /\ hi \in Int
      BY <1>5
    <3> HIDE DEF lo, hi, v
    <3> QED
      BY <1>1, <1>5, <3>1, DivMod
  <2>2. hi % B = b[2]
    <3>1. hi = b[2] + B * b[3] /\ b[3] \in Int
      BY <1>1
    <3> HIDE DEF hi
    <3> QED
      BY <1>1, <3>1, DivMod
  <2> QED
    BY <1>2, <1>3, <1>8, <2>1, <2>2
<1>9. CASE k = 3
  <2> DEFINE low == lo + H * b[2]
  <2>1. v = low + (H * B) * b[3]
    <3>1. \A x, y, z \in Int : x + H * (y + B * z) = (x + H * y) + (H * B) * z
      BY <1>1
    <3> QED
      BY <1>1, <1>5, <3>1
  <2>2. H * B \in Nat \ {0}
    BY <1>1
  <2>3. low \in 0 .. (H * B) - 1
    <3>1. H * b[2] \in Int /\ 0 <= H * b[2] /\ H * b[2] <= H * (B - 1)
      BY <1>1
    <3>2. H * (B - 1) = (H * B) - H
      BY <1>1
    <3> HIDE DEF lo
    <3> QED
      BY <1>1, <1>5, <2>2, <3>1, <3>2
  <2> HIDE DEF low, v
  <2>4. v \div (H * B) = b[3]
    <3> DEFINE W == H * B
    <3>1. v = low + W * b[3] /\ b[3] \in Int /\ W \in Nat \ {0} /\ low \in 0 .. W - 1
      BY <1>1, <2>1, <2>2, <2>3
    <3> HIDE DEF W
    <3>2. v \div W = b[3]
      BY <3>1, DivMod
    <3> QED
      BY <3>2 DEF W
  <2>5. b[3] % B = b[3]
    BY <1>1
  <2> QED
    BY <1>2, <1>3, <1>9, <2>4, <2>5
<1> QED
  BY <1>6, <1>7, <1>8, <1>9

\* The word of one or two bytes with the same byte above them.
Fill(b, n, f) == [k \in 0 .. 3 |-> IF k < n THEN b[k] ELSE f]

LEMMA FilledWord ==
  ASSUME NEW n \in {1, 2}, NEW b \in [0 .. n - 1 -> Byte]
  PROVE  /\ FromBytes(Fill(b, n, 0), 4) = FromBytes(b, n)
         /\ FromBytes(Fill(b, n, ByteMod - 1), 4) =
              FromBytes(b, n) + WordMod - (IF n = 1 THEN ByteMod ELSE HalfMod)
<1> DEFINE B == ByteMod
           H == HalfMod
<1>1. /\ B \in Nat \ {0} /\ H = B * B /\ H \in Nat \ {0} /\ WordMod = H * H
      /\ \A k \in 0 .. n - 1 : b[k] \in 0 .. B - 1
  BY ByteModAssumption, ModuliType DEF HalfMod, WordMod, Byte
<1>2. \A c : FromBytes(c, 4) = c[0] + B * c[1] + H * (c[2] + B * c[3])
  BY DEF FromBytes
<1> HIDE DEF B, H
<1>3. H * ((B - 1) + B * (B - 1)) = H * H - H
  <2>1. (B - 1) + B * (B - 1) = H - 1
    BY <1>1
  <2>2. H * (H - 1) = H * H - H
    BY <1>1
  <2> QED
    BY <2>1, <2>2
<1>4. CASE n = 1
  <2>1. FromBytes(b, n) = b[0] /\ b[0] \in Int
    BY <1>1, <1>4 DEF FromBytes
  <2>2. ASSUME NEW f \in Int
        PROVE  FromBytes(Fill(b, n, f), 4) = b[0] + B * f + H * (f + B * f)
    <3> DEFINE c == Fill(b, n, f)
    <3>1. c[0] = b[0] /\ c[1] = f /\ c[2] = f /\ c[3] = f
      BY <1>4 DEF Fill
    <3> HIDE DEF c
    <3> QED
      BY <1>2, <3>1 DEF c
  <2>3. B * 0 = 0 /\ H * (0 + B * 0) = 0
    BY <1>1
  <2>4. B * (B - 1) = H - B
    BY <1>1
  <2>5. FromBytes(Fill(b, n, 0), 4) = b[0]
    BY <2>1, <2>2, <2>3
  <2>6. FromBytes(Fill(b, n, B - 1), 4) = b[0] + (H - B) + (H * H - H)
    BY <1>1, <1>3, <2>2, <2>4
  <2>7. H * H \in Int
    BY <1>1
  <2> QED
    BY <1>1, <1>4, <2>1, <2>5, <2>6, <2>7 DEF B, H
<1>5. CASE n = 2
  <2>1. FromBytes(b, n) = b[0] + B * b[1] /\ b[0] + B * b[1] \in Int
    BY <1>1, <1>5 DEF FromBytes, B
  <2>2. ASSUME NEW f \in Int
        PROVE  FromBytes(Fill(b, n, f), 4) = b[0] + B * b[1] + H * (f + B * f)
    <3> DEFINE c == Fill(b, n, f)
    <3>1. c[0] = b[0] /\ c[1] = b[1] /\ c[2] = f /\ c[3] = f
      BY <1>5 DEF Fill
    <3> HIDE DEF c
    <3> QED
      BY <1>2, <3>1 DEF c
  <2>3. H * (0 + B * 0) = 0
    BY <1>1
  <2>4. FromBytes(Fill(b, n, 0), 4) = b[0] + B * b[1]
    BY <2>1, <2>2, <2>3
  <2>5. FromBytes(Fill(b, n, B - 1), 4) = b[0] + B * b[1] + (H * H - H)
    BY <1>1, <1>3, <2>2
  <2>6. H * H \in Int
    BY <1>1
  <2> QED
    BY <1>1, <1>5, <2>1, <2>4, <2>5, <2>6 DEF B, H
<1> QED
  BY <1>4, <1>5

\* Sign extension fills with the sign of the most significant byte.
LEMMA SignFills ==
  ASSUME NEW n \in {1, 2}, NEW b \in [0 .. n - 1 -> Byte]
  PROVE  Wrap(SignExtend(FromBytes(b, n), IF n = 1 THEN ByteMod ELSE HalfMod)) =
           FromBytes(Fill(b, n, IF 2 * b[n - 1] >= ByteMod THEN ByteMod - 1 ELSE 0), 4)
<1> DEFINE B   == ByteMod
           H   == HalfMod
           mod == IF n = 1 THEN B ELSE H
           v   == FromBytes(b, n)
           top == b[n - 1]
<1>1. /\ B \in Nat \ {0} /\ B % 2 = 0 /\ H = B * B /\ H \in Nat \ {0}
      /\ B <= H /\ H <= WordMod /\ WordMod \in Nat
      /\ \A k \in 0 .. n - 1 : b[k] \in 0 .. B - 1
  <2>1. /\ B \in Nat \ {0} /\ B % 2 = 0 /\ H = B * B /\ H \in Nat \ {0}
        /\ WordMod \in Nat /\ WordMod = H * H
        /\ \A k \in 0 .. n - 1 : b[k] \in 0 .. B - 1
    BY ByteModAssumption, ModuliType DEF HalfMod, WordMod, Byte
  <2> HIDE DEF B, H
  <2>2. \A m \in Nat \ {0} : m <= m * m
    OBVIOUS
  <2> QED
    BY <2>1, <2>2
<1>2. top \in 0 .. B - 1 /\ mod \in Nat \ {0} /\ mod <= WordMod
  BY <1>1
<1>3. v \in Int /\ 0 <= v /\ v < mod /\ (2 * v >= mod <=> 2 * top >= B)
  <2>1. CASE n = 1
    <3>1. b[0] \in 0 .. B - 1
      BY <1>1, <2>1
    <3>2. v = b[0]
      BY <1>1, <2>1, <3>1 DEF FromBytes
    <3>3. top = b[0] /\ mod = B
      BY <2>1
    <3> QED
      BY <1>1, <3>1, <3>2, <3>3
  <2>2. CASE n = 2
    <3> DEFINE t == B * b[1]
    <3>1. b[0] \in 0 .. B - 1 /\ b[1] \in 0 .. B - 1
      BY <1>1, <2>2
    <3>2. t \in Int /\ 0 <= t /\ t <= H - B
      <4>1. B * b[1] <= B * (B - 1) /\ B * (B - 1) = H - B
        BY <1>1, <3>1
      <4> QED
        BY <1>1, <3>1, <4>1
    <3>3. v = b[0] + t
      BY <1>1, <2>2, <3>1, <3>2 DEF FromBytes, B
    <3>4. top = b[1] /\ mod = H
      BY <2>2
    <3>5. 2 * b[1] >= B => 2 * t >= H
      <4> SUFFICES ASSUME 2 * b[1] >= B PROVE 2 * t >= H
        OBVIOUS
      <4>1. B * (2 * b[1]) >= B * B
        BY <1>1, <3>1
      <4>2. B * (2 * b[1]) = 2 * t
        BY <1>1, <3>1
      <4> QED
        BY <1>1, <4>1, <4>2
    <3>6. 2 * b[1] < B => 2 * t <= H - 2 * B
      <4> SUFFICES ASSUME 2 * b[1] < B PROVE 2 * t <= H - 2 * B
        OBVIOUS
      <4>1. 2 * b[1] <= B - 2
        BY <1>1, <3>1
      <4>2. B * (2 * b[1]) <= B * (B - 2)
        <5>1. B \in Nat /\ 2 * b[1] \in Int /\ B - 2 \in Int
          BY <1>1, <3>1
        <5> HIDE DEF B
        <5> QED
          BY <4>1, <5>1, TimesMonotone
      <4>3. B * (2 * b[1]) = 2 * t /\ B * (B - 2) = H - 2 * B
        BY <1>1, <3>1
      <4> QED
        BY <4>2, <4>3
    <3> HIDE DEF v, top, mod, t, B, H
    <3> QED
      BY <1>1, <3>1, <3>2, <3>3, <3>4, <3>5, <3>6
  <2> QED
    BY <2>1, <2>2
<1>4. CASE 2 * top >= B
  <2>1. SignExtend(v, mod) = v - mod
    BY <1>2, <1>3, <1>4 DEF SignExtend
  <2>2. Wrap(v - mod) = v - mod + WordMod
    <3> HIDE DEF v, mod
    <3> QED
      BY <1>1, <1>2, <1>3, WrapBorrow
  <2>3. FromBytes(Fill(b, n, B - 1), 4) = v + WordMod - mod
    BY FilledWord
  <2>4. v - mod + WordMod = v + WordMod - mod
    BY <1>1, <1>2, <1>3
  <2> QED
    BY <1>4, <2>1, <2>2, <2>3, <2>4
<1>5. CASE ~(2 * top >= B)
  <2>1. SignExtend(v, mod) = v
    BY <1>2, <1>3, <1>5 DEF SignExtend
  <2>2. Wrap(v) = v
    BY <1>1, <1>2, <1>3, WrapSmall DEF Word
  <2>3. FromBytes(Fill(b, n, 0), 4) = v
    BY FilledWord
  <2> QED
    BY <1>5, <2>1, <2>2, <2>3
<1> QED
  BY <1>4, <1>5
=============================================================================
