-------------------------------- MODULE Bits --------------------------------
(***************************************************************************)
(* The bits of machine integers, for what C does bit by bit: the shifts and *)
(* masks of the decoder and of dispatch.c.                                 *)
(***************************************************************************)
EXTENDS Integers

Pow2[n \in Nat] == IF n = 0 THEN 1 ELSE 2 * Pow2[n - 1]

\* Bit k of v, of a negative v in two's complement.
Bit(v, k) == (v \div Pow2[k]) % 2

\* The number below 2^n whose n bits are given.
OfBits(bits, n) ==
  CHOOSE v \in 0 .. Pow2[n] - 1 : \A k \in 0 .. n - 1 : Bit(v, k) = bits[k]
=============================================================================
