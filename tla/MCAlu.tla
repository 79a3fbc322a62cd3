------------------------------- MODULE MCAlu -------------------------------
(***************************************************************************)
(* AluUnit on every pair of four-bit words: every carry, sign, wrap-around *)
(* and shift distance occurs.                                              *)
(***************************************************************************)
EXTENDS AluUnit
=============================================================================
