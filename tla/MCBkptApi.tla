----------------------------- MODULE MCBkptApi -----------------------------
(***************************************************************************)
(* Two slots, four requests that compete for them (one of them one-shot,   *)
(* one signed, one with both conditions), two instructions and every pc of *)
(* a sixteen-value word.                                                   *)
(***************************************************************************)
EXTENDS BkptApi

CONSTANTS nop, store

MCInstructions == {nop, store}

Request(comp, sign, val, insns, one_shot) ==
  [pc_cond |-> [comp |-> comp, sign |-> sign, val |-> val],
   insn_cond |-> insns, one_shot |-> one_shot,
   active |-> TRUE, triggered |-> FALSE]

MCRequests ==
  {Request("EQ", FALSE, 4, {}, TRUE),
   Request("GT", TRUE, 12, {store}, FALSE),
   Request("LT", FALSE, 4, {}, FALSE),
   Request("NONE", FALSE, 0, {store}, FALSE)}
=============================================================================
