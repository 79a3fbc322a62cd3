----------------------------- MODULE MCDecoder -----------------------------
(***************************************************************************)
(* The decoder on words with every function code, every opcode it knows    *)
(* and three it does not, and register fields that set every bit.          *)
(***************************************************************************)
EXTENDS Decoding

Opcodes == UNION {Formats[f] : f \in DOMAIN Formats} \cup {0, 87, 127}

Registers ==
  {<<0, 0, 0>>, <<1, 2, 3>>, <<31, 16, 1>>, <<0, 0, 1>>, <<30, 31, 31>>}

MCWords ==
  {[opcode |-> op, rd |-> r[1], funct3 |-> f3, rs1 |-> r[2], rs2 |-> r[3],
    funct7 |-> f7] : op \in Opcodes, r \in Registers, f3 \in U3, f7 \in U7}
=============================================================================
