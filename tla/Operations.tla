----------------------------- MODULE Operations -----------------------------
(***************************************************************************)
(* The register-register instructions of RV32I and of the M extension, and *)
(* the operands on which the host has no result for them.                  *)
(***************************************************************************)
EXTENDS Words

RegOps ==
  {"ADD", "SUB", "SLL", "SLT", "SLTU", "XOR", "SRL", "SRA", "OR", "AND",
   "MUL", "MULH", "MULHSU", "MULHU", "DIV", "DIVU", "REM", "REMU"}

Divisions == {"DIV", "DIVU", "REM", "REMU"}

\* The host's division instruction raises SIGFPE on these operands.
DivTraps(op, a, b) ==
  \/ op \in Divisions /\ b = 0
  \/ op \in {"DIV", "REM"} /\ 2 * a = WordMod /\ b = WordMod - 1
=============================================================================
