------------------------------ MODULE FloatOps ------------------------------
(***************************************************************************)
(* The floating-point instructions as the switches of rvemu_dispatch group *)
(* them: nearly all select single or double on insn.funct, and differ in   *)
(* what becomes of an instruction whose funct is neither.                  *)
(***************************************************************************)
EXTENDS Integers

SINGLE == 2
DOUBLE == 3
Widths == {SINGLE, DOUBLE}

Arithmetic ==
  {"FADDx", "FSUBx", "FMULx", "FDIVx", "FMADDx", "FMSUBx", "FNMSUBx",
   "FNMADDx", "FSQRTx", "FSGNJx", "FSGNJNx", "FSGNJXx"}
MinMax      == {"FMINx", "FMAXx"}
Comparisons == {"FEQx", "FLTx", "FLEx"}
FromInt     == {"FCVT_x_W", "FCVT_x_WU"}
ToInt       == {"FCVT_W_x", "FCVT_WU_x"}
Conversions == {"FCVT_S_D", "FCVT_D_S"}

\* The switches whose default is __builtin_unreachable, and those without one.
WidthRequired == Arithmetic \cup FromInt \cup ToInt \cup {"FLx", "FSx"}
WidthOptional == MinMax \cup Comparisons

FloatTypes ==
  WidthRequired \cup WidthOptional \cup Conversions
    \cup {"FMV_X_W", "FMV_W_X", "FCLASSx"}
=============================================================================
