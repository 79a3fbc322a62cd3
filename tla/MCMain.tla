------------------------------- MODULE MCMain -------------------------------
(***************************************************************************)
(* The main loop on programs of MCEmulator's control-transfer words that    *)
(* reach, skip or loop over the breakpoint at the second instruction, end  *)
(* in each way a run can end there, or never end.                          *)
(***************************************************************************)
EXTENDS Main, MCEmulator

MainImages == Programs({0, 3, 5, 9, 13}, {5, 6, 11, 12})
=============================================================================
