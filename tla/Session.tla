------------------------------ MODULE Session ------------------------------
(***************************************************************************)
(* What a run of the emulator promises its user: the program runs; the     *)
(* first time it executes the instruction at the breakpoint it stops there *)
(* and asks the user before it executes another; it does so once; and it   *)
(* ends, or the process dies.                                              *)
(***************************************************************************)
VARIABLES
  stage,     \* where the run is
  reached    \* the instruction at the breakpoint was executed

vars == <<stage, reached>>

Init == stage = "running" /\ reached = FALSE

Reach ==
  /\ stage = "running" /\ ~reached
  /\ stage' = "hit" /\ reached' = TRUE

Prompt == stage = "hit" /\ stage' = "prompting" /\ reached' = reached

Continue == stage = "prompting" /\ stage' = "running" /\ reached' = reached

End == stage = "running" /\ stage' = "ended" /\ reached' = reached

\* The process may die of any instruction, the one at the breakpoint included.
Die ==
  /\ stage \in {"running", "prompting"}
  /\ stage' = "dead"
  /\ reached' \in {reached, TRUE}

Next == Reach \/ Prompt \/ Continue \/ End \/ Die

\* A stop is not lost on its way to the user.
Spec == Init /\ [][Next]_vars /\ WF_vars(Prompt)
=============================================================================
