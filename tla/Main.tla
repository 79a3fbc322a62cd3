-------------------------------- MODULE Main --------------------------------
(***************************************************************************)
(* The emulator's main loop and debugger prompt (main.c:58-177), composed   *)
(* of the hart (Emulator) and its breakpoint table (Bkpt).  The loop steps *)
(* the hart and polls the table after each step; a breakpoint that fired   *)
(* gives the user a prompt, whose step command steps the hart as well.     *)
(***************************************************************************)
EXTENDS Emulator, Bkpt

CONSTANT EntryBreak    \* the pc that main() breaks at: 0x10954

\* The breakpoint of main() has a slot.
ASSUME EntryBreakAssumption == EntryBreak \in Word /\ NSlots >= 1

VARIABLES
  phase,     \* where main() is: "loop", "poll", "prompt" or "done"
  reached    \* history: the instruction at EntryBreak was dispatched

mainVars == <<vars, bkpt_ev_arr, phase, reached>>

entry_bkpt ==
  [pc_cond |-> [comp |-> "EQ", sign |-> FALSE, val |-> EntryBreak],
   insn_cond |-> {}, one_shot |-> TRUE, active |-> TRUE, triggered |-> FALSE]

MainInit ==
  /\ Init
  /\ bkpt_ev_arr = [[s \in Slots |-> NoEvent] EXCEPT ![1] = entry_bkpt]
  /\ phase = "loop"
  /\ reached = FALSE

-----------------------------------------------------------------------------
(***************************************************************************)
(* rvemu_step as its callers see it: it dispatches an instruction, which   *)
(* checks the breakpoints first, and returns true; or it returns false; or *)
(* it does not return.                                                     *)
(***************************************************************************)
StepTrue ==
  /\ CanStep
  /\ \E i \in Fetched : Dispatch(i) /\ CheckInsn(i, pc)
  /\ reached' = (reached \/ pc = EntryBreak)

StepFalse ==
  /\ CanStep
  /\ \E i \in Fetched : Reject(i)
  /\ UNCHANGED <<bkpt_ev_arr, reached>>

StepDies ==
  /\ CanStep
  /\ Dies
  /\ UNCHANGED <<bkpt_ev_arr, reached>>

-----------------------------------------------------------------------------
LoopStep == phase = "loop" /\ StepTrue /\ phase' = "poll"

LoopReject == phase = "loop" /\ StepFalse /\ phase' = "done"

LoopDies == phase = "loop" /\ StepDies /\ phase' = phase

\* rvemu_step returns false at once: the loop ends.
LoopSuspended ==
  /\ phase = "loop" /\ host = "running" /\ suspended
  /\ phase' = "done"
  /\ UNCHANGED <<vars, bkpt_ev_arr, reached>>

LoopPoll ==
  /\ phase = "poll" /\ host = "running"
  /\ \/ PollMiss /\ phase' = "loop"
     \/ (\E s \in Slots : PollHit(s)) /\ phase' = "prompt"
  /\ UNCHANGED <<vars, reached>>

\* The command c, or the end of the input.
UserContinue ==
  /\ phase = "prompt" /\ host = "running"
  /\ phase' = "loop"
  /\ UNCHANGED <<vars, bkpt_ev_arr, reached>>

\* The command s: the result of the step is ignored and the table is not
\* polled.  (With a suspended hart it changes nothing, as r never does.)
UserStep ==
  /\ phase = "prompt"
  /\ StepTrue \/ StepFalse \/ StepDies
  /\ phase' = phase

MainLoop == LoopStep \/ LoopReject \/ LoopDies \/ LoopSuspended \/ LoopPoll

MainNext == MainLoop \/ UserContinue \/ UserStep

\* The process runs, and the user's input ends or says c at last.
MainSpec ==
  /\ MainInit /\ [][MainNext]_mainVars
  /\ WF_mainVars(MainLoop) /\ WF_mainVars(UserContinue)

-----------------------------------------------------------------------------
(***************************************************************************)
(* Properties.                                                             *)
(***************************************************************************)
Phases == {"loop", "poll", "prompt", "done"}

MainTypeOK ==
  /\ TypeOK
  /\ bkpt_ev_arr \in [Slots -> Events]
  /\ phase \in Phases
  /\ reached \in BOOLEAN

\* Before every instruction the loop executes, the breakpoint is armed if and
\* only if its instruction was never executed: no step misses it, and no poll
\* leaves it armed (bkpt.c:18-19, 78; main.c:159-167).
ArmedUntilReached ==
  phase = "loop" /\ host = "running" => bkpt_ev_arr[1].active = ~reached

\* The stage of the session a state of main() stands for.
Stage ==
  IF host # "running" THEN "dead"
  ELSE IF phase = "prompt" THEN "prompting"
  ELSE IF phase = "done" THEN "ended"
  ELSE IF \E s \in Slots : Fires(s) THEN "hit"
  ELSE "running"

\* The loop keeps the promise of Session.
TheSession == INSTANCE Session WITH stage <- Stage
SessionKept == TheSession!Spec

\* Whatever suspends the hart ends the run: a suspended hart executes nothing,
\* in the loop or at the prompt, until the loop is over (emu.c:80-81).
SuspensionEnds == suspended /\ host = "running" ~> phase = "done"

\* "Breakpoint hit at 0x%x" (main.c:62) names the pc of the breakpoint.
HitAtItsPc ==
  [][\A s \in Slots :
       phase = "poll" /\ PollHit(s) => PcMatches(bkpt_ev_arr[s].pc_cond, pc)
    ]_mainVars
=============================================================================
