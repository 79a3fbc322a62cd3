-------------------------------- MODULE Bkpt --------------------------------
(***************************************************************************)
(* The breakpoint table of a hart (bkpt.h, bkpt.c): a fixed array of       *)
(* events.  rvemu_dispatch checks every event against the instruction it   *)
(* is about to execute, and the main loop polls for one that triggered.    *)
(***************************************************************************)
EXTENDS Words

CONSTANTS
  NSlots,       \* RV32_FEATURE_BKPT__MAX_BKPT: 16 in the program
  Instructions  \* the decoded instructions

ASSUME SlotsAssumption == NSlots \in Nat

Slots == 1 .. NSlots

Comparators == {"NONE", "GT", "LT", "EQ"}

\* struct rvbkpt_ev.  insn_cond is the set of instructions that its mask and
\* comparand select: none when insn_comp.insn_ty is RV_INSN__INVALID.
Events ==
  [pc_cond   : [comp : Comparators, sign : BOOLEAN, val : Word],
   insn_cond : SUBSET Instructions,
   one_shot  : BOOLEAN,
   active    : BOOLEAN,
   triggered : BOOLEAN]

VARIABLE bkpt_ev_arr    \* state->bkpt_ev_arr

\* Mutant of NoEvent: a table that was not zeroed.
UnsetEvent ==
  [pc_cond |-> [comp |-> "UNSET", sign |-> FALSE, val |-> 0], insn_cond |-> {},
   one_shot |-> FALSE, active |-> FALSE, triggered |-> FALSE]

\* A slot of the array that rvstate_init leaves zeroed.
NoEvent ==
  [pc_cond |-> [comp |-> "NONE", sign |-> FALSE, val |-> 0], insn_cond |-> {},
   one_shot |-> FALSE, active |-> FALSE, triggered |-> FALSE]

PcMatches(cond, pc) ==
  LET p == IF cond.sign THEN Signed(pc) ELSE pc
      v == IF cond.sign THEN Signed(cond.val) ELSE cond.val
  IN  \/ cond.comp = "GT" /\ p > v
      \/ cond.comp = "LT" /\ p < v
      \/ cond.comp = "EQ" /\ p = v

\* The condition on the pc, when there is one, replaces the one on the
\* instruction.
Matches(ev, insn, pc) ==
  IF ev.pc_cond.comp = "NONE" THEN insn \in ev.insn_cond
  ELSE PcMatches(ev.pc_cond, pc)

-----------------------------------------------------------------------------
\* Mutants of CheckEvent: a trigger is never cleared; both conditions must hold.
CheckSticky(ev, insn, pc) ==
  IF ev.active
  THEN [ev EXCEPT !.triggered = ev.triggered \/ Matches(ev, insn, pc)]
  ELSE ev
CheckBoth(ev, insn, pc) ==
  IF ev.active
  THEN [ev EXCEPT !.triggered = /\ ~ev.triggered
                                /\ insn \in ev.insn_cond
                                /\ Matches(ev, insn, pc)]
  ELSE ev

\* An event that is still triggered is cleared and not compared at all.
CheckEvent(ev, insn, pc) ==
  IF ev.active
  THEN [ev EXCEPT !.triggered = ~ev.triggered /\ Matches(ev, insn, pc)]
  ELSE ev

\* rvbkpt_check_insn
CheckInsn(insn, pc) ==
  bkpt_ev_arr' = [s \in Slots |-> CheckEvent(bkpt_ev_arr[s], insn, pc)]

Fires(s) == bkpt_ev_arr[s].active /\ bkpt_ev_arr[s].triggered

\* Mutants of PollHit: every event is over when it is returned; none is.
PollEndsAll(s) ==
  /\ Fires(s)
  /\ \A t \in 1 .. s - 1 : ~Fires(t)
  /\ bkpt_ev_arr' = [bkpt_ev_arr EXCEPT ![s].active = FALSE]
PollEndsNone(s) ==
  /\ Fires(s)
  /\ \A t \in 1 .. s - 1 : ~Fires(t)
  /\ UNCHANGED bkpt_ev_arr

\* rvbkpt_poll returns the first event that fires, and leaves it triggered;
\* a one-shot event is over.
PollHit(s) ==
  /\ Fires(s)
  /\ \A t \in 1 .. s - 1 : ~Fires(t)
  /\ bkpt_ev_arr' = [bkpt_ev_arr EXCEPT ![s].active = ~bkpt_ev_arr[s].one_shot]

\* Mutant of PollMiss: a poll that gives up.
PollGivesUp == UNCHANGED bkpt_ev_arr

PollMiss == (\A s \in Slots : ~Fires(s)) /\ UNCHANGED bkpt_ev_arr

\* rvbkpt_add takes the first slot that is not active, or drops the event.
AddTo(s, ev) ==
  /\ ~bkpt_ev_arr[s].active
  /\ \A t \in 1 .. s - 1 : bkpt_ev_arr[t].active
  /\ bkpt_ev_arr' = [bkpt_ev_arr EXCEPT ![s] = ev]

AddDropped == (\A s \in Slots : bkpt_ev_arr[s].active) /\ UNCHANGED bkpt_ev_arr
=============================================================================
