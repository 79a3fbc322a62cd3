------------------------------ MODULE BkptApi ------------------------------
(***************************************************************************)
(* The breakpoint table under any caller of its three functions, in any    *)
(* order: events are added before and during a run, and some instructions  *)
(* are dispatched with no poll after them, as the step command of the      *)
(* debugger prompt does.  Three history variables say what happened.       *)
(***************************************************************************)
EXTENDS Bkpt

CONSTANT Requests    \* the events callers register

ASSUME RequestsAssumption ==
  /\ Requests \subseteq Events
  /\ \A ev \in Requests : ev.active /\ ~ev.triggered

VARIABLES
  last,      \* the instruction dispatched last, and its pc
  misses,    \* per slot: matching instructions in a row that did not trigger
  handled    \* the slots polled since the last dispatch

vars == <<bkpt_ev_arr, last, misses, handled>>

Init ==
  /\ bkpt_ev_arr = [s \in Slots |-> NoEvent]
  /\ last \in [insn : Instructions, pc : Word]
  /\ misses = [s \in Slots |-> 0]
  /\ handled = {}

Add ==
  \E ev \in Requests :
    \/ \E s \in Slots :
         /\ AddTo(s, ev)
         /\ misses' = [misses EXCEPT ![s] = 0]
         /\ handled' = handled \ {s}
         /\ last' = last
    \/ AddDropped /\ UNCHANGED <<last, misses, handled>>

Dispatch ==
  \E insn \in Instructions, pc \in Word :
    /\ CheckInsn(insn, pc)
    /\ last' = [insn |-> insn, pc |-> pc]
    /\ misses' =
         [s \in Slots |->
            LET ev == bkpt_ev_arr[s]
            IN  IF /\ ev.active /\ Matches(ev, insn, pc)
                   /\ ~bkpt_ev_arr'[s].triggered
                THEN misses[s] + 1 ELSE 0]
    /\ handled' = {}

Poll ==
  \/ \E s \in Slots : PollHit(s) /\ handled' = handled \cup {s}
                        /\ UNCHANGED <<last, misses>>
  \/ PollMiss /\ UNCHANGED <<last, misses, handled>>

Next == Add \/ Dispatch \/ Poll

Spec == Init /\ [][Next]_vars

-----------------------------------------------------------------------------
TypeOK ==
  /\ bkpt_ev_arr \in [Slots -> Events]
  /\ last \in [insn : Instructions, pc : Word]
  /\ misses \in [Slots -> Nat]
  /\ handled \in SUBSET Slots

\* What a poll may return concerns the instruction dispatched last: a trigger
\* never outlives the next check (bkpt.c:34-39), nor does it come back with a
\* slot that a one-shot event left triggered (bkpt.c:18-19, 91).
TriggersAreFresh ==
  \A s \in Slots :
    Fires(s) => Matches(bkpt_ev_arr[s], last.insn, last.pc)

\* The check that clears a trigger does not compare (bkpt.c:34-39), so an event
\* may miss a matching instruction, but never two in a row.
NoTwoMisses == \A s \in Slots : misses[s] <= 1

\* A registration is kept: while a slot is active its conditions stay what they
\* were, and it is given up only by the poll that returns a one-shot event.
Kept ==
  \A s \in Slots :
    LET old == bkpt_ev_arr[s]
        new == bkpt_ev_arr'[s]
    IN  old.active =>
          /\ new = [old EXCEPT !.active = new.active,
                               !.triggered = new.triggered]
          /\ ~new.active => old.one_shot /\ s \in handled' \ handled

RegistrationsKept == [][Kept]_vars

\* "If bkpt. is unhandled by next check-iteration, clear it." (bkpt.c:36): a
\* trigger that a poll did hand over is not one that the check drops, and the
\* event is compared with the next instruction like any other.
HandledIsCompared ==
  [][\A s \in handled :
       bkpt_ev_arr[s].active /\ last' # last =>
         bkpt_ev_arr'[s].triggered =
           Matches(bkpt_ev_arr[s], last'.insn, last'.pc)]_vars
=============================================================================
