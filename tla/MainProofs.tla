----------------------------- MODULE MainProofs -----------------------------
(***************************************************************************)
(* The main loop for every program, every breakpoint and every number of   *)
(* slots: the hart keeps its invariant under the loop and the prompt, the  *)
(* one breakpoint is armed until its instruction was executed, and every   *)
(* step is one that Session allows and that shows the guest nothing but    *)
(* its own hart.                                                           *)
(***************************************************************************)
EXTENDS Main, IsaProofs, BkptTheorems

Armed     == bkpt_ev_arr[1].active
Triggered == bkpt_ev_arr[1].triggered

\* Only the first slot is ever used, for the breakpoint of main().
TableInv ==
  /\ bkpt_ev_arr \in [Slots -> Events]
  /\ bkpt_ev_arr[1].pc_cond = entry_bkpt.pc_cond
  /\ bkpt_ev_arr[1].one_shot
  /\ \A s \in Slots : s # 1 => ~bkpt_ev_arr[s].active

\* What the breakpoint tells in each phase of a process that still runs.
StageInv ==
  host = "running" =>
    /\ phase = "loop" => Armed = ~reached /\ (Armed => ~Triggered)
    /\ phase = "poll" => (Armed => Triggered = reached) /\ (~Armed => reached)
    /\ phase = "prompt" => ~Armed /\ reached

MainInv ==
  /\ IInv
  /\ TableInv
  /\ phase \in Phases /\ reached \in BOOLEAN
  /\ StageInv

-----------------------------------------------------------------------------
(***************************************************************************)
(* The calls of the loop.                                                  *)
(***************************************************************************)
LEMMA FirstSlot == 1 \in Slots
BY EntryBreakAssumption, SlotsAssumption DEF Slots

LEMMA EventType ==
  ASSUME TableInv
  PROVE  Armed \in BOOLEAN /\ Triggered \in BOOLEAN
BY FirstSlot DEF TableInv, Events, Armed, Triggered

\* A step of the hart keeps the invariant of the hart.
LEMMA StepKeeps ==
  ASSUME IInv, StepTrue \/ StepFalse \/ StepDies
  PROVE  IInv'
<1>1. Step
  BY DEF StepTrue, StepFalse, StepDies, Step
<1> QED
  BY <1>1, NextInv DEF Next

LEMMA EntryMatches ==
  ASSUME TableInv, NEW i
  PROVE  Matches(bkpt_ev_arr[1], i, pc) <=> pc = EntryBreak
BY DEF TableInv, entry_bkpt, Matches, PcMatches

\* A step that returns true triggers the breakpoint if it is armed, was not
\* triggered before, and stands at the pc.
LEMMA StepChecks ==
  ASSUME TableInv, StepTrue
  PROVE  /\ TableInv'
         /\ Armed' = Armed
         /\ Armed => (Triggered' <=> ~Triggered /\ pc = EntryBreak)
<1>1. PICK i \in Fetched : CheckInsn(i, pc)
  BY DEF StepTrue
<1>2. /\ bkpt_ev_arr' \in [Slots -> Events]
      /\ \A s \in Slots :
           /\ bkpt_ev_arr'[s].active = bkpt_ev_arr[s].active
           /\ bkpt_ev_arr'[s].pc_cond = bkpt_ev_arr[s].pc_cond
           /\ bkpt_ev_arr'[s].one_shot = bkpt_ev_arr[s].one_shot
           /\ bkpt_ev_arr'[s].triggered =
                IF bkpt_ev_arr[s].active
                THEN ~bkpt_ev_arr[s].triggered /\ Matches(bkpt_ev_arr[s], i, pc)
                ELSE bkpt_ev_arr[s].triggered
  BY <1>1, CheckedTable DEF TableInv
<1>3. TableInv'
  BY <1>2, FirstSlot DEF TableInv, entry_bkpt
<1>4. Armed' = Armed
  BY <1>2, FirstSlot DEF Armed
<1>5. Triggered' = IF Armed THEN ~Triggered /\ Matches(bkpt_ev_arr[1], i, pc)
                   ELSE Triggered
  BY <1>2, FirstSlot DEF Armed, Triggered
<1>6. Armed => (Triggered' <=> ~Triggered /\ pc = EntryBreak)
  BY <1>5, EntryMatches, Zenon
<1> QED
  BY <1>3, <1>4, <1>6

\* No other event fires.
LEMMA OnlyEntryFires ==
  ASSUME TableInv
  PROVE  (\E s \in Slots : Fires(s)) <=> Armed /\ Triggered
BY FirstSlot DEF TableInv, Fires, Armed, Triggered

LEMMA PollEnds ==
  ASSUME TableInv, NEW s \in Slots, PollHit(s)
  PROVE  s = 1 /\ Armed /\ Triggered /\ TableInv' /\ ~Armed'
<1>1. /\ bkpt_ev_arr' \in [Slots -> Events]
      /\ bkpt_ev_arr[s].active /\ bkpt_ev_arr[s].triggered
      /\ bkpt_ev_arr'[s].active = ~bkpt_ev_arr[s].one_shot
      /\ bkpt_ev_arr'[s].pc_cond = bkpt_ev_arr[s].pc_cond
      /\ bkpt_ev_arr'[s].one_shot = bkpt_ev_arr[s].one_shot
      /\ \A t \in Slots : t # s => bkpt_ev_arr'[t] = bkpt_ev_arr[t]
  BY PolledTable DEF TableInv
<1>2. s = 1
  BY <1>1 DEF TableInv
<1>3. TableInv'
  BY <1>1, <1>2 DEF TableInv, entry_bkpt
<1> QED
  BY <1>1, <1>2, <1>3 DEF TableInv, Armed, Triggered

-----------------------------------------------------------------------------
(***************************************************************************)
(* The steps of the loop and the prompt.                                   *)
(***************************************************************************)
LEMMA MainInitInv == MainInit => MainInv
<1> SUFFICES ASSUME MainInit PROVE MainInv
  OBVIOUS
<1>1. IInv
  BY InitInv DEF MainInit
<1>2. 0 \in Word /\ EntryBreak \in Word
  BY ModuliType, EntryBreakAssumption DEF Word
<1>3. NoEvent \in Events /\ ~NoEvent.active
  BY <1>2 DEF NoEvent, Events, Comparators
<1>4. /\ entry_bkpt \in Events /\ entry_bkpt.active /\ entry_bkpt.one_shot
      /\ ~entry_bkpt.triggered
  BY <1>2 DEF entry_bkpt, Events, Comparators
<1>5. bkpt_ev_arr = [[s \in Slots |-> NoEvent] EXCEPT ![1] = entry_bkpt]
  BY DEF MainInit
<1> HIDE DEF entry_bkpt
<1>6. /\ bkpt_ev_arr \in [Slots -> Events] /\ bkpt_ev_arr[1] = entry_bkpt
      /\ \A s \in Slots : s # 1 => bkpt_ev_arr[s] = NoEvent
  BY <1>3, <1>4, <1>5, FirstSlot
<1>7. TableInv
  BY <1>3, <1>4, <1>6 DEF TableInv
<1>8. Armed = TRUE /\ ~Triggered
  BY <1>4, <1>6, EventType, <1>7 DEF Armed, Triggered
<1> QED
  BY <1>1, <1>7, <1>8 DEF MainInit, MainInv, StageInv, Phases

\* A step of the loop leaves the breakpoint as the poll expects it.
LEMMA LoopStepInv == ASSUME MainInv, LoopStep PROVE MainInv'
<1>1. IInv'
  BY StepKeeps DEF LoopStep, MainInv
<1>2. /\ TableInv' /\ Armed' = Armed
      /\ Armed => (Triggered' <=> ~Triggered /\ pc = EntryBreak)
  BY StepChecks DEF LoopStep, MainInv
<1>3. /\ phase = "loop" /\ phase' = "poll" /\ host = "running"
      /\ reached' = (reached \/ pc = EntryBreak)
  BY DEF LoopStep, StepTrue, CanStep
<1>4. Armed = ~reached /\ (Armed => ~Triggered) /\ reached \in BOOLEAN
  BY <1>3 DEF MainInv, StageInv
<1>5. Armed' \in BOOLEAN /\ Triggered' \in BOOLEAN
  BY <1>2, EventType, FirstSlot DEF TableInv, Events, Armed, Triggered
<1>6. (Armed' => Triggered' = reached') /\ (~Armed' => reached')
  BY <1>2, <1>3, <1>4, <1>5
<1> QED
  BY <1>1, <1>2, <1>3, <1>4, <1>6 DEF MainInv, StageInv, Phases

\* The steps that leave the table alone.
LEMMA TableFrame ==
  ASSUME MainInv, UNCHANGED <<bkpt_ev_arr, reached>>
  PROVE  /\ TableInv' /\ reached' \in BOOLEAN
         /\ Armed' = Armed /\ Triggered' = Triggered /\ reached' = reached
BY DEF MainInv, TableInv, entry_bkpt, Armed, Triggered

LEMMA RejectInv == ASSUME MainInv, LoopReject PROVE MainInv'
<1>1. IInv'
  BY StepKeeps DEF LoopReject, MainInv
<1>2. phase' = "done" /\ UNCHANGED <<bkpt_ev_arr, reached>>
  BY DEF LoopReject, StepFalse
<1> QED
  BY <1>1, <1>2, TableFrame DEF MainInv, StageInv, Phases

\* A step that the process dies of leaves nothing to show but the types.
LEMMA DeadHost == ASSUME Dies PROVE host' # "running"
BY DEF Dies, FetchFault, RejectFatal, RejectUnreachable, HostDies

LEMMA LoopDiesInv == ASSUME MainInv, LoopDies PROVE MainInv'
<1>1. IInv'
  BY StepKeeps DEF LoopDies, MainInv
<1>2. phase' = phase /\ UNCHANGED <<bkpt_ev_arr, reached>> /\ host' # "running"
  BY DeadHost DEF LoopDies, StepDies
<1> QED
  BY <1>1, <1>2, TableFrame DEF MainInv, StageInv

\* The hart does not move.
LEMMA HartFrame == ASSUME IInv, UNCHANGED vars PROVE IInv' /\ host' = host
<1>1. IInv'
  BY NextInv
<1> QED
  BY <1>1 DEF vars

LEMMA SuspendedInv == ASSUME MainInv, LoopSuspended PROVE MainInv'
<1>1. IInv'
  BY HartFrame DEF LoopSuspended, MainInv
<1>2. phase' = "done" /\ UNCHANGED <<bkpt_ev_arr, reached>>
  BY DEF LoopSuspended
<1> QED
  BY <1>1, <1>2, TableFrame DEF MainInv, StageInv, Phases

LEMMA LoopPollInv == ASSUME MainInv, LoopPoll PROVE MainInv'
<1>1. IInv' /\ host' = host
  BY HartFrame DEF LoopPoll, MainInv
<1>2. /\ phase = "poll" /\ host = "running" /\ reached' = reached
      /\ (Armed => Triggered = reached) /\ (~Armed => reached)
      /\ reached \in BOOLEAN /\ TableInv
  BY DEF LoopPoll, MainInv, StageInv
<1>3. CASE PollMiss /\ phase' = "loop"
  <2>1. UNCHANGED <<bkpt_ev_arr, reached>> /\ ~(Armed /\ Triggered)
    BY <1>2, <1>3, OnlyEntryFires DEF PollMiss
  <2>2. Armed \in BOOLEAN /\ Triggered \in BOOLEAN
    BY <1>2, EventType
  <2>3. Armed = ~reached
    BY <1>2, <2>1, <2>2
  <2> QED
    BY <1>1, <1>3, <2>1, <2>2, <2>3, TableFrame DEF MainInv, StageInv, Phases
<1>4. CASE (\E s \in Slots : PollHit(s)) /\ phase' = "prompt"
  <2>1. Armed /\ Triggered /\ TableInv' /\ ~Armed'
    BY <1>2, <1>4, PollEnds
  <2> QED
    BY <1>1, <1>2, <1>4, <2>1 DEF MainInv, StageInv, Phases
<1> QED
  BY <1>3, <1>4 DEF LoopPoll

LEMMA UserContinueInv == ASSUME MainInv, UserContinue PROVE MainInv'
<1>1. IInv' /\ host' = host
  BY HartFrame DEF UserContinue, MainInv
<1>2. /\ phase = "prompt" /\ phase' = "loop" /\ host = "running"
      /\ UNCHANGED <<bkpt_ev_arr, reached>>
  BY DEF UserContinue
<1>3. ~Armed /\ reached /\ TableInv
  BY <1>2 DEF MainInv, StageInv
<1>4. Armed \in BOOLEAN /\ reached \in BOOLEAN
  BY <1>3, EventType DEF MainInv
<1> QED
  BY <1>1, <1>2, <1>3, <1>4, TableFrame DEF MainInv, StageInv, Phases

LEMMA UserStepInv == ASSUME MainInv, UserStep PROVE MainInv'
<1>1. IInv'
  BY StepKeeps DEF UserStep, MainInv
<1>2. phase = "prompt" /\ phase' = "prompt" /\ ~Armed /\ reached
  BY DEF UserStep, MainInv, StageInv, StepTrue, StepFalse, StepDies, CanStep
<1>3. CASE StepTrue
  <2>1. reached' = TRUE
    BY <1>2, <1>3 DEF StepTrue, MainInv
  <2> QED
    BY <1>1, <1>2, <1>3, <2>1, StepChecks DEF MainInv, StageInv, Phases
<1>4. CASE StepFalse \/ StepDies
  <2>1. UNCHANGED <<bkpt_ev_arr, reached>>
    BY <1>4 DEF StepFalse, StepDies
  <2> QED
    BY <1>1, <1>2, <2>1, TableFrame DEF MainInv, StageInv, Phases
<1> QED
  BY <1>3, <1>4 DEF UserStep

LEMMA MainNextInv == MainInv /\ [MainNext]_mainVars => MainInv'
<1> SUFFICES ASSUME MainInv, [MainNext]_mainVars PROVE MainInv'
  OBVIOUS
<1>1. CASE MainLoop
  BY <1>1, LoopStepInv, RejectInv, LoopDiesInv, SuspendedInv, LoopPollInv
     DEF MainLoop
<1>2. CASE UserContinue \/ UserStep
  BY <1>2, UserContinueInv, UserStepInv
<1>3. CASE UNCHANGED mainVars
  <2>1. IInv' /\ host' = host
    BY <1>3, HartFrame DEF mainVars, MainInv
  <2>2. UNCHANGED <<bkpt_ev_arr, phase, reached>>
    BY <1>3 DEF mainVars
  <2> QED
    BY <2>1, <2>2, TableFrame DEF MainInv, StageInv
<1> QED
  BY <1>1, <1>2, <1>3 DEF MainNext

LEMMA MainInvariance == MainSpec => []MainInv
<1>1. MainInit => MainInv
  BY MainInitInv
<1>2. MainInv /\ [MainNext]_mainVars => MainInv'
  BY MainNextInv
<1> QED
  BY <1>1, <1>2, PTL DEF MainSpec

-----------------------------------------------------------------------------
(***************************************************************************)
(* Each step is one of Session, or none.                                   *)
(***************************************************************************)
StageIs ==
  /\ host # "running" => Stage = "dead"
  /\ host = "running" =>
       /\ phase = "prompt" => Stage = "prompting"
       /\ phase = "done" => Stage = "ended"
       /\ phase = "loop" => Stage = "running"
       /\ phase = "poll" =>
            Stage = IF Armed /\ Triggered THEN "hit" ELSE "running"

LEMMA StageType == MainInv => StageIs
<1> SUFFICES ASSUME MainInv PROVE StageIs
  OBVIOUS
<1>1. (\E s \in Slots : Fires(s)) <=> Armed /\ Triggered
  BY OnlyEntryFires DEF MainInv
<1>2. host = "running" /\ phase = "loop" => ~(Armed /\ Triggered)
  BY DEF MainInv, StageInv
<1> QED
  BY <1>1, <1>2, Zenon DEF Stage, StageIs

LEMMA StageTypeNext == MainInv' => StageIs'
BY StageType, PTL

LEMMA SessionStep ==
  MainInv /\ MainInv' /\ [MainNext]_mainVars
    => [TheSession!Next]_(TheSession!vars)
<1> SUFFICES ASSUME MainInv, MainInv', [MainNext]_mainVars
             PROVE  [TheSession!Next]_(TheSession!vars)
  OBVIOUS
<1> USE StageType, StageTypeNext DEF StageIs
<1> USE DEF TheSession!Next, TheSession!vars, TheSession!Reach,
            TheSession!Prompt, TheSession!Continue, TheSession!End,
            TheSession!Die
<1>1. CASE LoopStep
  <2>1. /\ Stage = "running" /\ phase' = "poll"
        /\ Armed = ~reached /\ reached \in BOOLEAN /\ Armed' = Armed
        /\ Armed => (Triggered' <=> ~Triggered /\ pc = EntryBreak)
        /\ Armed => ~Triggered
        /\ reached' = (reached \/ pc = EntryBreak)
    BY <1>1, StepChecks DEF LoopStep, StepTrue, CanStep, MainInv, StageInv
  <2>2. reached' \in {reached, TRUE}
    BY <2>1
  <2>3. CASE host' # "running"
    BY <2>1, <2>2, <2>3
  <2>4. CASE host' = "running" /\ Armed' /\ Triggered'
    BY <2>1, <2>4
  <2>5. CASE host' = "running" /\ ~(Armed' /\ Triggered')
    <3>1. reached' = reached
      BY <2>1, <2>5
    <3> QED
      BY <2>1, <2>5, <3>1
  <2> QED
    BY <2>3, <2>4, <2>5
<1>2. CASE LoopReject
  BY <1>2 DEF LoopReject, StepFalse, CanStep, Reject
<1>3. CASE LoopDies
  BY <1>3, DeadHost DEF LoopDies, StepDies, CanStep
<1>4. CASE LoopSuspended
  BY <1>4 DEF LoopSuspended, vars
<1>5. CASE LoopPoll
  <2>1. phase = "poll" /\ host = "running" /\ host' = "running" /\ reached' = reached
    BY <1>5 DEF LoopPoll, vars
  <2>2. CASE PollMiss /\ phase' = "loop"
    <3>1. ~(Armed /\ Triggered)
      BY <2>2, OnlyEntryFires DEF PollMiss, MainInv
    <3> QED
      BY <2>1, <2>2, <3>1
  <2>3. CASE (\E s \in Slots : PollHit(s)) /\ phase' = "prompt"
    <3>1. Armed /\ Triggered
      BY <2>3, PollEnds DEF MainInv
    <3> QED
      BY <2>1, <2>3, <3>1
  <2> QED
    BY <1>5, <2>2, <2>3 DEF LoopPoll
<1>6. CASE UserContinue
  BY <1>6 DEF UserContinue, vars
<1>7. CASE UserStep
  <2>1. /\ phase = "prompt" /\ phase' = "prompt" /\ host = "running"
        /\ reached = TRUE
    BY <1>7 DEF UserStep, StepTrue, StepFalse, StepDies, CanStep, MainInv, StageInv
  <2>2. reached' = TRUE
    BY <1>7, <2>1 DEF UserStep, StepTrue, StepFalse, StepDies
  <2> QED
    BY <2>1, <2>2
<1>8. CASE UNCHANGED mainVars
  BY <1>8 DEF mainVars, vars, Stage, Fires
<1> QED
  BY <1>1, <1>2, <1>3, <1>4, <1>5, <1>6, <1>7, <1>8 DEF MainNext, MainLoop

-----------------------------------------------------------------------------
(***************************************************************************)
(* The theorems.                                                           *)
(***************************************************************************)

\* The loop and the prompt keep the state of hart, table and session well
\* formed (main.c:58-167).
THEOREM MainTypeCorrect == MainSpec => []MainTypeOK
<1>1. MainInv => MainTypeOK
  BY DEF MainInv, IInv, TableInv, MainTypeOK
<1> QED
  BY <1>1, MainInvariance, PTL

\* In every program, whatever its loops, the breakpoint of main() is armed
\* until the step that executes its instruction, and not one longer.
THEOREM StaysArmed == MainSpec => []ArmedUntilReached
<1>1. MainInv => ArmedUntilReached
  BY DEF MainInv, StageInv, ArmedUntilReached, Armed
<1> QED
  BY <1>1, MainInvariance, PTL

\* The main loop implements Session: it stops at the breakpoint the first time
\* its instruction is executed, asks the user next, and never stops again.
\* (That the prompt does come is left to the run, which checks SessionKept.)
THEOREM ImplementsSession ==
  MainSpec => TheSession!Init /\ [][TheSession!Next]_(TheSession!vars)
<1>1. MainInit => TheSession!Init
  <2> SUFFICES ASSUME MainInit PROVE TheSession!Init
    OBVIOUS
  <2>1. MainInv
    BY MainInitInv
  <2>2. host = "running" /\ phase = "loop" /\ reached = FALSE
    BY DEF MainInit, Init
  <2> QED
    BY <2>1, <2>2, StageType DEF StageIs, TheSession!Init
<1> QED
  BY <1>1, SessionStep, MainInvariance, PTL DEF MainSpec

\* Only rvemu_step changes the hart: what the loop, the prompt and the table do
\* around it is none of its business.
LEMMA HartSteps == MainNext => [Next]_vars
<1> SUFFICES ASSUME MainNext
             PROVE  Next \/ UNCHANGED vars
  OBVIOUS
<1>1. CASE StepTrue \/ StepFalse \/ StepDies
  BY <1>1 DEF StepTrue, StepFalse, StepDies, Step, Next
<1>2. CASE LoopSuspended \/ LoopPoll \/ UserContinue
  BY <1>2 DEF LoopSuspended, LoopPoll, UserContinue
<1> QED
  BY <1>1, <1>2 DEF MainNext, MainLoop, LoopStep, LoopReject, LoopDies, UserStep

\* However the loop and the step command take turns, an even pc stays even.
THEOREM MainPcStaysEven == MainSpec => EvenStaysEven
<1>1. MainInv /\ [MainNext]_mainVars => [EvenKept]_vars
  BY HartSteps, NextKeeps DEF MainInv, Kept, mainVars
<1> QED
  BY <1>1, MainInvariance, PTL DEF MainSpec, EvenStaysEven

\* To the guest the debugger does not exist: whatever breakpoint is set,
\* whichever commands the user gives, the hart under the loop and the prompt is
\* the flat one of Isa (main.c:58-82, 159-167).
THEOREM MainImplementsIsa ==
  ASSUME RegionsDisjoint
  PROVE  MainSpec => IsaKept
<1>1. IInv /\ IInv' /\ [Next]_vars => [TheIsa!Next]_(TheIsa!vars)
  BY StepIsFlat
<1>2. MainInit => TheIsa!Init
  BY InitIsFlat DEF MainInit
<1>3. [MainNext]_mainVars => [Next]_vars
  BY HartSteps DEF mainVars
<1>4. MainInv => IInv
  BY DEF MainInv
<1> QED
  BY <1>1, <1>2, <1>3, <1>4, MainInvariance, PTL DEF MainSpec, IsaKept, TheIsa!Spec
=============================================================================
