----------------------------- MODULE BkptProofs -----------------------------
(***************************************************************************)
(* The properties of BkptApi for every number of slots, every set of       *)
(* requests and every order of calls.                                      *)
(***************************************************************************)
EXTENDS BkptApi, BkptTheorems

\* What makes NoTwoMisses inductive: an event that missed an instruction was
\* cleared by the check that missed it, so the next check compares it.
MissedWasCleared ==
  \A s \in Slots :
    misses[s] > 0 => misses[s] = 1 /\ ~bkpt_ev_arr[s].triggered

\* What makes Kept hold: a poll ends a one-shot event, and a new event in its
\* slot starts unhandled.
OneShotsUnhandled ==
  \A s \in Slots :
    bkpt_ev_arr[s].active /\ bkpt_ev_arr[s].one_shot => s \notin handled

IInv == TypeOK /\ TriggersAreFresh /\ MissedWasCleared /\ OneShotsUnhandled

LEMMA InitInv == Init => IInv
<1> SUFFICES ASSUME Init PROVE IInv
  OBVIOUS
<1>1. NoEvent \in Events
  <2>1. 0 \in Word
    BY ByteModAssumption DEF Word, WordMod, HalfMod
  <2> QED
    BY <2>1 DEF NoEvent, Events, Comparators
<1>2. \A s \in Slots : bkpt_ev_arr[s] = NoEvent /\ misses[s] = 0
  BY DEF Init
<1>3. TypeOK
  BY <1>1 DEF Init, TypeOK
<1> QED
  BY <1>2, <1>3
  DEF IInv, TriggersAreFresh, MissedWasCleared, OneShotsUnhandled, Fires, NoEvent

LEMMA AddInv == IInv /\ Add => IInv'
<1> SUFFICES ASSUME IInv, Add PROVE IInv'
  OBVIOUS
<1>1. CASE AddDropped /\ UNCHANGED <<last, misses, handled>>
  BY <1>1
  DEF AddDropped, IInv, TypeOK, TriggersAreFresh, MissedWasCleared,
      OneShotsUnhandled, Fires
<1>2. ASSUME NEW ev \in Requests, NEW s \in Slots, AddTo(s, ev),
             misses' = [misses EXCEPT ![s] = 0],
             handled' = handled \ {s}, last' = last
      PROVE  IInv'
  <2>1. ev \in Events /\ ~ev.triggered
    BY RequestsAssumption
  <2>2. bkpt_ev_arr' = [bkpt_ev_arr EXCEPT ![s] = ev]
    BY <1>2 DEF AddTo
  <2>3. TypeOK'
    BY <1>2, <2>1, <2>2 DEF IInv, TypeOK
  <2>4. \A t \in Slots : /\ bkpt_ev_arr'[t] = IF t = s THEN ev ELSE bkpt_ev_arr[t]
                         /\ misses'[t] = IF t = s THEN 0 ELSE misses[t]
    BY <1>2, <2>2 DEF IInv, TypeOK
  <2> QED
    BY <1>2, <2>1, <2>3, <2>4
    DEF IInv, TriggersAreFresh, MissedWasCleared, OneShotsUnhandled, Fires
<1> QED
  BY <1>1, <1>2 DEF Add

LEMMA DispatchInv == IInv /\ Dispatch => IInv'
<1> SUFFICES ASSUME IInv, NEW insn \in Instructions, NEW pc \in Word,
                    CheckInsn(insn, pc),
                    last' = [insn |-> insn, pc |-> pc],
                    misses' =
                      [s \in Slots |->
                         LET ev == bkpt_ev_arr[s]
                         IN  IF /\ ev.active /\ Matches(ev, insn, pc)
                                /\ ~bkpt_ev_arr'[s].triggered
                             THEN misses[s] + 1 ELSE 0],
                    handled' = {}
             PROVE  IInv'
  BY DEF Dispatch
<1>1. ASSUME NEW s \in Slots
      PROVE  /\ bkpt_ev_arr[s] \in Events
             /\ bkpt_ev_arr'[s] = CheckEvent(bkpt_ev_arr[s], insn, pc)
             /\ misses[s] \in Nat
  BY DEF CheckInsn, IInv, TypeOK
<1>2. TypeOK'
  <2>1. bkpt_ev_arr' \in [Slots -> Events]
    BY <1>1, CheckedType DEF CheckInsn
  <2> QED
    BY <1>1, <2>1 DEF TypeOK
<1>3. TriggersAreFresh'
  <2> SUFFICES ASSUME NEW s \in Slots, Fires(s)'
               PROVE  Matches(bkpt_ev_arr'[s], insn, pc)
    BY DEF TriggersAreFresh
  <2>1. Matches(bkpt_ev_arr[s], insn, pc)
    <3> DEFINE old == bkpt_ev_arr[s]
               new == bkpt_ev_arr'[s]
    <3>1. new.active /\ new.triggered
      BY DEF Fires
    <3>2. /\ new.active = old.active
          /\ new.triggered = IF old.active
                             THEN ~old.triggered /\ Matches(old, insn, pc)
                             ELSE old.triggered
      BY <1>1, CheckedType
    <3> HIDE DEF old, new
    <3>3. Matches(old, insn, pc)
      BY <3>1, <3>2, Zenon
    <3> QED
      BY <3>3 DEF old
  <2> QED
    BY <1>1, <2>1, CheckedType
<1>4. MissedWasCleared'
  <2> SUFFICES ASSUME NEW s \in Slots, misses'[s] > 0
               PROVE  misses'[s] = 1 /\ ~bkpt_ev_arr'[s].triggered
    BY DEF MissedWasCleared
  <2>1. /\ bkpt_ev_arr[s].active /\ Matches(bkpt_ev_arr[s], insn, pc)
        /\ ~bkpt_ev_arr'[s].triggered
        /\ misses'[s] = misses[s] + 1
    OBVIOUS
  <2>2. bkpt_ev_arr[s].triggered
    <3> DEFINE old == bkpt_ev_arr[s]
               new == bkpt_ev_arr'[s]
    <3>1. old.active /\ Matches(old, insn, pc) /\ ~new.triggered
      BY <2>1
    <3>2. new.triggered = IF old.active
                          THEN ~old.triggered /\ Matches(old, insn, pc)
                          ELSE old.triggered
      BY <1>1, CheckedType
    <3> HIDE DEF old, new
    <3>3. old.triggered
      BY <3>1, <3>2, Zenon
    <3> QED
      BY <3>3 DEF old
  <2>3. misses[s] = 0
    BY <1>1, <2>2 DEF IInv, MissedWasCleared
  <2> QED
    BY <2>1, <2>3
<1> QED
  BY <1>2, <1>3, <1>4 DEF IInv, OneShotsUnhandled

LEMMA PollInv == IInv /\ Poll => IInv'
<1> SUFFICES ASSUME IInv, Poll PROVE IInv'
  OBVIOUS
<1>1. CASE PollMiss /\ UNCHANGED <<last, misses, handled>>
  BY <1>1
  DEF PollMiss, IInv, TypeOK, TriggersAreFresh, MissedWasCleared,
      OneShotsUnhandled, Fires
<1>2. ASSUME NEW s \in Slots, PollHit(s), handled' = handled \cup {s},
             UNCHANGED <<last, misses>>
      PROVE  IInv'
  <2> DEFINE old == bkpt_ev_arr[s]
             new == [old EXCEPT !.active = ~old.one_shot]
  <2>1. old \in Events /\ Fires(s)
    BY <1>2 DEF PollHit, IInv, TypeOK
  <2>2. /\ new \in Events /\ new.triggered = old.triggered
        /\ new.pc_cond = old.pc_cond /\ new.insn_cond = old.insn_cond
    BY <2>1 DEF Events
  <2>3. bkpt_ev_arr' = [bkpt_ev_arr EXCEPT ![s] = new]
    BY <1>2 DEF PollHit
  <2> HIDE DEF new
  <2>4. TypeOK'
    BY <1>2, <2>2, <2>3 DEF IInv, TypeOK
  <2>5. \A t \in Slots : bkpt_ev_arr'[t] = IF t = s THEN new ELSE bkpt_ev_arr[t]
    BY <2>3 DEF IInv, TypeOK
  <2>6. \A i, p : Matches(new, i, p) <=> Matches(old, i, p)
    BY <2>2, Zenon DEF Matches
  <2>7. TriggersAreFresh'
    <3> SUFFICES ASSUME NEW t \in Slots, Fires(t)'
                 PROVE  Matches(bkpt_ev_arr'[t], last.insn, last.pc)
      BY <1>2 DEF TriggersAreFresh
    <3>1. CASE t = s
      BY <2>1, <2>5, <2>6, <3>1 DEF IInv, TriggersAreFresh
    <3>2. CASE t # s
      BY <2>5, <3>2 DEF IInv, TriggersAreFresh, Fires
    <3> QED
      BY <3>1, <3>2
  <2>8. MissedWasCleared'
    BY <1>2, <2>2, <2>5 DEF IInv, MissedWasCleared
  <2>9. OneShotsUnhandled'
    <3>1. new.active => ~new.one_shot
      BY <2>1 DEF new, Events
    <3> QED
      BY <1>2, <2>5, <3>1 DEF IInv, OneShotsUnhandled
  <2> QED
    BY <2>4, <2>7, <2>8, <2>9 DEF IInv
<1> QED
  BY <1>1, <1>2 DEF Poll

LEMMA NextInv == IInv /\ [Next]_vars => IInv'
<1>1. IInv /\ UNCHANGED vars => IInv'
  BY DEF vars, IInv, TypeOK, TriggersAreFresh, MissedWasCleared,
         OneShotsUnhandled, Fires
<1> QED
  BY <1>1, AddInv, DispatchInv, PollInv DEF Next

\* The inductive invariant holds of every run (bkpt.c:10-95).
THEOREM Invariance == Spec => []IInv
BY InitInv, NextInv, PTL DEF Spec

-----------------------------------------------------------------------------
\* The table always holds well-formed events (bkpt.h:32-37).
THEOREM TypeCorrect == Spec => []TypeOK
<1>1. IInv => TypeOK
  BY DEF IInv
<1> QED
  BY <1>1, Invariance, PTL

\* A trigger is never stale when a poll finds it (bkpt.c:16, 34-39).
THEOREM FreshTriggers == Spec => []TriggersAreFresh
<1>1. IInv => TriggersAreFresh
  BY DEF IInv
<1> QED
  BY <1>1, Invariance, PTL

\* No event misses two matching instructions in a row (bkpt.c:34-39).
THEOREM MissesAreSingle == Spec => []NoTwoMisses
<1>1. IInv => NoTwoMisses
  BY DEF IInv, TypeOK, MissedWasCleared, NoTwoMisses
<1> QED
  BY <1>1, Invariance, PTL

\* The table gives up no registration but a one-shot event that a poll has
\* just returned (bkpt.c:18-19, 88).
THEOREM KeepsRegistrations == Spec => RegistrationsKept
<1>1. IInv /\ [Next]_vars => [Kept]_vars
  <2> SUFFICES ASSUME IInv, Next, NEW s \in Slots, bkpt_ev_arr[s].active
               PROVE  LET old == bkpt_ev_arr[s]
                          new == bkpt_ev_arr'[s]
                      IN  /\ new = [old EXCEPT !.active = new.active,
                                               !.triggered = new.triggered]
                          /\ ~new.active => old.one_shot /\ s \in handled' \ handled
    BY DEF Kept
  <2> DEFINE old == bkpt_ev_arr[s]
  <2>1. old \in Events /\ bkpt_ev_arr \in [Slots -> Events]
    BY DEF IInv, TypeOK
  <2>2. CASE Add
    <3>1. bkpt_ev_arr'[s] = old
      BY <2>1, <2>2 DEF Add, AddTo, AddDropped
    <3> QED
      BY <2>1, <3>1 DEF Events
  <2>3. CASE Dispatch
    <3>1. PICK t \in BOOLEAN : bkpt_ev_arr'[s] = [old EXCEPT !.triggered = t]
      <4>1. PICK insn, pc : bkpt_ev_arr'[s] = CheckEvent(old, insn, pc)
        BY <2>3 DEF Dispatch, CheckInsn
      <4>2. (~old.triggered /\ Matches(old, insn, pc)) \in BOOLEAN
        OBVIOUS
      <4> QED
        BY <4>1, <4>2 DEF CheckEvent
    <3> QED
      BY <2>1, <3>1 DEF Events
  <2>4. CASE Poll
    <3>1. CASE bkpt_ev_arr'[s] = old
      BY <2>1, <3>1 DEF Events
    <3>2. CASE bkpt_ev_arr'[s] # old
      <4>1. /\ bkpt_ev_arr'[s] = [old EXCEPT !.active = ~old.one_shot]
            /\ handled' = handled \cup {s}
        BY <2>1, <2>4, <3>2 DEF Poll, PollHit, PollMiss
      <4>2. old.one_shot => s \notin handled
        BY DEF IInv, OneShotsUnhandled
      <4> QED
        BY <2>1, <4>1, <4>2 DEF Events
    <3> QED
      BY <3>1, <3>2
  <2> QED
    BY <2>2, <2>3, <2>4 DEF Next
<1> QED
  BY <1>1, Invariance, PTL DEF Spec, RegistrationsKept
=============================================================================
