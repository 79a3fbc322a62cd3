---------------------------- MODULE BkptTheorems ----------------------------
(***************************************************************************)
(* Facts about the events of the breakpoint table, whoever keeps it.       *)
(***************************************************************************)
EXTENDS Bkpt, TLAPS

\* Comparing is a truth value, so a checked event is an event.
LEMMA MatchesType ==
  ASSUME NEW ev \in Events, NEW insn, NEW pc
  PROVE  Matches(ev, insn, pc) \in BOOLEAN
<1>1. PcMatches(ev.pc_cond, pc) \in BOOLEAN
  BY Zenon DEF PcMatches
<1>2. (insn \in ev.insn_cond) \in BOOLEAN
  OBVIOUS
<1> QED
  BY <1>1, <1>2, Zenon DEF Matches

\* A check sets the trigger of an event, and nothing else of it.
LEMMA CheckedType ==
  ASSUME NEW ev \in Events, NEW insn, NEW pc
  PROVE  /\ CheckEvent(ev, insn, pc) \in Events
         /\ CheckEvent(ev, insn, pc).active = ev.active
         /\ CheckEvent(ev, insn, pc).triggered =
              IF ev.active THEN ~ev.triggered /\ Matches(ev, insn, pc)
              ELSE ev.triggered
         /\ CheckEvent(ev, insn, pc).pc_cond = ev.pc_cond
         /\ CheckEvent(ev, insn, pc).one_shot = ev.one_shot
         /\ \A i, p : Matches(CheckEvent(ev, insn, pc), i, p)
                        <=> Matches(ev, i, p)
<1>1. ev.triggered \in BOOLEAN /\ Matches(ev, insn, pc) \in BOOLEAN
  BY MatchesType DEF Events
<1>2. CASE ~ev.active
  BY <1>2 DEF CheckEvent
<1>3. CASE ev.active
  <2> DEFINE t == ~ev.triggered /\ Matches(ev, insn, pc)
             new == [ev EXCEPT !.triggered = t]
  <2>1. t \in BOOLEAN
    BY <1>1
  <2>2. CheckEvent(ev, insn, pc) = new
    BY <1>3 DEF CheckEvent
  <2> HIDE DEF t
  <2>3. /\ new \in Events
        /\ new.active = ev.active /\ new.triggered = t
        /\ new.pc_cond = ev.pc_cond /\ new.insn_cond = ev.insn_cond
        /\ new.one_shot = ev.one_shot
    BY <2>1 DEF Events
  <2> HIDE DEF new
  <2>4. \A i, p : Matches(new, i, p) <=> Matches(ev, i, p)
    BY <2>3, Zenon DEF Matches
  <2> QED
    BY <1>3, <2>2, <2>3, <2>4 DEF t
<1> QED
  BY <1>2, <1>3

\* The events that a table may hold, after a check and after a poll.
LEMMA CheckedTable ==
  ASSUME bkpt_ev_arr \in [Slots -> Events], NEW insn, NEW pc, CheckInsn(insn, pc)
  PROVE  /\ bkpt_ev_arr' \in [Slots -> Events]
         /\ \A s \in Slots :
              /\ bkpt_ev_arr'[s].active = bkpt_ev_arr[s].active
              /\ bkpt_ev_arr'[s].pc_cond = bkpt_ev_arr[s].pc_cond
              /\ bkpt_ev_arr'[s].one_shot = bkpt_ev_arr[s].one_shot
              /\ bkpt_ev_arr'[s].triggered =
                   IF bkpt_ev_arr[s].active
                   THEN ~bkpt_ev_arr[s].triggered /\ Matches(bkpt_ev_arr[s], insn, pc)
                   ELSE bkpt_ev_arr[s].triggered
<1>1. \A s \in Slots : /\ bkpt_ev_arr[s] \in Events
                       /\ bkpt_ev_arr'[s] = CheckEvent(bkpt_ev_arr[s], insn, pc)
  BY DEF CheckInsn
<1>2. bkpt_ev_arr' \in [Slots -> Events]
  BY <1>1, CheckedType DEF CheckInsn
<1> QED
  BY <1>1, <1>2, CheckedType

LEMMA PolledTable ==
  ASSUME bkpt_ev_arr \in [Slots -> Events], NEW s \in Slots, PollHit(s)
  PROVE  /\ bkpt_ev_arr' \in [Slots -> Events]
         /\ bkpt_ev_arr[s].active /\ bkpt_ev_arr[s].triggered
         /\ bkpt_ev_arr'[s].active = ~bkpt_ev_arr[s].one_shot
         /\ bkpt_ev_arr'[s].triggered = bkpt_ev_arr[s].triggered
         /\ bkpt_ev_arr'[s].pc_cond = bkpt_ev_arr[s].pc_cond
         /\ bkpt_ev_arr'[s].one_shot = bkpt_ev_arr[s].one_shot
         /\ \A t \in Slots : t # s => bkpt_ev_arr'[t] = bkpt_ev_arr[t]
<1> DEFINE old == bkpt_ev_arr[s]
           new == [old EXCEPT !.active = ~old.one_shot]
<1>1. old \in Events /\ Fires(s)
  BY DEF PollHit
<1>2. /\ new \in Events /\ new.active = ~old.one_shot
      /\ new.triggered = old.triggered /\ new.pc_cond = old.pc_cond
      /\ new.one_shot = old.one_shot
  BY <1>1 DEF Events
<1>3. bkpt_ev_arr' = [bkpt_ev_arr EXCEPT ![s] = new]
  BY DEF PollHit
<1> HIDE DEF new
<1> QED
  BY <1>1, <1>2, <1>3 DEF Fires
=============================================================================
