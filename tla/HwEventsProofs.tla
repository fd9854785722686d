---------------------------- MODULE HwEventsProofs ----------------------------
(***************************************************************************)
(* Proofs about HwEvents, for any event bits and processes.                *)
(***************************************************************************)
EXTENDS HwEvents, TLAPS

\* Every variable keeps its type.
LEMMA InitTypeOK == Init => TypeOK
<1> SUFFICES ASSUME Init PROVE TypeOK
  OBVIOUS
<1> USE HwEventsAssumption DEF HwEventsAssumption, Init
<1>1. /\ pc \in [Procs -> {"run", "check", "asleep", "ready", "copy"}]
      /\ got \in [Procs -> SUBSET Events]
      /\ woken \in [Procs -> BOOLEAN]
  OBVIOUS
<1>2. raised \in [Events -> 0 .. MaxRaises] /\ delivered \in [Events -> Nat]
  OBVIOUS
<1> QED
  BY <1>1, <1>2 DEF TypeOK

LEMMA StepTypeOK == TypeOK /\ [Next]_vars => TypeOK'
<1> SUFFICES ASSUME TypeOK, [Next]_vars PROVE TypeOK'
  OBVIOUS
<1> USE HwEventsAssumption DEF HwEventsAssumption, TypeOK, irqVars, events, procVars
<1>1. ASSUME NEW e \in Events, Raise(e) PROVE TypeOK'
  BY <1>1 DEF Raise
<1>2. CASE Isr
  BY <1>2 DEF Isr
<1>3. CASE TaskletStart
  BY <1>3 DEF TaskletStart
<1>4. CASE TaskletRead
  BY <1>4 DEF TaskletRead
<1>5. CASE TaskletClear
  BY <1>5 DEF TaskletClear
<1>6. CASE TaskletWake
  BY <1>6 DEF TaskletWake
<1>7. CASE TaskletEnable
  BY <1>7 DEF TaskletEnable
<1>8. ASSUME NEW p \in Procs, PollWait(p) PROVE TypeOK'
  BY <1>8 DEF PollWait
<1>9. ASSUME NEW p \in Procs, PollCheck(p) PROVE TypeOK'
  BY <1>9 DEF PollCheck
<1>10. ASSUME NEW p \in Procs, PollAgain(p) PROVE TypeOK'
  BY <1>10 DEF PollAgain
<1>11. ASSUME NEW p \in Procs, Event(p) PROVE TypeOK'
  BY <1>11 DEF Event
<1>12. ASSUME NEW p \in Procs, EventCopy(p) PROVE TypeOK'
  BY <1>12 DEF EventCopy
<1>13. CASE UNCHANGED vars
  BY <1>13 DEF vars
<1> QED
  BY <1>1, <1>2, <1>3, <1>4, <1>5, <1>6, <1>7, <1>8, <1>9, <1>10, <1>11, <1>12, <1>13
  DEF Next, Tasklet, Process

\* Every variable of the event path keeps its type.
THEOREM EventTypesCorrect == Spec => []TypeOK
BY InitTypeOK, StepTypeOK, PTL DEF Spec
-----------------------------------------------------------------------------
(* No event is lost: whoever takes bits away hands them on in the same     *)
(* step.                                                                   *)

LEMMA StepEventsNotLost == TypeOK /\ EventsNotLost /\ [Next]_vars => EventsNotLost'
<1> SUFFICES ASSUME TypeOK, EventsNotLost, [Next]_vars PROVE EventsNotLost'
  OBVIOUS
<1> USE DEF TypeOK, EventsNotLost, irqVars, events, procVars
<1>1. ASSUME NEW e \in Events, Raise(e) PROVE EventsNotLost'
  BY <1>1 DEF Raise
<1>2. CASE Isr \/ TaskletStart \/ TaskletWake \/ TaskletEnable
  BY <1>2 DEF Isr, TaskletStart, TaskletWake, TaskletEnable
<1>3. CASE TaskletRead
  BY <1>3 DEF TaskletRead
<1>4. CASE TaskletClear
  BY <1>4 DEF TaskletClear
<1>5. ASSUME NEW p \in Procs, PollWait(p) \/ PollCheck(p) \/ PollAgain(p) \/ EventCopy(p)
      PROVE EventsNotLost'
  BY <1>5 DEF PollWait, PollCheck, PollAgain, EventCopy
<1>6. ASSUME NEW p \in Procs, Event(p) PROVE EventsNotLost'
  BY <1>6 DEF Event
<1>7. CASE UNCHANGED vars
  BY <1>7 DEF vars
<1> QED
  BY <1>1, <1>2, <1>3, <1>4, <1>5, <1>6, <1>7 DEF Next, Tasklet, Process

\* An event that nobody has taken since it was raised is in INTSTAT or in hw_events
\* (main.c:434).
THEOREM NoEventIsLost == Spec => []EventsNotLost
<1>1. Init => EventsNotLost
  BY DEF Init, EventsNotLost
<1> QED
  BY <1>1, EventTypesCorrect, StepEventsNotLost, PTL DEF Spec
-----------------------------------------------------------------------------
(* No event is reported twice.  Between read and clear a bit is in INTSTAT *)
(* and in status for one raise; at all other times for two.                *)

One(b) == IF b THEN 1 ELSE 0

\* The bit stands for a raise that status does not know of.
Fresh(e) == e \in intstat /\ (tasklet = "clear" => e \notin status)

RaisesCounted == \A e \in Events :
                   delivered[e] + One(e \in status) + One(Fresh(e)) <= raised[e]

LEMMA StepRaisesCounted == TypeOK /\ RaisesCounted /\ [Next]_vars => RaisesCounted'
<1> SUFFICES ASSUME TypeOK, RaisesCounted, [Next]_vars, NEW e \in Events
             PROVE  (delivered[e] + One(e \in status) + One(Fresh(e)) <= raised[e])'
  BY DEF RaisesCounted
<1> DEFINE Goal == (delivered[e] + One(e \in status) + One(Fresh(e)) <= raised[e])'
<1>0. /\ delivered[e] + One(e \in status) + One(Fresh(e)) <= raised[e]
      /\ delivered[e] \in Nat /\ raised[e] \in Nat
  BY HwEventsAssumption DEF RaisesCounted, TypeOK, HwEventsAssumption
<1> USE <1>0 DEF TypeOK, One, Fresh, irqVars, events, procVars
<1>1. ASSUME NEW f \in Events, Raise(f) PROVE Goal
  BY <1>1 DEF Raise
<1>2. CASE Isr \/ TaskletStart \/ TaskletWake \/ TaskletEnable
  BY <1>2 DEF Isr, TaskletStart, TaskletWake, TaskletEnable
<1>3. CASE TaskletRead
  BY <1>3 DEF TaskletRead
<1>4. CASE TaskletClear
  BY <1>4 DEF TaskletClear
<1>5. ASSUME NEW p \in Procs, PollWait(p) \/ PollCheck(p) \/ PollAgain(p) \/ EventCopy(p)
      PROVE Goal
  BY <1>5 DEF PollWait, PollCheck, PollAgain, EventCopy
<1>6. ASSUME NEW p \in Procs, Event(p) PROVE Goal
  BY <1>6 DEF Event, Unlocked
<1>7. CASE UNCHANGED vars
  BY <1>7 DEF vars
<1> QED
  BY <1>1, <1>2, <1>3, <1>4, <1>5, <1>6, <1>7 DEF Next, Tasklet, Process

\* A raise is reported once: no event is taken more often than it was raised, because
\* INTCLR is written under events_lock (main.c:437).
THEOREM NoEventIsRepeated == Spec => []EventsNotRepeated
<1>1. Init => RaisesCounted
  <2> SUFFICES ASSUME Init, NEW e \in Events
               PROVE  delivered[e] + One(e \in status) + One(Fresh(e)) <= raised[e]
    BY DEF RaisesCounted
  <2>1. delivered[e] = 0 /\ raised[e] = 0 /\ e \notin status /\ ~Fresh(e)
    BY DEF Init, Fresh
  <2> QED
    BY <2>1 DEF One
<1>2. TypeOK /\ RaisesCounted => EventsNotRepeated
  <2> SUFFICES ASSUME TypeOK, RaisesCounted, NEW e \in Events
               PROVE  delivered[e] + (IF e \in status THEN 1 ELSE 0) <= raised[e]
    BY DEF EventsNotRepeated
  <2> QED
    BY HwEventsAssumption DEF TypeOK, RaisesCounted, One, HwEventsAssumption
<1> QED
  BY <1>1, <1>2, EventTypesCorrect, StepRaisesCounted, PTL DEF Spec
-----------------------------------------------------------------------------
(* No poller is forgotten.                                                 *)

LEMMA StepEventsAnnounced == TypeOK /\ EventsAnnounced /\ [Next]_vars => EventsAnnounced'
<1> SUFFICES ASSUME TypeOK, EventsAnnounced, [Next]_vars PROVE EventsAnnounced'
  OBVIOUS
<1> USE DEF TypeOK, EventsAnnounced, irqVars, events, procVars
<1>1. ASSUME NEW e \in Events, Raise(e) PROVE EventsAnnounced'
  BY <1>1 DEF Raise
<1>2. CASE Isr \/ TaskletStart \/ TaskletEnable
  BY <1>2 DEF Isr, TaskletStart, TaskletEnable
<1>3. CASE TaskletRead
  BY <1>3 DEF TaskletRead
<1>4. CASE TaskletClear
  BY <1>4 DEF TaskletClear
<1>5. CASE TaskletWake
  BY <1>5 DEF TaskletWake, Waiting
<1>6. ASSUME NEW p \in Procs, PollWait(p) PROVE EventsAnnounced'
  BY <1>6 DEF PollWait
<1>7. ASSUME NEW p \in Procs, PollCheck(p) PROVE EventsAnnounced'
  BY <1>7 DEF PollCheck
<1>8. ASSUME NEW p \in Procs, PollAgain(p) PROVE EventsAnnounced'
  BY <1>8 DEF PollAgain
<1>9. ASSUME NEW p \in Procs, Event(p) PROVE EventsAnnounced'
  BY <1>9 DEF Event
<1>10. ASSUME NEW p \in Procs, EventCopy(p) PROVE EventsAnnounced'
  BY <1>10 DEF EventCopy
<1>11. CASE UNCHANGED vars
  BY <1>11 DEF vars
<1> QED
  BY <1>1, <1>2, <1>3, <1>4, <1>5, <1>6, <1>7, <1>8, <1>9, <1>10, <1>11
  DEF Next, Tasklet, Process

\* However many processes share pending, events that are there have a reader, and no
\* process sleeps over them (main.c:290).
THEOREM NoPollerIsForgotten == Spec => []EventsAnnounced
<1>1. Init => EventsAnnounced
  BY DEF Init, EventsAnnounced
<1> QED
  BY <1>1, EventTypesCorrect, StepEventsAnnounced, PTL DEF Spec
=============================================================================
