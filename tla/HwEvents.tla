------------------------------- MODULE HwEvents -------------------------------
(***************************************************************************)
(* Application interrupts (main.c): the device raises event bits in its    *)
(* INTSTAT register, the tasklet moves them into hw_events, processes wait *)
(* for them in poll() and fetch them with TPCE_IOC_EVENT.                  *)
(*                                                                         *)
(* events_lock is held by the tasklet between its read of INTSTAT and its  *)
(* write of INTCLR, and by poll and EVENT within one step each, so         *)
(* tasklet = "clear" is all there is to see of it.  Interrupts of the DMA  *)
(* channels, which share irqsrc and the tasklet, are DmaTransfer's subject.*)
(***************************************************************************)
EXTENDS Naturals

CONSTANTS Events,    \* bits of INTSTAT
          Procs,     \* processes, each with the device open
          MaxRaises  \* bound: how often the device raises each bit

ASSUME HwEventsAssumption == MaxRaises \in Nat

VARIABLES
  \* device
  intstat,            \* bits raised and not cleared
  irqOn,              \* ALTERA_PCIE_IRQ_ENABLE_REG
  \* driver
  irqsrc, scheduled,  \* TPCE_IRQ_APP in tpce->irqsrc; the tasklet is scheduled
  tasklet,            \* progress of its event part
  status, pending,    \* hw_events
  \* processes
  pc, got,            \* progress; the events an EVENT call has taken
  woken,              \* its entry in hw_events.wq has been woken
  \* history
  raised, delivered,  \* how often each event was raised, and taken by EVENT
  owed                \* raised and not taken since

irqVars  == <<irqOn, irqsrc, scheduled>>
events   == <<status, pending>>
procVars == <<pc, got, woken>>
vars == <<intstat, irqVars, tasklet, events, procVars, raised, delivered, owed>>

Init ==
  /\ intstat = {} /\ irqOn = TRUE
  /\ irqsrc = FALSE /\ scheduled = FALSE /\ tasklet = "off"
  /\ status = {} /\ pending = FALSE
  /\ pc = [p \in Procs |-> "run"] /\ got = [p \in Procs |-> {}]
  /\ woken = [p \in Procs |-> FALSE]
  /\ raised = [e \in Events |-> 0] /\ delivered = [e \in Events |-> 0]
  /\ owed = {}
-----------------------------------------------------------------------------
(* Device and interrupt handler                                            *)

Raise(e) ==
  /\ raised[e] < MaxRaises
  /\ intstat' = intstat \cup {e}
  /\ raised' = [raised EXCEPT ![e] = @ + 1]
  /\ owed' = owed \cup {e}
  /\ UNCHANGED <<irqVars, tasklet, events, procVars, delivered>>

\* tpce_isr: the source is kept for the tasklet, and interrupts are disabled.
Isr ==
  /\ irqOn /\ intstat # {}
  /\ irqOn' = FALSE
  /\ irqsrc' = TRUE
  /\ scheduled' = TRUE
  /\ UNCHANGED <<intstat, tasklet, events, procVars, raised, delivered, owed>>
-----------------------------------------------------------------------------
(* The event part of tpce_tasklet                                          *)

TaskletStart ==
  /\ scheduled /\ irqsrc /\ tasklet = "off"
  /\ scheduled' = FALSE
  /\ irqsrc' = FALSE
  /\ tasklet' = "read"
  /\ UNCHANGED <<intstat, irqOn, events, procVars, raised, delivered, owed>>

\* Mutant: the events of the last interrupt are overwritten.
TaskletOverwrites ==
  /\ tasklet = "read"
  /\ status' = intstat
  /\ pending' = TRUE
  /\ tasklet' = "clear"
  /\ UNCHANGED <<intstat, irqVars, procVars, raised, delivered, owed>>

TaskletRead ==
  /\ tasklet = "read"
  /\ status' = status \cup intstat
  /\ pending' = TRUE
  /\ tasklet' = "clear"
  /\ UNCHANGED <<intstat, irqVars, procVars, raised, delivered, owed>>

\* Mutant: INTCLR is never written.
TaskletKeeps ==
  /\ tasklet = "clear"
  /\ tasklet' = "wake"
  /\ UNCHANGED <<intstat, irqVars, events, procVars, raised, delivered, owed>>

\* Mutant: nobody is woken.
TaskletClearSilently ==
  /\ tasklet = "clear"
  /\ intstat' = intstat \ status
  /\ tasklet' = "enable"
  /\ UNCHANGED <<irqVars, events, procVars, raised, delivered, owed>>

\* INTCLR is written with all that is in status, not only what was just read.
TaskletClear ==
  /\ tasklet = "clear"
  /\ intstat' = intstat \ status
  /\ tasklet' = "wake"
  /\ UNCHANGED <<irqVars, events, procVars, raised, delivered, owed>>

\* Entries in hw_events.wq: poll_wait precedes the check.
Waiting == {p \in Procs : pc[p] \in {"check", "asleep"}}

TaskletWake ==
  /\ tasklet = "wake"
  /\ woken' = [p \in Procs |-> woken[p] \/ p \in Waiting]
  /\ tasklet' = "enable"
  /\ UNCHANGED <<intstat, irqVars, events, pc, got, raised, delivered, owed>>

\* Mutant: interrupts stay off after an application interrupt.
TaskletLeavesOff ==
  /\ tasklet = "enable"
  /\ tasklet' = "off"
  /\ UNCHANGED <<intstat, irqVars, events, procVars, raised, delivered, owed>>

TaskletEnable ==
  /\ tasklet = "enable"
  /\ irqOn' = TRUE
  /\ tasklet' = "off"
  /\ UNCHANGED <<intstat, irqsrc, scheduled, events, procVars, raised, delivered,
                 owed>>
-----------------------------------------------------------------------------
(* Processes                                                               *)

Unlocked == tasklet # "clear"

\* poll_wait
PollWait(p) ==
  /\ pc[p] = "run"
  /\ pc' = [pc EXCEPT ![p] = "check"]
  /\ woken' = [woken EXCEPT ![p] = FALSE]
  /\ UNCHANGED <<intstat, irqVars, tasklet, events, got, raised, delivered, owed>>

\* The rest of tpce_poll, then the kernel sleeps if there was nothing.
PollCheck(p) ==
  /\ pc[p] = "check" /\ Unlocked
  /\ pending' = FALSE
  /\ pc' = [pc EXCEPT ![p] = IF pending THEN "ready" ELSE "asleep"]
  /\ UNCHANGED <<intstat, irqVars, tasklet, status, got, woken, raised, delivered,
                 owed>>

\* The kernel calls tpce_poll again; the entry stays in the queue.
PollAgain(p) ==
  /\ pc[p] = "asleep" /\ woken[p]
  /\ woken' = [woken EXCEPT ![p] = FALSE]
  /\ pc' = [pc EXCEPT ![p] = "check"]
  /\ UNCHANGED <<intstat, irqVars, tasklet, events, got, raised, delivered, owed>>

\* TPCE_IOC_EVENT, with or without a poll before
Event(p) ==
  /\ pc[p] \in {"run", "ready"} /\ Unlocked
  /\ got' = [got EXCEPT ![p] = status]
  /\ status' = {}
  /\ delivered' = [e \in Events |-> delivered[e] + (IF e \in status THEN 1 ELSE 0)]
  /\ owed' = owed \ status
  /\ pc' = [pc EXCEPT ![p] = "copy"]
  /\ UNCHANGED <<intstat, irqVars, tasklet, pending, woken, raised>>

\* copy_to_user; if it fails "some events may have been lost" (main.c:187).
EventCopy(p) ==
  /\ pc[p] = "copy"
  /\ got' = [got EXCEPT ![p] = {}]
  /\ pc' = [pc EXCEPT ![p] = "run"]
  /\ UNCHANGED <<intstat, irqVars, tasklet, events, woken, raised, delivered, owed>>
-----------------------------------------------------------------------------
Tasklet == \/ TaskletStart \/ TaskletRead \/ TaskletClear \/ TaskletWake
           \/ TaskletEnable

Process(p) == \/ PollWait(p) \/ PollCheck(p) \/ PollAgain(p)
              \/ Event(p) \/ EventCopy(p)

Next == \/ \E e \in Events : Raise(e)
        \/ Isr \/ Tasklet
        \/ \E p \in Procs : Process(p)

Spec == Init /\ [][Next]_vars

\* Interrupts and softirqs run; a process is an event loop: it polls again when
\* it has nothing to do, and reads when poll says so.
FairSpec == /\ Spec /\ WF_vars(Isr) /\ WF_vars(Tasklet)
            /\ \A p \in Procs : /\ WF_vars(PollWait(p) \/ EventCopy(p))
                                /\ SF_vars(PollCheck(p)) /\ WF_vars(PollAgain(p))
                                /\ SF_vars(pc[p] = "ready" /\ Event(p))
-----------------------------------------------------------------------------
(* Properties                                                              *)

\* Every variable has its type.
TypeOK ==
  /\ intstat \subseteq Events /\ status \subseteq Events /\ owed \subseteq Events
  /\ irqOn \in BOOLEAN /\ irqsrc \in BOOLEAN /\ scheduled \in BOOLEAN
  /\ pending \in BOOLEAN
  /\ tasklet \in {"off", "read", "clear", "wake", "enable"}
  /\ pc \in [Procs -> {"run", "check", "asleep", "ready", "copy"}]
  /\ got \in [Procs -> SUBSET Events] /\ woken \in [Procs -> BOOLEAN]
  /\ raised \in [Events -> 0 .. MaxRaises] /\ delivered \in [Events -> Nat]

\* An event that nobody has taken since it was raised is in the device or in
\* hw_events, though the device raises it again between read and clear.
EventsNotLost == owed \subseteq intstat \cup status

\* An event is not taken more often than it was raised, one that is still to be
\* taken included: the tasklet does not report the same raise twice.
EventsNotRepeated ==
  \A e \in Events : delivered[e] + (IF e \in status THEN 1 ELSE 0) <= raised[e]

\* pending is shared, and poll takes it away: whenever there are events, it is
\* still up or some process has been told and will read.  While it is up no process
\* sleeps whose wake-up is not on the way.
EventsAnnounced ==
  /\ status # {} => pending \/ \E p \in Procs : pc[p] = "ready"
  /\ \A p \in Procs : pc[p] = "asleep" /\ pending
                       => woken[p] \/ tasklet \in {"clear", "wake"}

\* While a process polls, every event it or another one is owed is taken.
EventsDelivered == \A e \in Events : e \in owed ~> e \notin owed
=============================================================================
