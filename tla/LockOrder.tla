------------------------------- MODULE LockOrder -------------------------------
(***************************************************************************)
(* Who waits for whom: the calls of the driver as the sequences of locks   *)
(* they take, tpce->mutex, the dma_info->mutex of one channel and the      *)
(* kernel's mmap_lock of each process.  What they do in between is         *)
(* left out, and so are the spinlocks, under which nothing is waited for.  *)
(*                                                                         *)
(* The wait for a transfer is bounded by a timeout (tpce.h:226), so here   *)
(* it is only the two looks at the state, under the channel's mutex.  The  *)
(* return of mmap with tpce->mutex locked is Lifecycle's subject.          *)
(***************************************************************************)
EXTENDS Sequences, Functions

CONSTANTS
  Threads, Worker,  \* Worker, one of them, runs the channel's work item
  MmOf,             \* the address space of each thread
  CallsOf,          \* the calls each thread makes
  Faulting,         \* threads whose copies from and to user space fault
  None

ASSUME LockOrderAssumption ==
  /\ Worker \in Threads /\ None \notin Threads
  /\ DOMAIN MmOf = Threads /\ DOMAIN CallsOf = Threads /\ Faulting \subseteq Threads
  /\ \A t \in Threads : CallsOf[t] \subseteq {"lock_buffer", "execute", "cancel", "status",
                                            "event", "map", "close", "work", "remove"}
  /\ CallsOf[Worker] \subseteq {"work"}

Mutexes == {"tpce", "dma"}
Mms == Range(MmOf)

VARIABLES
  todo,             \* what is left of each thread's call
  owner,            \* of each mutex
  readers, writer   \* of each mmap_lock

vars == <<todo, owner, readers, writer>>

Init ==
  /\ todo = [t \in Threads |-> <<>>]
  /\ owner = [l \in Mutexes |-> None]
  /\ readers = [m \in Mms |-> {}] /\ writer = [m \in Mms |-> None]
-----------------------------------------------------------------------------
(* Calls                                                                   *)

Lock(l)   == [op |-> "lock", mutex |-> l]
Unlock(l) == [op |-> "unlock", mutex |-> l]
ReadMm    == <<[op |-> "read"], [op |-> "unread"]>>
With(l, steps)  == <<Lock(l)>> \o steps \o <<Unlock(l)>>
WriteMm(steps)  == <<[op |-> "write"]>> \o steps \o <<[op |-> "unwrite"]>>

\* copy_from_user, copy_to_user
Copy(t) == IF t \in Faulting THEN ReadMm ELSE <<>>

\* tpce_ioctl, around the dispatcher
Ioctl(t, steps) == Copy(t) \o With("tpce", Copy(t) \o steps \o Copy(t))

LockBuffer(t) == Ioctl(t, ReadMm \o Copy(t))

\* Descriptors from user space are copied under both mutexes; then the wait and
\* the cleanup.
Execute(t) == Ioctl(t, With("dma", Copy(t)) \o With("dma", <<>>) \o With("dma", <<>>)
                         \o With("dma", <<>>))

\* Mutant: the channel is locked first.
CancelChannelFirst(t) == With("dma", With("tpce", <<>>))

\* DMA_CANCEL, and UNLOCK_DMA_BUFFER of a busy mapping
Cancel(t) == Ioctl(t, With("dma", <<>>))

\* Without tpce->mutex.
DmaStatus(t) == Copy(t) \o Copy(t) \o With("dma", <<>>) \o Copy(t)
Event(t) == Copy(t) \o Copy(t)

\* Mutant: an early return without the unlock.
MapReturnsLocked == WriteMm(<<Lock("tpce")>>)

\* mmap, and the last close of an area
Map == WriteMm(With("tpce", <<>>))

\* tpce_release, with a transfer on one of the file's mappings
Close == With("tpce", With("dma", <<>>))

Work == With("dma", <<>>)

\* going_away, cancel_work_sync, reset
Remove == With("tpce", <<>>) \o <<[op |-> "join"]>> \o With("tpce", <<>>)

Path(t, call) ==
  CASE call = "lock_buffer" -> LockBuffer(t)
    [] call = "execute"     -> Execute(t)
    [] call = "cancel"      -> Cancel(t)
    [] call = "status"      -> DmaStatus(t)
    [] call = "event"       -> Event(t)
    [] call = "map"         -> Map
    [] call = "close"       -> Close
    [] call = "work"        -> Work
    [] call = "remove"      -> Remove

Begin(t) ==
  /\ todo[t] = <<>>
  /\ \E call \in CallsOf[t] : todo' = [todo EXCEPT ![t] = Path(t, call)]
  /\ UNCHANGED <<owner, readers, writer>>
-----------------------------------------------------------------------------
(* Locks                                                                   *)

At(t, op) == todo[t] # <<>> /\ Head(todo[t]).op = op
Advance(t) == todo' = [todo EXCEPT ![t] = Tail(@)]

\* A writer in the queue keeps new readers out.
WaitsFor(t, u) ==
  LET m == MmOf[t] IN
  \/ At(t, "lock") /\ owner[Head(todo[t]).mutex] = u
  \/ At(t, "read") /\ (writer[m] = u \/ (MmOf[u] = m /\ At(u, "write")))
  \/ At(t, "write") /\ (writer[m] = u \/ u \in readers[m])
  \/ At(t, "join") /\ u = Worker /\ todo[u] # <<>>

Acquire(t) ==
  /\ At(t, "lock")
  /\ owner[Head(todo[t]).mutex] = None
  /\ owner' = [owner EXCEPT ![Head(todo[t]).mutex] = t]
  /\ Advance(t) /\ UNCHANGED <<readers, writer>>

ReleaseMutex(t) ==
  /\ At(t, "unlock")
  /\ owner' = [owner EXCEPT ![Head(todo[t]).mutex] = None]
  /\ Advance(t) /\ UNCHANGED <<readers, writer>>

MmapReadLock(t) ==
  /\ At(t, "read")
  /\ \A u \in Threads : ~WaitsFor(t, u)
  /\ readers' = [readers EXCEPT ![MmOf[t]] = @ \cup {t}]
  /\ Advance(t) /\ UNCHANGED <<owner, writer>>

MmapReadUnlock(t) ==
  /\ At(t, "unread")
  /\ readers' = [readers EXCEPT ![MmOf[t]] = @ \ {t}]
  /\ Advance(t) /\ UNCHANGED <<owner, writer>>

MmapWriteLock(t) ==
  /\ At(t, "write")
  /\ \A u \in Threads : ~WaitsFor(t, u)
  /\ writer' = [writer EXCEPT ![MmOf[t]] = t]
  /\ Advance(t) /\ UNCHANGED <<owner, readers>>

MmapWriteUnlock(t) ==
  /\ At(t, "unwrite")
  /\ writer' = [writer EXCEPT ![MmOf[t]] = None]
  /\ Advance(t) /\ UNCHANGED <<owner, readers>>

\* cancel_work_sync
Join(t) ==
  /\ At(t, "join") /\ todo[Worker] = <<>>
  /\ Advance(t) /\ UNCHANGED <<owner, readers, writer>>

Step(t) == \/ Acquire(t) \/ ReleaseMutex(t)
           \/ MmapReadLock(t) \/ MmapReadUnlock(t)
           \/ MmapWriteLock(t) \/ MmapWriteUnlock(t)
           \/ Join(t)

Next == \E t \in Threads : Begin(t) \/ Step(t)

Spec == Init /\ [][Next]_vars

\* Nobody has to make a call.  A call that has begun goes on; the kernel's locks
\* are handed over to those who wait.
FairSpec == Spec /\ \A t \in Threads : SF_vars(Step(t))
-----------------------------------------------------------------------------
(* Properties                                                              *)

\* mmap_lock comes before tpce->mutex in mmap, and after it in a call that pins
\* a buffer or faults while it copies.  Both are safe as long as the process of such a
\* call has no other thread that maps.
ReadsUnderMutex(t) == \/ "lock_buffer" \in CallsOf[t]
                      \/ t \in Faulting /\ CallsOf[t] \cap {"execute", "cancel"} # {}

MapsApart == \A t, u \in Threads : ReadsUnderMutex(t) /\ t # u /\ MmOf[t] = MmOf[u]
                                     => "map" \notin CallsOf[u]

\* Threads never wait for one another in a circle, whichever calls overlap.
NoWaitCycle ==
  ~ \E S \in (SUBSET Threads) \ {{}} : \A t \in S : \E u \in S : WaitsFor(t, u)

\* Every call ends, whatever the others do, removal included.
CallsEnd == \A t \in Threads : todo[t] # <<>> ~> todo[t] = <<>>
=============================================================================
