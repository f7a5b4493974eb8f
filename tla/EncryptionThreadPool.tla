------------------------ MODULE EncryptionThreadPool ------------------------
(***************************************************************************)
(* The pool of encryption threads (src/Common/EncryptionThreadPool.c).     *)
(*                                                                         *)
(* A client calls DoWork with a buffer of data units.  DoWork cuts the     *)
(* buffer into fragments, puts them in consecutive slots of a ring, and    *)
(* waits for the last of them; worker threads take the slots in ring       *)
(* order.  The slot of the first fragment also holds the count of the      *)
(* operation's unfinished fragments and the event its client waits for, so *)
(* a worker that has given its own slot back still follows that slot's     *)
(* FirstFragment pointer.  Nothing but the order of the ring protects it.  *)
(*                                                                         *)
(* Events are auto-reset: a wait that succeeds clears the event.  A loop   *)
(* "while (condition) TC_WAIT_EVENT" is two steps, the test and the wait,  *)
(* so that a wake-up lost between them would be seen.                      *)
(***************************************************************************)
EXTENDS Integers

CONSTANTS
    Workers,    \* threads that run EncryptionThreadProc
    Clients,    \* threads that call EncryptionThreadPoolDoWork
    QueueSize,  \* TC_ENC_THREAD_POOL_QUEUE_SIZE, the slots there are
    LegacyQueueSize, \* the slots used on a machine with one processor group
    ThreadCount,\* ThreadCount, the number of workers
    MaxUnits,   \* bound on the data units of one call
    Sizes,      \* the numbers of units that calls have
    NoThread    \* the owner of a mutex nobody holds

\* Either size is twice the largest ThreadCount it is used with (lines 20 to 24).
ASSUME PoolAssumption ==
    /\ ThreadCount \in Nat \ {0}
    /\ QueueSize \in Nat
    /\ LegacyQueueSize \in Nat
    /\ ThreadCount <= LegacyQueueSize /\ LegacyQueueSize <= QueueSize
    /\ MaxUnits \in Nat
    /\ Sizes \subseteq 1 .. MaxUnits
    /\ NoThread \notin Workers \cup Clients

VARIABLES
    running,        \* ThreadPoolRunning
    stopPending,    \* StopPending
    queueSize,      \* ThreadQueueSize
    itemState,      \* WorkItemQueue[s].State
    item,           \* WorkItemQueue[s].Encryption: whose units, and which
    firstFragment,  \* WorkItemQueue[s].FirstFragment
    outstanding,    \* WorkItemQueue[s].OutstandingFragmentCount
    itemCompleted,  \* WorkItemQueue[s].ItemCompletedEvent
    enqueuePos,     \* EnqueuePosition
    dequeuePos,     \* DequeuePosition
    enqueueMutex,   \* holder of EnqueueMutex
    dequeueMutex,   \* holder of DequeueMutex
    readyEvent,     \* WorkItemReadyEvent
    completedEvent, \* WorkItemCompletedEvent
    wpc, wslot,     \* each worker's next step, and its workItem
    serving,        \* history: whose operation each worker's fragment was part of
                    \* when claimed, while that operation lasts
    cpc, cslot, op, \* each client's next step, workItem, and DoWork's locals
    data            \* how often each unit of a client's buffer was transformed

ringVars   == <<itemState, item, firstFragment, outstanding, itemCompleted>>
poolVars   == <<running, stopPending, queueSize>>
workerVars == <<wpc, wslot, serving>>
clientVars == <<cpc, cslot, op>>
vars == <<ringVars, poolVars, workerVars, clientVars, enqueuePos, dequeuePos,
          enqueueMutex, dequeueMutex, readyEvent, completedEvent, data>>

Slots == 0 .. QueueSize - 1
Units == 1 .. MaxUnits
\* Mutant of After: the position is not wrapped at the end of the ring.
AfterUnwrapped(s) == s + 1

After(s) == IF s + 1 >= queueSize THEN 0 ELSE s + 1

\* A fragment: the client whose buffer it is, the units before it, its length.
Fragment == [owner : Clients \cup {NoThread}, start : Nat, count : Nat]
NoFragment == [owner |-> NoThread, start |-> 0, count |-> 0]

\* The units fragment f covers, and buffer b once they are transformed.
Covered(f) == f.start + 1 .. f.start + f.count
Transform(b, U) == [u \in Units |-> IF u \in U THEN b[u] + 1 ELSE b[u]]

Operation == [units : Nat, fragments : Nat, perFragment : Nat, remainder : Nat,
              start : Nat, first : Slots]

\* DoWork's locals when a call with n units begins (lines 645 to 666).
Split(n) ==
    [units       |-> n,
     fragments   |-> IF n <= ThreadCount THEN n ELSE ThreadCount,
     perFragment |-> IF n <= ThreadCount THEN 1
                     ELSE IF n % ThreadCount = 0 THEN n \div ThreadCount
                     ELSE n \div ThreadCount + 1,
     remainder   |-> IF n <= ThreadCount THEN 0 ELSE n % ThreadCount,
     start       |-> 0,
     first       |-> 0]

Untouched == [u \in Units |-> 0]

\* Before the first Start: no thread exists, static storage is zero.
Init ==
    /\ running = FALSE /\ stopPending = FALSE /\ queueSize = LegacyQueueSize
    /\ itemState = [s \in Slots |-> "Free"]
    /\ item = [s \in Slots |-> NoFragment]
    /\ firstFragment = [s \in Slots |-> s]
    /\ outstanding = [s \in Slots |-> 0]
    /\ itemCompleted = [s \in Slots |-> FALSE]
    /\ enqueuePos = 0 /\ dequeuePos = 0
    /\ enqueueMutex = NoThread /\ dequeueMutex = NoThread
    /\ readyEvent = FALSE /\ completedEvent = FALSE
    /\ wpc = [w \in Workers |-> "exited"] /\ wslot = [w \in Workers |-> 0]
    /\ serving = [w \in Workers |-> NoThread]
    /\ cpc = [c \in Clients |-> "idle"] /\ cslot = [c \in Clients |-> 0]
    /\ op = [c \in Clients |-> Split(0)]
    /\ data = [c \in Clients |-> Untouched]

-----------------------------------------------------------------------------
(* EncryptionThreadProc *)

WorkerAt(w, from, to) == wpc[w] = from /\ wpc' = [wpc EXCEPT ![w] = to]

Serve(w, c) == serving' = [serving EXCEPT ![w] = c]

\* while (!StopPending)
WorkerTop(w) ==
    /\ WorkerAt(w, "top", IF stopPending THEN "exited" ELSE "lock")
    /\ UNCHANGED <<ringVars, poolVars, wslot, serving, clientVars, enqueuePos,
                   dequeuePos, enqueueMutex, dequeueMutex, readyEvent, completedEvent, data>>

\* Acquire DequeueMutex and take the next slot of the ring, whatever its state.
WorkerLock(w) ==
    /\ WorkerAt(w, "lock", "test")
    /\ dequeueMutex = NoThread
    /\ dequeueMutex' = w
    /\ wslot' = [wslot EXCEPT ![w] = dequeuePos]
    /\ dequeuePos' = After(dequeuePos)
    /\ UNCHANGED <<ringVars, poolVars, serving, clientVars, enqueuePos, enqueueMutex,
                   readyEvent, completedEvent, data>>

\* Mutant of WorkerClaim: the slot is not marked Busy.
WorkerClaimUnmarked(w) ==
    /\ WorkerAt(w, "test", "work")
    /\ stopPending \/ itemState[wslot[w]] = "Ready"
    /\ dequeueMutex' = NoThread
    /\ Serve(w, item[wslot[w]].owner)
    /\ UNCHANGED <<ringVars, poolVars, wslot, clientVars, enqueuePos, dequeuePos,
                   enqueueMutex, readyEvent, completedEvent, data>>

\* The slot is ready, or the pool stops: mark it Busy, release the mutex.
WorkerClaim(w) ==
    /\ WorkerAt(w, "test", "work")
    /\ stopPending \/ itemState[wslot[w]] = "Ready"
    /\ itemState' = [itemState EXCEPT ![wslot[w]] = "Busy"]
    /\ dequeueMutex' = NoThread
    /\ Serve(w, item[wslot[w]].owner)
    /\ UNCHANGED <<item, firstFragment, outstanding, itemCompleted, poolVars, wslot,
                   clientVars, enqueuePos, dequeuePos, enqueueMutex, readyEvent,
                   completedEvent, data>>

\* The slot is not ready: go and wait.
WorkerNotReady(w) ==
    /\ WorkerAt(w, "test", "wait")
    /\ ~stopPending /\ itemState[wslot[w]] # "Ready"
    /\ UNCHANGED <<ringVars, poolVars, wslot, serving, clientVars, enqueuePos,
                   dequeuePos, enqueueMutex, dequeueMutex, readyEvent, completedEvent, data>>

\* TC_WAIT_EVENT (WorkItemReadyEvent)
WorkerWait(w) ==
    /\ WorkerAt(w, "wait", "test")
    /\ readyEvent
    /\ readyEvent' = FALSE
    /\ UNCHANGED <<ringVars, poolVars, wslot, serving, clientVars, enqueuePos,
                   dequeuePos, enqueueMutex, dequeueMutex, completedEvent, data>>

\* if (StopPending) break
WorkerBreak(w) ==
    /\ WorkerAt(w, "work", "exited")
    /\ stopPending
    /\ Serve(w, NoThread)
    /\ UNCHANGED <<ringVars, poolVars, wslot, clientVars, enqueuePos, dequeuePos,
                   enqueueMutex, dequeueMutex, readyEvent, completedEvent, data>>

\* Mutant of WorkerWork: the first fragment's slot is given back as well.
WorkerWorkFreeFirst(w) ==
    /\ WorkerAt(w, "work", "free")
    /\ ~stopPending
    /\ LET f == item[wslot[w]]
       IN  data' = [data EXCEPT ![f.owner] = Transform(@, Covered(f))]
    /\ UNCHANGED <<ringVars, poolVars, wslot, serving, clientVars, enqueuePos,
                   dequeuePos, enqueueMutex, dequeueMutex, readyEvent, completedEvent>>

\* Encrypt or decrypt the units of the fragment.  The slot of an operation's
\* first fragment is kept until its client has seen the completion.
WorkerWork(w) ==
    /\ WorkerAt(w, "work", IF wslot[w] = firstFragment[wslot[w]] THEN "decrement" ELSE "free")
    /\ ~stopPending
    /\ LET f == item[wslot[w]]
       IN  data' = [data EXCEPT ![f.owner] = Transform(@, Covered(f))]
    /\ UNCHANGED <<ringVars, poolVars, wslot, serving, clientVars, enqueuePos,
                   dequeuePos, enqueueMutex, dequeueMutex, readyEvent, completedEvent>>

\* A fragment that is not the first gives its slot back ...
WorkerFree(w) ==
    /\ WorkerAt(w, "free", "signal")
    /\ itemState' = [itemState EXCEPT ![wslot[w]] = "Free"]
    /\ UNCHANGED <<item, firstFragment, outstanding, itemCompleted, poolVars, wslot,
                   serving, clientVars, enqueuePos, dequeuePos, enqueueMutex, dequeueMutex,
                   readyEvent, completedEvent, data>>

\* ... and says so.
WorkerSignal(w) ==
    /\ WorkerAt(w, "signal", "decrement")
    /\ completedEvent' = TRUE
    /\ UNCHANGED <<ringVars, poolVars, wslot, serving, clientVars, enqueuePos,
                   dequeuePos, enqueueMutex, dequeueMutex, readyEvent, data>>

\* InterlockedDecrement (&workItem->FirstFragment->OutstandingFragmentCount),
\* through the FirstFragment field of a slot that may be free by now.
WorkerDecrement(w) ==
    LET f == firstFragment[wslot[w]]
    IN  /\ WorkerAt(w, "decrement", IF outstanding[f] = 1 THEN "complete" ELSE "top")
        /\ outstanding' = [outstanding EXCEPT ![f] = @ - 1]
        /\ Serve(w, IF outstanding[f] = 1 THEN serving[w] ELSE NoThread)
        /\ UNCHANGED <<itemState, item, firstFragment, itemCompleted, poolVars, wslot,
                       clientVars, enqueuePos, dequeuePos, enqueueMutex, dequeueMutex,
                       readyEvent, completedEvent, data>>

\* TC_SET_EVENT (workItem->FirstFragment->ItemCompletedEvent)
WorkerComplete(w) ==
    /\ WorkerAt(w, "complete", "top")
    /\ itemCompleted' = [itemCompleted EXCEPT ![firstFragment[wslot[w]]] = TRUE]
    /\ Serve(w, NoThread)
    /\ UNCHANGED <<itemState, item, firstFragment, outstanding, poolVars, wslot,
                   clientVars, enqueuePos, dequeuePos, enqueueMutex, dequeueMutex,
                   readyEvent, completedEvent, data>>

Worker(w) ==
    \/ WorkerTop(w) \/ WorkerLock(w) \/ WorkerClaim(w) \/ WorkerNotReady(w)
    \/ WorkerWait(w) \/ WorkerBreak(w) \/ WorkerWork(w) \/ WorkerFree(w)
    \/ WorkerSignal(w) \/ WorkerDecrement(w) \/ WorkerComplete(w)

-----------------------------------------------------------------------------
(* EncryptionThreadPoolDoWork *)

ClientAt(c, from, to) == cpc[c] = from /\ cpc' = [cpc EXCEPT ![c] = to]

\* A client calls DoWork with a fresh buffer of n units; a call with none
\* returns at once.  Both callers of EncryptionThreadPoolStop stop their
\* clients first, hence the last guard.
Call(c, n) ==
    /\ ClientAt(c, "idle", "dispatch")
    /\ ~(running /\ stopPending)
    /\ op' = [op EXCEPT ![c] = Split(n)]
    /\ UNCHANGED <<ringVars, poolVars, workerVars, cslot, enqueuePos, dequeuePos,
                   enqueueMutex, dequeueMutex, readyEvent, completedEvent, data>>

\* One unit, or no pool: the client does the work itself.
CurrentThread(c) ==
    /\ ClientAt(c, "dispatch", "return")
    /\ ~running \/ op[c].units <= 1
    /\ data' = [data EXCEPT ![c] = Transform(@, 1 .. op[c].units)]
    /\ UNCHANGED <<ringVars, poolVars, workerVars, cslot, op, enqueuePos, dequeuePos,
                   enqueueMutex, dequeueMutex, readyEvent, completedEvent>>

UsePool(c) ==
    /\ ClientAt(c, "dispatch", "lock")
    /\ running /\ op[c].units > 1
    /\ UNCHANGED <<ringVars, poolVars, workerVars, cslot, op, enqueuePos, dequeuePos,
                   enqueueMutex, dequeueMutex, readyEvent, completedEvent, data>>

\* Acquire EnqueueMutex; the next slot will hold the first fragment.
EnqueueLock(c) ==
    /\ ClientAt(c, "lock", "testFirst")
    /\ enqueueMutex = NoThread
    /\ enqueueMutex' = c
    /\ op' = [op EXCEPT ![c].first = enqueuePos]
    /\ UNCHANGED <<ringVars, poolVars, workerVars, cslot, enqueuePos, dequeuePos,
                   dequeueMutex, readyEvent, completedEvent, data>>

FirstFree(c) ==
    /\ ClientAt(c, "testFirst", "next")
    /\ itemState[op[c].first] = "Free"
    /\ outstanding' = [outstanding EXCEPT ![op[c].first] = op[c].fragments]
    /\ UNCHANGED <<itemState, item, firstFragment, itemCompleted, poolVars, workerVars,
                   cslot, op, enqueuePos, dequeuePos, enqueueMutex, dequeueMutex,
                   readyEvent, completedEvent, data>>

FirstTaken(c) ==
    /\ ClientAt(c, "testFirst", "waitFirst")
    /\ itemState[op[c].first] # "Free"
    /\ UNCHANGED <<ringVars, poolVars, workerVars, cslot, op, enqueuePos, dequeuePos,
                   enqueueMutex, dequeueMutex, readyEvent, completedEvent, data>>

\* TC_WAIT_EVENT (WorkItemCompletedEvent), in either loop.
WaitCompleted(c, from, to) ==
    /\ ClientAt(c, from, to)
    /\ completedEvent
    /\ completedEvent' = FALSE
    /\ UNCHANGED <<ringVars, poolVars, workerVars, cslot, op, enqueuePos, dequeuePos,
                   enqueueMutex, dequeueMutex, readyEvent, data>>

\* while (fragmentCount-- > 0): take the next slot ...
NextSlot(c) ==
    /\ ClientAt(c, "next", "testSlot")
    /\ op[c].fragments > 0
    /\ op' = [op EXCEPT ![c].fragments = @ - 1]
    /\ cslot' = [cslot EXCEPT ![c] = enqueuePos]
    /\ enqueuePos' = After(enqueuePos)
    /\ UNCHANGED <<ringVars, poolVars, workerVars, dequeuePos, enqueueMutex,
                   dequeueMutex, readyEvent, completedEvent, data>>

SlotTaken(c) ==
    /\ ClientAt(c, "testSlot", "waitSlot")
    /\ itemState[cslot[c]] # "Free"
    /\ UNCHANGED <<ringVars, poolVars, workerVars, cslot, op, enqueuePos, dequeuePos,
                   enqueueMutex, dequeueMutex, readyEvent, completedEvent, data>>

\* ... and fill it once it is free: the slot is Ready ...
Fill(c) ==
    LET o == op[c]
        last == o.remainder = 1    \* remainder > 0 && --remainder == 0
    IN  /\ ClientAt(c, "testSlot", "publish")
        /\ itemState[cslot[c]] = "Free"
        /\ itemState' = [itemState EXCEPT ![cslot[c]] = "Ready"]
        /\ item' = [item EXCEPT ![cslot[c]] =
                      [owner |-> c, start |-> o.start, count |-> o.perFragment]]
        /\ firstFragment' = [firstFragment EXCEPT ![cslot[c]] = o.first]
        /\ op' = [op EXCEPT ![c].start = @ + o.perFragment,
                            ![c].remainder = IF @ > 0 THEN @ - 1 ELSE 0,
                            ![c].perFragment = IF last THEN @ - 1 ELSE @]
        /\ UNCHANGED <<outstanding, itemCompleted, poolVars, workerVars, cslot,
                       enqueuePos, dequeuePos, enqueueMutex, dequeueMutex, readyEvent,
                       completedEvent, data>>

\* ... and its event is set.
Publish(c) ==
    /\ ClientAt(c, "publish", "next")
    /\ readyEvent' = TRUE
    /\ UNCHANGED <<ringVars, poolVars, workerVars, cslot, op, enqueuePos, dequeuePos,
                   enqueueMutex, dequeueMutex, completedEvent, data>>

EnqueueUnlock(c) ==
    /\ ClientAt(c, "next", "await")
    /\ op[c].fragments = 0
    /\ enqueueMutex' = NoThread
    /\ UNCHANGED <<ringVars, poolVars, workerVars, cslot, op, enqueuePos, dequeuePos,
                   dequeueMutex, readyEvent, completedEvent, data>>

\* Mutant of Await: the client does not wait for its event.
AwaitNothing(c) ==
    /\ ClientAt(c, "await", "release")
    /\ UNCHANGED <<ringVars, poolVars, workerVars, cslot, op, enqueuePos, dequeuePos,
                   enqueueMutex, dequeueMutex, readyEvent, completedEvent, data>>

\* TC_WAIT_EVENT (firstFragmentWorkItem->ItemCompletedEvent)
Await(c) ==
    /\ ClientAt(c, "await", "release")
    /\ itemCompleted[op[c].first]
    /\ itemCompleted' = [itemCompleted EXCEPT ![op[c].first] = FALSE]
    /\ UNCHANGED <<itemState, item, firstFragment, outstanding, poolVars, workerVars,
                   cslot, op, enqueuePos, dequeuePos, enqueueMutex, dequeueMutex,
                   readyEvent, completedEvent, data>>

Release(c) ==
    /\ ClientAt(c, "release", "signal")
    /\ itemState' = [itemState EXCEPT ![op[c].first] = "Free"]
    /\ serving' = [w \in Workers |-> IF serving[w] = c THEN NoThread ELSE serving[w]]
    /\ UNCHANGED <<item, firstFragment, outstanding, itemCompleted, poolVars,
                   wpc, wslot, cslot, op, enqueuePos, dequeuePos, enqueueMutex,
                   dequeueMutex, readyEvent, completedEvent, data>>

\* DoWork's locals are gone and the buffer is the caller's again.
Leave(c, from) ==
    /\ ClientAt(c, from, "idle")
    /\ op' = [op EXCEPT ![c] = Split(0)]
    /\ cslot' = [cslot EXCEPT ![c] = 0]
    /\ data' = [data EXCEPT ![c] = Untouched]
    /\ UNCHANGED <<ringVars, poolVars, workerVars, enqueuePos, dequeuePos,
                   enqueueMutex, dequeueMutex, readyEvent>>

\* Mutant of Signal: the event is not set.
SignalMissing(c) ==
    /\ Leave(c, "signal")
    /\ UNCHANGED completedEvent

\* TC_SET_EVENT (WorkItemCompletedEvent), and DoWork returns.
Signal(c) ==
    /\ Leave(c, "signal")
    /\ completedEvent' = TRUE

Return(c) ==
    /\ Leave(c, "return")
    /\ UNCHANGED completedEvent

\* The steps of a call that has begun.
DoWork(c) ==
    \/ CurrentThread(c) \/ UsePool(c) \/ EnqueueLock(c) \/ FirstFree(c) \/ FirstTaken(c)
    \/ WaitCompleted(c, "waitFirst", "testFirst")
    \/ NextSlot(c) \/ SlotTaken(c) \/ WaitCompleted(c, "waitSlot", "testSlot")
    \/ Fill(c) \/ Publish(c) \/ EnqueueUnlock(c) \/ Await(c) \/ Release(c)
    \/ Signal(c) \/ Return(c)

-----------------------------------------------------------------------------
(* EncryptionThreadPoolStart and EncryptionThreadPoolStop *)

\* Start: every variable of the pool is reset and every thread starts.  With
\* several processor groups the ring is made larger, and stays so.
Start ==
    /\ ~running /\ \A w \in Workers : wpc[w] = "exited"
    /\ running' = TRUE /\ stopPending' = FALSE
    /\ queueSize' \in {queueSize, QueueSize}
    /\ enqueuePos' = 0 /\ dequeuePos' = 0
    /\ enqueueMutex' = NoThread /\ dequeueMutex' = NoThread
    /\ readyEvent' = FALSE /\ completedEvent' = FALSE
    /\ itemState' = [s \in Slots |-> "Free"]
    /\ item' = [s \in Slots |-> NoFragment]
    /\ firstFragment' = [s \in Slots |-> s]
    /\ outstanding' = [s \in Slots |-> 0]
    /\ itemCompleted' = [s \in Slots |-> FALSE]
    /\ wpc' = [w \in Workers |-> "top"]
    /\ wslot' = [w \in Workers |-> 0]
    /\ serving' = [w \in Workers |-> NoThread]
    /\ UNCHANGED <<clientVars, data>>

\* Mutant of BeginStop: no wake-up is sent.
BeginStopSilent ==
    /\ running /\ ~stopPending
    /\ \A c \in Clients : cpc[c] = "idle"
    /\ stopPending' = TRUE
    /\ UNCHANGED <<running, queueSize, ringVars, workerVars, clientVars, enqueuePos,
                   dequeuePos, enqueueMutex, dequeueMutex, readyEvent, completedEvent, data>>

\* Stop: StopPending is raised and one wake-up is sent to all the workers.
BeginStop ==
    /\ running /\ ~stopPending
    /\ \A c \in Clients : cpc[c] = "idle"
    /\ stopPending' = TRUE
    /\ readyEvent' = TRUE
    /\ UNCHANGED <<running, queueSize, ringVars, workerVars, clientVars, enqueuePos,
                   dequeuePos, enqueueMutex, dequeueMutex, completedEvent, data>>

\* Every thread has been joined.
EndStop ==
    /\ running /\ stopPending
    /\ \A w \in Workers : wpc[w] = "exited"
    /\ running' = FALSE
    /\ UNCHANGED <<stopPending, queueSize, ringVars, workerVars, clientVars, enqueuePos,
                   dequeuePos, enqueueMutex, dequeueMutex, readyEvent, completedEvent,
                   data>>

Next ==
    \/ \E w \in Workers : Worker(w)
    \/ \E c \in Clients : DoWork(c) \/ \E n \in Sizes : Call(c, n)
    \/ Start \/ BeginStop \/ EndStop

Spec == Init /\ [][Next]_vars

\* Threads that can run do run; a kernel mutex is granted in FIFO order, so a
\* client that keeps asking for EnqueueMutex gets it.
Fairness ==
    /\ \A w \in Workers : WF_vars(Worker(w))
    /\ \A c \in Clients : WF_vars(DoWork(c)) /\ SF_vars(EnqueueLock(c))
    /\ WF_vars(EndStop)

FairSpec == Spec /\ Fairness

-----------------------------------------------------------------------------
(* Properties *)

TypeOK ==
    /\ running \in BOOLEAN /\ stopPending \in BOOLEAN
    /\ queueSize \in {LegacyQueueSize, QueueSize}
    /\ itemState \in [Slots -> {"Free", "Ready", "Busy"}]
    /\ item \in [Slots -> Fragment]
    /\ firstFragment \in [Slots -> Slots]
    /\ outstanding \in [Slots -> Int]
    /\ itemCompleted \in [Slots -> BOOLEAN]
    /\ enqueuePos \in Slots /\ dequeuePos \in Slots
    /\ enqueueMutex \in Clients \cup {NoThread}
    /\ dequeueMutex \in Workers \cup {NoThread}
    /\ readyEvent \in BOOLEAN /\ completedEvent \in BOOLEAN
    /\ wpc \in [Workers -> {"top", "lock", "test", "wait", "work", "free", "signal",
                           "decrement", "complete", "exited"}]
    /\ wslot \in [Workers -> Slots]
    /\ serving \in [Workers -> Clients \cup {NoThread}]
    /\ cpc \in [Clients -> {"idle", "dispatch", "lock", "testFirst", "waitFirst", "next",
                           "testSlot", "waitSlot", "publish", "await", "release",
                           "signal", "return"}]
    /\ cslot \in [Clients -> Slots]
    /\ op \in [Clients -> Operation]
    /\ data \in [Clients -> [Units -> Nat]]

\* The operation of c holds the slot of its first fragment, from the count set
\* under EnqueueMutex to the moment the client gives the slot back.
Active(c) == cpc[c] \in {"next", "testSlot", "waitSlot", "publish", "await", "release"}

\* A worker between its claim and its last use of the slot's FirstFragment.
Following(w) == wpc[w] \in {"free", "signal", "decrement", "complete"}

\* FirstFragment is read three times after the slot may have been freed.  At
\* each of them the operation the worker has claimed a part of still lasts, and
\* the slot still names that operation's first: no client has refilled it,
\* because to reach it the ring must first pass the slot of that first
\* fragment, which is not free.
FollowsOwnOperation ==
    \A w \in Workers : Following(w) =>
        LET c == serving[w]
        IN  c \in Clients /\ Active(c) /\ firstFragment[wslot[w]] = op[c].first

\* No two workers transform, or give back, the same slot.
ExclusiveSlot ==
    ~stopPending =>
        \A v, w \in Workers :
            v # w /\ wpc[v] \in {"work", "free"} /\ wpc[w] \in {"work", "free"}
                => wslot[v] # wslot[w]

\* Some thread has set WorkItemCompletedEvent, or is about to.
Signalled ==
    \/ completedEvent
    \/ \E w \in Workers : wpc[w] = "signal"
    \/ \E c \in Clients : cpc[c] = "signal"

\* A woken client is never told of a slot that nobody will signal: if the slot
\* it waits for is free, the event is set or a thread is on its way to set it.
NoLostWakeup ==
    \A c \in Clients :
        /\ cpc[c] = "waitFirst" => itemState[op[c].first] # "Free" \/ Signalled
        /\ cpc[c] = "waitSlot"  => itemState[cslot[c]] # "Free" \/ Signalled

\* EncryptionThreadPoolDoWork is called in the driver for every read and write
\* of a mounted volume: each call must return.
CallsReturn == \A c \in Clients : cpc[c] = "dispatch" ~> cpc[c] = "idle"

\* The single wake-up that Stop sends reaches every thread, each passing the
\* mutex to the next.
StopEnds == (running /\ stopPending) ~> ~running

\* DoWork is a parallel transformation of its client's buffer.
Abstract == INSTANCE ParallelTransform WITH
    called <- {c \in Clients : cpc[c] # "idle"},
    units  <- [c \in Clients |-> op[c].units]

AbstractSpec == Abstract!Spec
=============================================================================
