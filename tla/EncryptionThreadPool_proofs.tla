--------------------- MODULE EncryptionThreadPool_proofs ---------------------
(***************************************************************************)
(* Theorems about EncryptionThreadPool, for every number of workers,       *)
(* clients, slots and units that PoolAssumption allows.                    *)
(***************************************************************************)
EXTENDS EncryptionThreadPool, TLAPS

\* The next slot of the ring is a slot of the ring.
LEMMA AfterType ==
    ASSUME NEW s \in Slots, queueSize \in {LegacyQueueSize, QueueSize}
    PROVE  After(s) \in Slots
BY PoolAssumption DEF Slots, After

\* A buffer of n units splits into natural numbers of fragments and units, and
\* a fragment that is to be shortened is not empty.
LEMMA SplitType ==
    ASSUME NEW n \in Nat
    PROVE  /\ Split(n) \in Operation
           /\ Split(n).remainder > 0 => Split(n).perFragment > 0
<1>1. /\ n \div ThreadCount \in Nat
      /\ n % ThreadCount \in Nat
  BY PoolAssumption
<1>2. 0 \in Slots
  BY PoolAssumption DEF Slots
<1>. QED
  BY <1>1, <1>2, PoolAssumption DEF Split, Operation

\* Transforming units keeps a buffer a buffer.
LEMMA TransformType ==
    ASSUME NEW b \in [Units -> Nat], NEW U
    PROVE  Transform(b, U) \in [Units -> Nat]
BY DEF Transform

\* Why the length of a fragment stays a natural number: DoWork shortens it only
\* while a remainder is left, and then it is not zero.
Shortenable == \A c \in Clients : op[c].remainder > 0 => op[c].perFragment > 0

TypeInv == TypeOK /\ Shortenable

LEMMA TypeInit == Init => TypeInv
<1>. SUFFICES ASSUME Init PROVE TypeInv
  OBVIOUS
<1>1. 0 \in Slots /\ Split(0) \in Operation /\ (Split(0).remainder > 0 => Split(0).perFragment > 0)
  BY SplitType, PoolAssumption DEF Slots
<1>2. item \in [Slots -> Fragment]
  BY DEF Init, Fragment, NoFragment
<1>3. data \in [Clients -> [Units -> Nat]]
  BY DEF Init, Untouched
<1>4. itemCompleted \in [Slots -> BOOLEAN]
  BY Zenon DEF Init
<1>5. /\ itemState \in [Slots -> {"Free", "Ready", "Busy"}]
      /\ outstanding \in [Slots -> Int]
      /\ firstFragment \in [Slots -> Slots]
  BY DEF Init
<1>6. /\ wpc \in [Workers -> {"top", "lock", "test", "wait", "work", "free", "signal",
                             "decrement", "complete", "exited"}]
      /\ wslot \in [Workers -> Slots]
  BY <1>1 DEF Init
<1>7. /\ cpc \in [Clients -> {"idle", "dispatch", "lock", "testFirst", "waitFirst", "next",
                             "testSlot", "waitSlot", "publish", "await", "release",
                             "signal", "return"}]
      /\ cslot \in [Clients -> Slots]
      /\ op \in [Clients -> Operation]
      /\ Shortenable
  BY <1>1 DEF Init, Shortenable
<1>. QED
  BY <1>1, <1>2, <1>3, <1>4, <1>5, <1>6, <1>7 DEF Init, TypeInv, TypeOK, Shortenable

\* Every step of a worker, of a client, and of Start and Stop preserves it.
LEMMA TypeStep == TypeInv /\ [Next]_vars => TypeInv'
<1>. SUFFICES ASSUME TypeInv, [Next]_vars PROVE TypeInv'
  OBVIOUS
<1>. USE DEF TypeInv, TypeOK, Shortenable, ringVars, poolVars, workerVars, clientVars
<1>1. ASSUME NEW w \in Workers, WorkerTop(w) PROVE TypeInv'
  BY <1>1 DEF WorkerTop, WorkerAt
<1>2. ASSUME NEW w \in Workers, WorkerLock(w) PROVE TypeInv'
  BY <1>2, AfterType DEF WorkerLock, WorkerAt
<1>3. ASSUME NEW w \in Workers, WorkerClaim(w) PROVE TypeInv'
  <2>1. item[wslot[w]].owner \in Clients \cup {NoThread}
    BY DEF Fragment
  <2>. QED
    BY <1>3, <2>1 DEF WorkerClaim, WorkerAt, Serve
<1>4. ASSUME NEW w \in Workers, WorkerNotReady(w) PROVE TypeInv'
  BY <1>4 DEF WorkerNotReady, WorkerAt
<1>5. ASSUME NEW w \in Workers, WorkerWait(w) PROVE TypeInv'
  BY <1>5 DEF WorkerWait, WorkerAt
<1>6. ASSUME NEW w \in Workers, WorkerBreak(w) PROVE TypeInv'
  BY <1>6 DEF WorkerBreak, WorkerAt, Serve
<1>7. ASSUME NEW w \in Workers, WorkerWork(w) PROVE TypeInv'
  <2>. DEFINE f == item[wslot[w]]
  <2>1. CASE f.owner \in Clients
    <3>1. data' \in [Clients -> [Units -> Nat]]
      BY <1>7, <2>1, TransformType DEF WorkerWork
    <3>. QED
      BY <1>7, <3>1 DEF WorkerWork, WorkerAt
  <2>2. CASE f.owner \notin Clients
    <3>1. data' = data
      BY <1>7, <2>2 DEF WorkerWork
    <3>. QED
      BY <1>7, <3>1 DEF WorkerWork, WorkerAt
  <2>. QED
    BY <2>1, <2>2
<1>8. ASSUME NEW w \in Workers, WorkerFree(w) PROVE TypeInv'
  BY <1>8 DEF WorkerFree, WorkerAt
<1>9. ASSUME NEW w \in Workers, WorkerSignal(w) PROVE TypeInv'
  BY <1>9 DEF WorkerSignal, WorkerAt
<1>11. ASSUME NEW w \in Workers, WorkerDecrement(w) PROVE TypeInv'
  BY <1>11 DEF WorkerDecrement, WorkerAt, Serve
<1>12. ASSUME NEW w \in Workers, WorkerComplete(w) PROVE TypeInv'
  BY <1>12 DEF WorkerComplete, WorkerAt, Serve
<1>13. ASSUME NEW c \in Clients, CurrentThread(c) PROVE TypeInv'
  <2>1. data' \in [Clients -> [Units -> Nat]]
    BY <1>13, TransformType DEF CurrentThread
  <2>. QED
    BY <1>13, <2>1 DEF CurrentThread, ClientAt
<1>14. ASSUME NEW c \in Clients, UsePool(c) PROVE TypeInv'
  BY <1>14 DEF UsePool, ClientAt
<1>15. ASSUME NEW c \in Clients, EnqueueLock(c) PROVE TypeInv'
  <2>1. op' \in [Clients -> Operation]
    <3>1. [op[c] EXCEPT !.first = enqueuePos] \in Operation
      BY DEF Operation
    <3>2. op' = [op EXCEPT ![c] = [op[c] EXCEPT !.first = enqueuePos]]
      BY <1>15 DEF EnqueueLock
    <3>. QED
      BY <3>1, <3>2
  <2>2. Shortenable'
    BY <1>15 DEF EnqueueLock, Operation
  <2>. QED
    BY <1>15, <2>1, <2>2, AfterType DEF EnqueueLock, ClientAt
<1>16. ASSUME NEW c \in Clients, FirstFree(c) PROVE TypeInv'
  BY <1>16 DEF FirstFree, ClientAt, Operation
<1>17. ASSUME NEW c \in Clients, FirstTaken(c) PROVE TypeInv'
  BY <1>17 DEF FirstTaken, ClientAt
<1>18. ASSUME NEW c \in Clients, WaitCompleted(c, "waitFirst", "testFirst") PROVE TypeInv'
  BY <1>18 DEF WaitCompleted, ClientAt
<1>19. ASSUME NEW c \in Clients, NextSlot(c) PROVE TypeInv'
  <2>0. /\ op[c] \in Operation
        /\ op[c].fragments - 1 \in Nat
    BY <1>19 DEF NextSlot, Operation
  <2>1. op' \in [Clients -> Operation]
    <3>1. [op[c] EXCEPT !.fragments = @ - 1] \in Operation
      BY <2>0 DEF Operation
    <3>2. op' = [op EXCEPT ![c] = [op[c] EXCEPT !.fragments = @ - 1]]
      BY <1>19 DEF NextSlot
    <3>. QED
      BY <3>1, <3>2
  <2>2. Shortenable'
    BY <1>19 DEF NextSlot, Operation
  <2>. QED
    BY <1>19, <2>1, <2>2, AfterType DEF NextSlot, ClientAt
<1>20. ASSUME NEW c \in Clients, SlotTaken(c) PROVE TypeInv'
  BY <1>20 DEF SlotTaken, ClientAt
<1>21. ASSUME NEW c \in Clients, WaitCompleted(c, "waitSlot", "testSlot") PROVE TypeInv'
  BY <1>21 DEF WaitCompleted, ClientAt
<1>22. ASSUME NEW c \in Clients, Fill(c) PROVE TypeInv'
  <2>. DEFINE o == op[c]
              p == IF o.remainder = 1 THEN o.perFragment - 1 ELSE o.perFragment
              r == IF o.remainder > 0 THEN o.remainder - 1 ELSE 0
  <2>0. /\ o \in Operation
        /\ p \in Nat /\ r \in Nat /\ o.start + o.perFragment \in Nat
        /\ r > 0 => p > 0
    BY DEF Operation
  <2>1. op' \in [Clients -> Operation]
    BY <1>22, <2>0 DEF Fill, Operation
  <2>2. Shortenable'
    BY <1>22, <2>0 DEF Fill, Operation
  <2>3. item' \in [Slots -> Fragment]
    BY <1>22 DEF Fill, Operation, Fragment
  <2>4. firstFragment' \in [Slots -> Slots]
    BY <1>22 DEF Fill, Operation
  <2>. QED
    BY <1>22, <2>1, <2>2, <2>3, <2>4 DEF Fill, ClientAt
<1>23. ASSUME NEW c \in Clients, Publish(c) PROVE TypeInv'
  BY <1>23 DEF Publish, ClientAt
<1>24. ASSUME NEW c \in Clients, EnqueueUnlock(c) PROVE TypeInv'
  BY <1>24 DEF EnqueueUnlock, ClientAt
<1>25. ASSUME NEW c \in Clients, Await(c) PROVE TypeInv'
  BY <1>25 DEF Await, ClientAt, Operation
<1>26. ASSUME NEW c \in Clients, Release(c) PROVE TypeInv'
  BY <1>26 DEF Release, ClientAt, Operation
<1>10. ASSUME NEW c \in Clients, NEW from, Leave(c, from), completedEvent' \in BOOLEAN
       PROVE  TypeInv'
  <2>1. op' \in [Clients -> Operation] /\ Shortenable'
    BY <1>10, SplitType DEF Leave
  <2>2. data' \in [Clients -> [Units -> Nat]]
    BY <1>10 DEF Leave, Untouched
  <2>3. 0 \in Slots
    BY PoolAssumption DEF Slots
  <2>. QED
    BY <1>10, <2>1, <2>2, <2>3 DEF Leave, ClientAt
<1>27. ASSUME NEW c \in Clients, Signal(c) PROVE TypeInv'
  BY <1>10, <1>27 DEF Signal
<1>28. ASSUME NEW c \in Clients, Return(c) PROVE TypeInv'
  BY <1>10, <1>28 DEF Return
<1>29. ASSUME NEW c \in Clients, NEW k \in Sizes, Call(c, k) PROVE TypeInv'
  <2>1. op' \in [Clients -> Operation] /\ Shortenable'
    BY <1>29, SplitType, PoolAssumption DEF Call
  <2>. QED
    BY <1>29, <2>1 DEF Call, ClientAt
<1>30. ASSUME Start PROVE TypeInv'
  <2>1. 0 \in Slots
    BY PoolAssumption DEF Slots
  <2>2. itemCompleted' \in [Slots -> BOOLEAN]
    BY <1>30, Zenon DEF Start
  <2>3. /\ itemState' \in [Slots -> {"Free", "Ready", "Busy"}]
        /\ outstanding' \in [Slots -> Int]
        /\ firstFragment' \in [Slots -> Slots]
        /\ item' \in [Slots -> Fragment]
    BY <1>30 DEF Start, Fragment, NoFragment
  <2>4. /\ wpc' \in [Workers -> {"top", "lock", "test", "wait", "work", "free",
                                "signal", "decrement", "complete", "exited"}]
        /\ wslot' \in [Workers -> Slots]
    BY <1>30, <2>1 DEF Start
  <2>. QED
    BY <1>30, <2>1, <2>2, <2>3, <2>4 DEF Start
<1>31. ASSUME BeginStop PROVE TypeInv'
  BY <1>31 DEF BeginStop
<1>32. ASSUME EndStop PROVE TypeInv'
  BY <1>32 DEF EndStop
<1>33. ASSUME UNCHANGED vars PROVE TypeInv'
  BY <1>33 DEF vars
<1>. QED
  BY <1>1, <1>2, <1>3, <1>4, <1>5, <1>6, <1>7, <1>8, <1>9, <1>10, <1>11,
     <1>12, <1>13, <1>14, <1>15, <1>16, <1>17, <1>18, <1>19, <1>20, <1>21,
     <1>22, <1>23, <1>24, <1>25, <1>26, <1>27, <1>28, <1>29, <1>30, <1>31,
     <1>32, <1>33 DEF Next, Worker, DoWork

\* In every behaviour of the pool each variable keeps its type: no slot number,
\* position or fragment length leaves its range.
THEOREM TypeCorrect == Spec => []TypeOK
<1>1. TypeInv => TypeOK
  BY DEF TypeInv
<1>. QED
  BY <1>1, TypeInit, TypeStep, PTL DEF Spec
=============================================================================
