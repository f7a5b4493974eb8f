---------------------- MODULE HeaderKeyDerivation_proofs ----------------------
(***************************************************************************)
(* The parallel search for the key of a header finds what the sequential   *)
(* one finds, for every number of PRFs, threads and places in the ring.    *)
(*                                                                         *)
(* The argument: a PRF the loop has passed either does not open the header *)
(* (its key was tested), or its item is still in use (Covered), and while  *)
(* queuedWorkItems is not zero the loop goes on (ItemsCounted).  A key is  *)
(* complete when its item is ready, because nothing is aborted before the  *)
(* result is known (KeysRight) and no two derivations share an item        *)
(* (SlotExclusive).                                                        *)
(***************************************************************************)
EXTENDS HeaderKeyDerivation, FiniteSetTheorems, TLAPS

Searching == caller.pc \in {"loop", "count", "clear", "push", "scan", "wait", "test"}

\* Where the caller may be, and what holds there.
Control ==
    /\ caller.pc = "loop" => enq >= 1
    /\ caller.pc \in {"scan", "wait", "test"} => enq <= LastPrf
    /\ caller.pc \in {"scan", "wait"} => Parallel
    /\ Filling => /\ Parallel /\ enq \in Prfs /\ queued < ThreadCount
                  /\ ~items[caller.slot].free /\ ~items[caller.slot].ready
                  /\ items[caller.slot].prf = enq
    /\ Searching => ~abort /\ result = "none"
    /\ caller.pc = "abort" => ~abort
    /\ ~Parallel => queued = 0 /\ \A s \in Slots : items[s].free

\* Unless the search is aborted, a ready key is complete; and items are for
\* PRFs that may be tried.
KeysRight ==
    /\ ~abort => /\ \A s \in Slots : items[s].ready /\ ~items[s].free => items[s].key = "good"
                 /\ \A w \in Workers : worker[w].pc = "flag" => items[worker[w].slot].key = "good"
    /\ \A s \in Slots : ~items[s].free => items[s].prf \in Admissible
    /\ caller.pc = "test" => caller.key = "good" /\ caller.prf \in Admissible

\* A PRF the loop has passed does not open the header, or its key is still to
\* be tested.
Passed(p) == p < enq \/ (p = enq /\ caller.pc # "loop")
Pending(p) == \/ \E s \in Slots : ~items[s].free /\ items[s].prf = p
              \/ caller.pc = "test" /\ caller.prf = p
Covered == Searching => \A p \in Admissible : Passed(p) /\ p = header.prf => Pending(p)

IInv == /\ TypeOK /\ Control /\ SlotExclusive /\ KeysRight /\ Covered
        /\ ItemsCounted /\ ResultRight

\* It holds at first: nothing is in use, and no PRF has been passed.
LEMMA IInit == Init => IInv
<1>. SUFFICES ASSUME Init PROVE IInv
  OBVIOUS
<1>. USE HeaderAssumption DEF Init
<1>1. 1 \in Slots /\ 1 \in Prfs /\ FreeItem \in Item
  BY DEF Slots, Prfs, FreeItem, Item
<1>2. TypeOK
  <2>1. caller \in [pc : CallerSteps, slot : Slots, prf : Prfs, key : {"none", "good"}]
    BY <1>1 DEF CallerSteps
  <2>2. worker \in [Workers -> [pc : WorkerSteps, slot : Slots]]
    BY <1>1 DEF WorkerSteps
  <2>3. items \in [Slots -> Item] /\ header \in Header
    BY <1>1
  <2>4. ring \in Seq(Slots) /\ queued <= ThreadCount /\ enq \in 0 .. LastPrf + 1
    OBVIOUS
  <2>5. outstanding \in Int
    OBVIOUS
  <2>6. queued \in Nat /\ result = "none" /\ boot \in BOOLEAN /\ keepKeys \in BOOLEAN
        /\ selected \in 0 .. LastPrf
    OBVIOUS
  <2>7. abort \in BOOLEAN /\ keyDone \in BOOLEAN /\ noneLeft \in BOOLEAN
    BY Zenon
  <2>. HIDE DEF Init
  <2>. QED
    BY <2>1, <2>2, <2>3, <2>4, <2>5, <2>6, <2>7 DEF TypeOK
<1>3. ~Filling /\ \A s \in Slots : items[s].free
  BY DEF Filling, FreeItem
<1>4. Control /\ KeysRight /\ ResultRight
  BY <1>3 DEF Control, KeysRight, ResultRight, Searching
<1>5. SlotExclusive
  BY <1>3 DEF SlotExclusive, Deriving
<1>6. Covered
  BY DEF Covered, Passed, Admissible, Prfs
<1>7. ItemsCounted
  <2>1. {s \in Slots : ~items[s].free} = {}
    BY <1>3
  <2>. QED
    BY <2>1, <1>3, FS_EmptySet DEF ItemsCounted
<1>. QED
  BY <1>2, <1>4, <1>5, <1>6, <1>7 DEF IInv

\* The threads of the pool change neither what the caller does nor which items
\* are in use, nor for which PRFs.
LEMMA WorkerLeaves ==
    ASSUME TypeOK, NEW w \in Workers, Worker(w)
    PROVE  /\ UNCHANGED <<inputs, callerState>>
           /\ \A s \in Slots : /\ items'[s].free = items[s].free
                               /\ items'[s].prf = items[s].prf
<1>1. UNCHANGED <<inputs, callerState>>
  BY DEF Worker, Take, Derive, SetFlag, SignalDone, Uncount, SignalNone
<1>2. CASE UNCHANGED items
  BY <1>1, <1>2
<1>3. CASE Derive(w)
  <2>1. PICK key \in {"none", "good"} : items' = [items EXCEPT ![worker[w].slot].key = key]
    BY <1>3 DEF Derive
  <2>. QED
    BY <1>1, <2>1 DEF TypeOK, Item
<1>4. CASE SetFlag(w)
  BY <1>1, <1>4 DEF SetFlag, TypeOK, Item
<1>. QED
  BY <1>2, <1>3, <1>4 DEF Worker, Take, SignalDone, Uncount, SignalNone

\* The items in use are finite in number.
LEMMA InUseFinite == IsFiniteSet({s \in Slots : ~items[s].free})
<1>1. IsFiniteSet(Slots)
  BY HeaderAssumption, FS_Interval DEF Slots
<1>2. {s \in Slots : ~items[s].free} \subseteq Slots
  OBVIOUS
<1>. QED
  BY <1>1, <1>2, FS_Subset

\* While an item is in use and none is being prepared, queuedWorkItems is not 0.
LEMMA QueuedPositive ==
    ASSUME ItemsCounted, ~Filling, NEW s \in Slots, ~items[s].free
    PROVE  queued \in Nat \ {0}
<1>. DEFINE U == {t \in Slots : ~items[t].free}
<1>1. IsFiniteSet(U) /\ s \in U
  BY InUseFinite
<1>2. Cardinality(U) \in Nat /\ Cardinality(U) # 0
  BY <1>1, FS_CardinalityType, FS_EmptySet
<1>. QED
  BY <1>2 DEF ItemsCounted

\* Every step keeps the types.
LEMMA TypeStep == IInv /\ [Next]_vars => TypeOK'
<1>. SUFFICES ASSUME IInv, [Next]_vars PROVE TypeOK'
  OBVIOUS
<1>. USE HeaderAssumption DEF IInv
<1>1. CASE Skip
  BY <1>1 DEF Skip, MorePrfs, Skipped, inputs, events, pool, TypeOK, Item,
     CallerSteps, WorkerSteps, Parallel, Control, Filling, callerState
<1>2. CASE DeriveHere
  <2>1. enq \in Prfs
    BY <1>2 DEF DeriveHere, MorePrfs, Skipped, Parallel, inputs, events, pool,
       TypeOK, Item, CallerSteps, WorkerSteps, Control, Filling, callerState,
       Prfs
  <2>2. caller' \in [pc : CallerSteps, slot : Slots, prf : Prfs, key : {"none", "good"}]
    BY <1>2, <2>1 DEF DeriveHere, TypeOK, CallerSteps
  <2>. QED
    BY <1>2, <2>2 DEF DeriveHere, TypeOK, Parallel, inputs, events, pool
<1>3. CASE Enqueue
  <2>1. enq \in Prfs
    BY <1>3 DEF Enqueue, MayEnqueue, Control, TypeOK, Prfs
  <2>2. PICK s \in Slots :
           /\ items' = [items EXCEPT ![s] = [free |-> FALSE, ready |-> FALSE,
                                             prf |-> enq, key |-> "none"]]
           /\ caller' = [caller EXCEPT !.pc = "count", !.slot = s]
    BY <1>3 DEF Enqueue
  <2>3. caller' \in [pc : CallerSteps, slot : Slots, prf : Prfs, key : {"none", "good"}]
    BY <2>2 DEF TypeOK, CallerSteps
  <2>4. items' \in [Slots -> Item]
    BY <2>1, <2>2 DEF TypeOK, Item
  <2>. QED
    BY <1>3, <2>3, <2>4 DEF Enqueue, TypeOK, Parallel, inputs, events, pool
<1>4. CASE BeginCount
  BY <1>4 DEF BeginCount, CallerAt, Goto, inputs, events, pool, TypeOK, Item,
     CallerSteps, WorkerSteps, Parallel, Control, Filling, callerState
<1>5. CASE BeginClear
  BY <1>5 DEF BeginClear, CallerAt, Goto, inputs, events, pool, TypeOK, Item,
     CallerSteps, WorkerSteps, Parallel, Control, Filling, callerState
<1>6. CASE BeginPush
  <2>1. caller.slot \in Slots /\ ring' \in Seq(Slots)
    BY <1>6 DEF BeginPush, TypeOK
  <2>2. /\ caller' \in [pc : CallerSteps, slot : Slots, prf : Prfs, key : {"none", "good"}]
        /\ enq' \in 0 .. LastPrf + 1
    <3>1. 1 \in Slots
      BY DEF Slots
    <3>2. enq \in 0 .. LastPrf + 1 /\ (enq < LastPrf => enq + 1 \in 0 .. LastPrf + 1)
      BY DEF TypeOK
    <3>. QED
      BY <1>6, <3>1, <3>2 DEF BeginPush, Goto, TypeOK, CallerSteps
  <2>3. queued' \in Nat /\ queued' <= ThreadCount
    BY <1>6 DEF BeginPush, TypeOK, Control, Filling
  <2>. QED
    BY <1>6, <2>1, <2>2, <2>3 DEF BeginPush, TypeOK, Parallel, inputs, events,
       pool
<1>7. CASE Full
  <2>1. 1 \in Slots /\ enq \in 1 .. LastPrf + 1
    BY <1>7 DEF Full, TypeOK, Control, Slots
  <2>2. caller' \in [pc : CallerSteps, slot : Slots, prf : Prfs, key : {"none", "good"}]
    BY <1>7, <2>1 DEF Full, TypeOK, CallerSteps
  <2>. QED
    BY <1>7, <2>1, <2>2 DEF Full, TypeOK, Parallel, inputs, events, pool
<1>8. CASE ScanNext
  <2>1. caller.slot < LastPrf => caller.slot + 1 \in Slots
    BY DEF TypeOK, Slots
  <2>2. caller' \in [pc : CallerSteps, slot : Slots, prf : Prfs, key : {"none", "good"}]
    BY <1>8, <2>1 DEF ScanNext, TypeOK, CallerSteps
  <2>. QED
    BY <1>8, <2>2 DEF ScanNext, TypeOK, Parallel, inputs, events, pool
<1>9. CASE ScanTake
  <2>1. queued - 1 \in Nat /\ (queued - 1 <= ThreadCount \/ ~Parallel)
    BY <1>9, QueuedPositive DEF ScanTake, Ready, TypeOK, Filling
  <2>2. items[caller.slot] \in Item
    BY DEF TypeOK
  <2>3. caller' \in [pc : CallerSteps, slot : Slots, prf : Prfs, key : {"none", "good"}]
    BY <1>9, <2>2 DEF ScanTake, TypeOK, CallerSteps, Item
  <2>4. items' \in [Slots -> Item]
    BY <1>9 DEF ScanTake, TypeOK, Item
  <2>. QED
    BY <1>9, <2>1, <2>3, <2>4 DEF ScanTake, TypeOK, Parallel, inputs, events,
       pool
<1>10. CASE ScanWait
  <2>1. 1 \in Slots
    BY DEF Slots
  <2>2. caller' \in [pc : CallerSteps, slot : Slots, prf : Prfs, key : {"none", "good"}]
    BY <1>10, <2>1 DEF ScanWait, TypeOK, CallerSteps
  <2>. QED
    BY <1>10, <2>2 DEF ScanWait, TypeOK, Parallel, inputs, events, pool
<1>11. CASE TestFails
  BY <1>11 DEF TestFails, Opens, CallerAt, Goto, inputs, events, pool, TypeOK,
     Item, CallerSteps, WorkerSteps, Parallel, Control, Filling, callerState
<1>12. CASE TestOpens
  BY <1>12 DEF TestOpens, Opens, CallerAt, Goto, inputs, events, pool, TypeOK,
     Item, CallerSteps, WorkerSteps, Parallel, Control, Filling, callerState
<1>13. CASE TestError
  BY <1>13 DEF TestError, Opens, CallerAt, Goto, inputs, events, pool, TypeOK,
     Item, CallerSteps, WorkerSteps, Parallel, Control, Filling, callerState
<1>14. CASE NothingOpens
  BY <1>14 DEF NothingOpens, MorePrfs, CallerAt, Goto, inputs, events, pool,
     TypeOK, Item, CallerSteps, WorkerSteps, Parallel, Control, Filling,
     callerState
<1>15. CASE Abort
  BY <1>15 DEF Abort, CallerAt, Goto, inputs, events, pool, TypeOK, Item,
     CallerSteps, WorkerSteps, Parallel, Control, Filling, callerState
<1>16. CASE AwaitNone
  BY <1>16 DEF AwaitNone, Goto, inputs, events, pool, TypeOK, Item, CallerSteps,
     WorkerSteps, Parallel, Control, Filling, callerState
<1>17. CASE Free
  BY <1>17 DEF Free, CallerAt, Goto, inputs, events, pool, TypeOK, Item,
     CallerSteps, WorkerSteps, Parallel, Control, Filling, callerState
<1>18. ASSUME NEW w \in Workers, Take(w) PROVE TypeOK'
  BY <1>18 DEF Take, inputs, events, pool, callerState, TypeOK, Item,
     CallerSteps, WorkerSteps, Parallel, Control, Filling
<1>19. ASSUME NEW w \in Workers, Derive(w) PROVE TypeOK'
  <2>1. PICK key \in {"none", "good"} : items' = [items EXCEPT ![worker[w].slot].key = key]
    BY <1>19 DEF Derive
  <2>2. items' \in [Slots -> Item]
    BY <2>1 DEF TypeOK, Item
  <2>3. worker' \in [Workers -> [pc : WorkerSteps, slot : Slots]]
    BY <1>19 DEF Derive, WorkerAt, TypeOK, WorkerSteps
  <2>. QED
    BY <1>19, <2>2, <2>3 DEF Derive, TypeOK, Parallel, inputs, events,
       callerState
<1>20. ASSUME NEW w \in Workers, SetFlag(w) PROVE TypeOK'
  <2>1. items' \in [Slots -> Item]
    BY <1>20 DEF SetFlag, TypeOK, Item
  <2>2. worker' \in [Workers -> [pc : WorkerSteps, slot : Slots]]
    BY <1>20 DEF SetFlag, WorkerAt, TypeOK, WorkerSteps
  <2>. QED
    BY <1>20, <2>1, <2>2 DEF SetFlag, TypeOK, Parallel, inputs, events,
       callerState
<1>21. ASSUME NEW w \in Workers, SignalDone(w) PROVE TypeOK'
  BY <1>21 DEF SignalDone, WorkerAt, inputs, events, pool, callerState, TypeOK,
     Item, CallerSteps, WorkerSteps, Parallel, Control, Filling
<1>22. ASSUME NEW w \in Workers, Uncount(w) PROVE TypeOK'
  BY <1>22 DEF Uncount, WorkerAt, inputs, events, pool, callerState, TypeOK,
     Item, CallerSteps, WorkerSteps, Parallel, Control, Filling
<1>23. ASSUME NEW w \in Workers, SignalNone(w) PROVE TypeOK'
  BY <1>23 DEF SignalNone, WorkerAt, inputs, events, pool, callerState, TypeOK,
     Item, CallerSteps, WorkerSteps, Parallel, Control, Filling
<1>24. CASE UNCHANGED vars
  BY <1>24 DEF vars, TypeOK, Item, CallerSteps, WorkerSteps, Parallel, Control,
     Filling, inputs, events, pool, callerState
<1>. QED
  BY <1>1, <1>2, <1>3, <1>4, <1>5, <1>6, <1>7, <1>8, <1>9, <1>10, <1>11, <1>12,
     <1>13, <1>14, <1>15, <1>16, <1>17, <1>18, <1>19, <1>20, <1>21, <1>22,
     <1>23, <1>24 DEF Next, Caller, Worker, Returned

\* Every step keeps what holds at each place of the caller.
LEMMA ControlStep == IInv /\ [Next]_vars => Control'
<1>. SUFFICES ASSUME IInv, [Next]_vars PROVE Control'
  OBVIOUS
<1>. USE HeaderAssumption DEF IInv, Control, TypeOK, Prfs, Slots, Parallel, Filling, Searching, inputs, events, pool, callerState
<1>1. CASE Skip
  BY <1>1 DEF Skip, MorePrfs, Skipped
<1>2. CASE DeriveHere
  BY <1>2 DEF DeriveHere, MorePrfs, Skipped
<1>3. CASE Enqueue
  BY <1>3 DEF Enqueue, MorePrfs, Skipped, MayEnqueue, FirstFree
<1>4. CASE BeginCount
  BY <1>4 DEF BeginCount, CallerAt, Goto
<1>5. CASE BeginClear
  BY <1>5 DEF BeginClear, CallerAt, Goto
<1>6. CASE BeginPush
  <2>1. Parallel /\ enq \in Prfs /\ ~abort /\ result = "none" /\ caller \in [pc : CallerSteps, slot : Slots, prf : Prfs, key : {"none", "good"}]
    BY <1>6 DEF BeginPush, Control, Filling, Searching, TypeOK
  <2>2. CASE enq < LastPrf
    <3>1. caller'.pc = "loop" /\ enq' = enq + 1 /\ enq \in 1 .. LastPrf
      BY <1>6, <2>1, <2>2 DEF BeginPush, Goto, Prfs
    <3>. QED
      BY <1>6, <2>1, <3>1 DEF BeginPush, Control, Filling, Searching, Parallel,
         inputs, events
  <2>3. CASE ~(enq < LastPrf)
    <3>1. caller' = [caller EXCEPT !.pc = "scan", !.slot = 1] /\ enq' = enq
      BY <1>6, <2>3 DEF BeginPush
    <3>2. caller'.pc = "scan" /\ enq <= LastPrf
      BY <2>1, <3>1 DEF Prfs
    <3>. QED
      BY <1>6, <2>1, <3>1, <3>2 DEF BeginPush, Control, Filling, Searching,
         Parallel, inputs, events
  <2>. QED
    BY <2>2, <2>3
<1>7. CASE Full
  BY <1>7 DEF Full, MorePrfs, Skipped, MayEnqueue
<1>8. CASE ScanNext
  BY <1>8 DEF ScanNext, Ready
<1>9. CASE ScanTake
  BY <1>9 DEF ScanTake, Ready
<1>10. CASE ScanWait
  BY <1>10 DEF ScanWait
<1>11. CASE TestFails
  BY <1>11 DEF TestFails, Opens, CallerAt, Goto
<1>12. CASE TestOpens
  BY <1>12 DEF TestOpens, Opens, CallerAt, Goto
<1>13. CASE TestError
  BY <1>13 DEF TestError, Opens, CallerAt, Goto
<1>14. CASE NothingOpens
  BY <1>14 DEF NothingOpens, MorePrfs, CallerAt, Goto
<1>15. CASE Abort
  BY <1>15 DEF Abort, CallerAt, Goto
<1>16. CASE AwaitNone
  BY <1>16 DEF AwaitNone, Goto
<1>17. CASE Free
  BY <1>17 DEF Free, CallerAt, Goto
<1>18. ASSUME NEW w \in Workers, Take(w) PROVE Control'
  BY <1>18 DEF Take
<1>19. ASSUME NEW w \in Workers, Derive(w) PROVE Control'
  BY <1>19 DEF Derive, WorkerAt
<1>20. ASSUME NEW w \in Workers, SetFlag(w) PROVE Control'
  <2>. DEFINE d == worker[w].slot
  <2>1. /\ d \in Slots
        /\ items' = [items EXCEPT ![d].ready = TRUE]
        /\ Filling => d # caller.slot
    BY <1>20 DEF SetFlag, WorkerAt, TypeOK, SlotExclusive, Deriving
  <2>2. \A s \in Slots : /\ items'[s].free = items[s].free /\ items'[s].prf = items[s].prf
                         /\ s # d => items'[s] = items[s]
    BY <2>1 DEF TypeOK, Item
  <2>3. caller.slot \in Slots
    BY DEF TypeOK
  <2>. QED
    BY <1>20, <2>1, <2>2, <2>3 DEF SetFlag, Control, Filling, Searching,
       Parallel, inputs, events, callerState
<1>21. ASSUME NEW w \in Workers, SignalDone(w) PROVE Control'
  BY <1>21 DEF SignalDone, WorkerAt
<1>22. ASSUME NEW w \in Workers, Uncount(w) PROVE Control'
  BY <1>22 DEF Uncount, WorkerAt
<1>23. ASSUME NEW w \in Workers, SignalNone(w) PROVE Control'
  BY <1>23 DEF SignalNone, WorkerAt
<1>24. CASE UNCHANGED vars
  BY <1>24 DEF vars
<1>. QED
  BY <1>1, <1>2, <1>3, <1>4, <1>5, <1>6, <1>7, <1>8, <1>9, <1>10, <1>11, <1>12,
     <1>13, <1>14, <1>15, <1>16, <1>17, <1>18, <1>19, <1>20, <1>21, <1>22,
     <1>23, <1>24 DEF Next, Caller, Worker, Returned

\* Every step keeps the items of derivations exclusive.
LEMMA ExclusiveStep == IInv /\ [Next]_vars => SlotExclusive'
<1>. SUFFICES ASSUME IInv, [Next]_vars PROVE SlotExclusive'
  OBVIOUS
<1>. USE HeaderAssumption DEF IInv, SlotExclusive, Deriving, Filling, TypeOK, Item, Control, Slots, inputs, events, pool, callerState
<1>1. CASE Skip
  BY <1>1 DEF Skip, MorePrfs, Skipped
<1>2. CASE DeriveHere
  BY <1>2 DEF DeriveHere, MorePrfs, Skipped, Parallel
<1>3. CASE Enqueue
  BY <1>3 DEF Enqueue, MorePrfs, Skipped, MayEnqueue, FirstFree, Parallel
<1>4. CASE BeginCount
  BY <1>4 DEF BeginCount, CallerAt, Goto
<1>5. CASE BeginClear
  BY <1>5 DEF BeginClear, CallerAt, Goto
<1>6. CASE BeginPush
  <2>1. /\ ring' = Append(ring, caller.slot) /\ Filling /\ ~Filling'
        /\ ring \in Seq(Slots) /\ caller.slot \in Slots
        /\ ~items[caller.slot].free /\ ~items[caller.slot].ready
        /\ UNCHANGED <<items, worker>>
    BY <1>6 DEF BeginPush, Goto, Filling, TypeOK, Control
  <2>2. /\ DOMAIN ring' = 1 .. Len(ring) + 1
        /\ \A n \in DOMAIN ring : ring'[n] = ring[n] /\ n \in 1 .. Len(ring)
        /\ ring'[Len(ring) + 1] = caller.slot
        /\ Len(ring) \in Nat /\ DOMAIN ring = 1 .. Len(ring)
    BY <2>1
  <2>3. \A n \in DOMAIN ring' : n \in DOMAIN ring \/ n = Len(ring) + 1
    BY <2>2
  <2>. QED
    BY <2>1, <2>2, <2>3 DEF SlotExclusive, Deriving
<1>7. CASE Full
  BY <1>7 DEF Full, MorePrfs, Skipped, MayEnqueue
<1>8. CASE ScanNext
  BY <1>8 DEF ScanNext, Ready
<1>9. CASE ScanTake
  BY <1>9 DEF ScanTake, Ready
<1>10. CASE ScanWait
  BY <1>10 DEF ScanWait
<1>11. CASE TestFails
  BY <1>11 DEF TestFails, Opens, CallerAt, Goto
<1>12. CASE TestOpens
  BY <1>12 DEF TestOpens, Opens, CallerAt, Goto
<1>13. CASE TestError
  BY <1>13 DEF TestError, Opens, CallerAt, Goto
<1>14. CASE NothingOpens
  BY <1>14 DEF NothingOpens, MorePrfs, CallerAt, Goto
<1>15. CASE Abort
  BY <1>15 DEF Abort, CallerAt, Goto
<1>16. CASE AwaitNone
  BY <1>16 DEF AwaitNone, Goto
<1>17. CASE Free
  BY <1>17 DEF Free, CallerAt, Goto
<1>18. ASSUME NEW w \in Workers, Take(w) PROVE SlotExclusive'
  <2>1. /\ ring \in Seq(Slots) /\ ring # <<>> /\ ring' = Tail(ring)
        /\ worker' = [worker EXCEPT ![w] = [pc |-> "derive", slot |-> Head(ring)]]
        /\ worker[w].pc = "idle" /\ UNCHANGED <<items, caller>>
    BY <1>18 DEF Take, TypeOK, callerState
  <2>2. /\ 1 \in DOMAIN ring /\ Head(ring) = ring[1]
        /\ \A n \in DOMAIN ring' : n + 1 \in DOMAIN ring /\ n + 1 # 1 /\ ring'[n] = ring[n + 1]
        /\ \A m, n \in DOMAIN ring' : m + 1 = n + 1 => m = n
    BY <2>1
  <2>3. /\ Deriving' = Deriving \cup {w} /\ w \notin Deriving
        /\ \A v \in Deriving : worker'[v] = worker[v]
        /\ worker'[w].slot = ring[1]
    BY <2>1, <2>2 DEF Deriving, TypeOK
  <2>4. ASSUME NEW n \in DOMAIN ring'
        PROVE  /\ ~items'[ring'[n]].free /\ ~items'[ring'[n]].ready
               /\ \A m \in DOMAIN ring' : ring'[m] = ring'[n] => m = n
               /\ \A v \in Deriving' : ring'[n] # worker'[v].slot
    BY <2>1, <2>2, <2>3 DEF SlotExclusive
  <2>5. ASSUME NEW u \in Deriving'
        PROVE  /\ ~items'[worker'[u].slot].free /\ ~items'[worker'[u].slot].ready
               /\ \A v \in Deriving' : worker'[v].slot = worker'[u].slot => v = u
    BY <2>1, <2>2, <2>3 DEF SlotExclusive
  <2>6. Filling' => /\ \A n \in DOMAIN ring' : ring'[n] # caller'.slot
                    /\ \A v \in Deriving' : worker'[v].slot # caller'.slot
    BY <2>1, <2>2, <2>3 DEF SlotExclusive, Filling
  <2>. QED
    BY <2>4, <2>5, <2>6 DEF SlotExclusive
<1>19. ASSUME NEW w \in Workers, Derive(w) PROVE SlotExclusive'
  BY <1>19 DEF Derive, WorkerAt
<1>20. ASSUME NEW w \in Workers, SetFlag(w) PROVE SlotExclusive'
  BY <1>20 DEF SetFlag, WorkerAt
<1>21. ASSUME NEW w \in Workers, SignalDone(w) PROVE SlotExclusive'
  BY <1>21 DEF SignalDone, WorkerAt
<1>22. ASSUME NEW w \in Workers, Uncount(w) PROVE SlotExclusive'
  BY <1>22 DEF Uncount, WorkerAt
<1>23. ASSUME NEW w \in Workers, SignalNone(w) PROVE SlotExclusive'
  BY <1>23 DEF SignalNone, WorkerAt
<1>24. CASE UNCHANGED vars
  BY <1>24 DEF vars
<1>. QED
  BY <1>1, <1>2, <1>3, <1>4, <1>5, <1>6, <1>7, <1>8, <1>9, <1>10, <1>11, <1>12,
     <1>13, <1>14, <1>15, <1>16, <1>17, <1>18, <1>19, <1>20, <1>21, <1>22,
     <1>23, <1>24 DEF Next, Caller, Worker, Returned

\* Every step keeps the keys complete.
LEMMA KeysStep == IInv /\ [Next]_vars => KeysRight'
<1>. SUFFICES ASSUME IInv, [Next]_vars PROVE KeysRight'
  OBVIOUS
<1>. USE HeaderAssumption DEF IInv, KeysRight, TypeOK, Item, Control, Filling, Searching, Admissible, SlotExclusive, Deriving, Slots, Prfs, Parallel, inputs, events, pool, callerState
<1>1. CASE Skip
  BY <1>1 DEF Skip, MorePrfs, Skipped
<1>2. CASE DeriveHere
  BY <1>2 DEF DeriveHere, MorePrfs, Skipped
<1>3. CASE Enqueue
  BY <1>3 DEF Enqueue, MorePrfs, Skipped, MayEnqueue, FirstFree
<1>4. CASE BeginCount
  BY <1>4 DEF BeginCount, CallerAt, Goto
<1>5. CASE BeginClear
  BY <1>5 DEF BeginClear, CallerAt, Goto
<1>6. CASE BeginPush
  BY <1>6 DEF BeginPush, Goto
<1>7. CASE Full
  BY <1>7 DEF Full, MorePrfs, Skipped, MayEnqueue
<1>8. CASE ScanNext
  BY <1>8 DEF ScanNext, Ready
<1>9. CASE ScanTake
  BY <1>9 DEF ScanTake, Ready
<1>10. CASE ScanWait
  BY <1>10 DEF ScanWait
<1>11. CASE TestFails
  BY <1>11 DEF TestFails, Opens, CallerAt, Goto
<1>12. CASE TestOpens
  BY <1>12 DEF TestOpens, Opens, CallerAt, Goto
<1>13. CASE TestError
  BY <1>13 DEF TestError, Opens, CallerAt, Goto
<1>14. CASE NothingOpens
  BY <1>14 DEF NothingOpens, MorePrfs, CallerAt, Goto
<1>15. CASE Abort
  BY <1>15 DEF Abort, CallerAt, Goto
<1>16. CASE AwaitNone
  BY <1>16 DEF AwaitNone, Goto
<1>17. CASE Free
  BY <1>17 DEF Free, CallerAt, Goto
<1>18. ASSUME NEW w \in Workers, Take(w) PROVE KeysRight'
  BY <1>18 DEF Take
<1>19. ASSUME NEW w \in Workers, Derive(w) PROVE KeysRight'
  BY <1>19 DEF Derive, WorkerAt
<1>20. ASSUME NEW w \in Workers, SetFlag(w) PROVE KeysRight'
  BY <1>20 DEF SetFlag, WorkerAt
<1>21. ASSUME NEW w \in Workers, SignalDone(w) PROVE KeysRight'
  BY <1>21 DEF SignalDone, WorkerAt
<1>22. ASSUME NEW w \in Workers, Uncount(w) PROVE KeysRight'
  BY <1>22 DEF Uncount, WorkerAt
<1>23. ASSUME NEW w \in Workers, SignalNone(w) PROVE KeysRight'
  BY <1>23 DEF SignalNone, WorkerAt
<1>24. CASE UNCHANGED vars
  BY <1>24 DEF vars
<1>. QED
  BY <1>1, <1>2, <1>3, <1>4, <1>5, <1>6, <1>7, <1>8, <1>9, <1>10, <1>11, <1>12,
     <1>13, <1>14, <1>15, <1>16, <1>17, <1>18, <1>19, <1>20, <1>21, <1>22,
     <1>23, <1>24 DEF Next, Caller, Worker, Returned

\* Every step keeps the PRFs that the loop has passed covered.
LEMMA CoveredStep == IInv /\ [Next]_vars => Covered'
<1>. SUFFICES ASSUME IInv, [Next]_vars PROVE Covered'
  OBVIOUS
<1>. USE HeaderAssumption DEF IInv
<1>1. CASE Skip
  <2>1. caller.pc = "loop" /\ enq \in Nat /\ enq' = enq + 1 /\ enq \notin Admissible
    BY <1>1 DEF Skip, MorePrfs, Skipped, Admissible, TypeOK, Control, Parallel
  <2>2. \A p \in Admissible : Passed(p)' => Passed(p)
    BY <1>1, <2>1 DEF Skip, Passed, Admissible, Prfs
  <2>. QED
    BY <1>1, <2>1, <2>2 DEF Skip, Covered, Pending, Searching, Admissible,
       inputs
<1>2. CASE DeriveHere
  BY <1>2 DEF DeriveHere, MorePrfs, Skipped, Parallel, inputs, events, pool,
     Covered, Passed, Pending, KeysRight, TypeOK, Item, Control, Filling,
     Searching, Admissible, Slots, Prfs, callerState
<1>3. CASE Enqueue
  <2>1. PICK s \in Slots :
           /\ items[s].free
           /\ items' = [items EXCEPT ![s] = [free |-> FALSE, ready |-> FALSE,
                                             prf |-> enq, key |-> "none"]]
           /\ caller' = [caller EXCEPT !.pc = "count", !.slot = s]
    BY <1>3 DEF Enqueue, FirstFree
  <2>2. caller.pc = "loop" /\ caller'.pc = "count" /\ UNCHANGED <<inputs, enq>>
    BY <1>3, <2>1 DEF Enqueue, TypeOK
  <2>3. /\ ~items'[s].free /\ items'[s].prf = enq
        /\ \A t \in Slots : t # s => items'[t] = items[t]
    BY <2>1 DEF TypeOK
  <2>4. ASSUME NEW p \in Admissible, Passed(p)', p = header.prf PROVE Pending(p)'
    <3>1. CASE p = enq
      BY <2>3, <3>1 DEF Pending
    <3>2. CASE p < enq
      <4>1. PICK t \in Slots : ~items[t].free /\ items[t].prf = p
        BY <2>2, <2>4, <3>2 DEF Covered, Searching, Passed, Pending
      <4>. QED
        BY <2>1, <2>3, <4>1 DEF Pending
    <3>. QED
      BY <2>2, <2>4, <3>1, <3>2 DEF Passed
  <2>. QED
    BY <2>2, <2>4 DEF Covered, Admissible, inputs
<1>4. CASE BeginCount
  BY <1>4 DEF BeginCount, CallerAt, Goto, inputs, events, pool, Covered, Passed,
     Pending, KeysRight, TypeOK, Item, Control, Filling, Searching, Admissible,
     Slots, Prfs, Parallel, callerState
<1>5. CASE BeginClear
  BY <1>5 DEF BeginClear, CallerAt, Goto, inputs, events, pool, Covered, Passed,
     Pending, KeysRight, TypeOK, Item, Control, Filling, Searching, Admissible,
     Slots, Prfs, Parallel, callerState
<1>6. CASE BeginPush
  BY <1>6 DEF BeginPush, Goto, inputs, events, pool, Covered, Passed, Pending,
     KeysRight, TypeOK, Item, Control, Filling, Searching, Admissible, Slots,
     Prfs, Parallel, callerState
<1>7. CASE Full
  BY <1>7 DEF Full, MorePrfs, Skipped, MayEnqueue, inputs, events, pool,
     Covered, Passed, Pending, KeysRight, TypeOK, Item, Control, Filling,
     Searching, Admissible, Slots, Prfs, Parallel, callerState
<1>8. CASE ScanNext
  BY <1>8 DEF ScanNext, Ready, inputs, events, pool, Covered, Passed, Pending,
     KeysRight, TypeOK, Item, Control, Filling, Searching, Admissible, Slots,
     Prfs, Parallel, callerState
<1>9. CASE ScanTake
  <2>. DEFINE s == caller.slot
  <2>1. /\ caller.pc = "scan" /\ s \in Slots /\ UNCHANGED <<inputs, enq>>
        /\ caller'.pc = "test" /\ caller'.prf = items[s].prf
        /\ \A t \in Slots : t # s => items'[t] = items[t]
    BY <1>9 DEF ScanTake, TypeOK
  <2>2. ASSUME NEW p \in Admissible, Passed(p)', p = header.prf PROVE Pending(p)'
    <3>1. Passed(p)
      BY <2>1, <2>2 DEF Passed
    <3>2. PICK t \in Slots : ~items[t].free /\ items[t].prf = p
      BY <2>1, <2>2, <3>1 DEF Covered, Searching, Pending
    <3>. QED
      BY <2>1, <3>2 DEF Pending
  <2>. QED
    BY <2>1, <2>2 DEF Covered, Admissible, inputs
<1>10. CASE ScanWait
  BY <1>10 DEF ScanWait, inputs, events, pool, Covered, Passed, Pending,
     KeysRight, TypeOK, Item, Control, Filling, Searching, Admissible, Slots,
     Prfs, Parallel, callerState
<1>11. CASE TestFails
  BY <1>11 DEF TestFails, Opens, CallerAt, Goto, inputs, events, pool, Covered,
     Passed, Pending, KeysRight, TypeOK, Item, Control, Filling, Searching,
     Admissible, Slots, Prfs, Parallel, callerState
<1>12. CASE TestOpens
  BY <1>12 DEF TestOpens, Opens, CallerAt, Goto, inputs, events, pool, Covered,
     Passed, Pending, KeysRight, TypeOK, Item, Control, Filling, Searching,
     Admissible, Slots, Prfs, Parallel, callerState
<1>13. CASE TestError
  BY <1>13 DEF TestError, Opens, CallerAt, Goto, inputs, events, pool, Covered,
     Passed, Pending, KeysRight, TypeOK, Item, Control, Filling, Searching,
     Admissible, Slots, Prfs, Parallel, callerState
<1>14. CASE NothingOpens
  BY <1>14 DEF NothingOpens, MorePrfs, CallerAt, Goto, inputs, events, pool,
     Covered, Passed, Pending, KeysRight, TypeOK, Item, Control, Filling,
     Searching, Admissible, Slots, Prfs, Parallel, callerState
<1>15. CASE Abort
  BY <1>15 DEF Abort, CallerAt, Goto, inputs, events, pool, Covered, Passed,
     Pending, KeysRight, TypeOK, Item, Control, Filling, Searching, Admissible,
     Slots, Prfs, Parallel, callerState
<1>16. CASE AwaitNone
  BY <1>16 DEF AwaitNone, Goto, inputs, events, pool, Covered, Passed, Pending,
     KeysRight, TypeOK, Item, Control, Filling, Searching, Admissible, Slots,
     Prfs, Parallel, callerState
<1>17. CASE Free
  BY <1>17 DEF Free, CallerAt, Goto, inputs, events, pool, Covered, Passed,
     Pending, KeysRight, TypeOK, Item, Control, Filling, Searching, Admissible,
     Slots, Prfs, Parallel, callerState
<1>18. ASSUME NEW w \in Workers, Worker(w) PROVE Covered'
  <2>1. /\ UNCHANGED <<inputs, callerState>>
        /\ \A s \in Slots : items'[s].free = items[s].free /\ items'[s].prf = items[s].prf
    BY <1>18, WorkerLeaves
  <2>. QED
    BY <2>1 DEF Covered, Passed, Pending, Searching, Admissible, inputs,
       callerState
<1>19. CASE UNCHANGED vars
  BY <1>19 DEF vars, inputs, Covered, Passed, Pending, Searching, Admissible
<1>. QED
  BY <1>1, <1>2, <1>3, <1>4, <1>5, <1>6, <1>7, <1>8, <1>9, <1>10, <1>11, <1>12,
     <1>13, <1>14, <1>15, <1>16, <1>17, <1>18, <1>19 DEF Next, Caller, Returned

\* Every step keeps queuedWorkItems the number of items in use.
LEMMA CountedStep == IInv /\ [Next]_vars => ItemsCounted'
<1>. SUFFICES ASSUME IInv, [Next]_vars PROVE ItemsCounted'
  OBVIOUS
<1>. USE HeaderAssumption DEF IInv
<1>1. CASE Skip
  BY <1>1 DEF Skip, MorePrfs, Skipped, inputs, events, pool, ItemsCounted,
     TypeOK, Item, Control, Filling, Slots, callerState
<1>2. CASE DeriveHere
  BY <1>2 DEF DeriveHere, MorePrfs, Skipped, Parallel, inputs, events, pool,
     ItemsCounted, TypeOK, Item, Control, Filling, Slots, callerState
<1>3. CASE Enqueue
  <2>. DEFINE U == {s \in Slots : ~items[s].free}
  <2>0. IsFiniteSet(U) /\ Cardinality(U) \in Nat
    BY InUseFinite, FS_CardinalityType
  <2>1. PICK s \in Slots :
           /\ items[s].free
           /\ items' = [items EXCEPT ![s] = [free |-> FALSE, ready |-> FALSE,
                                             prf |-> enq, key |-> "none"]]
           /\ caller' = [caller EXCEPT !.pc = "count", !.slot = s]
    BY <1>3 DEF Enqueue, FirstFree
  <2>2. ~Filling /\ Filling' /\ UNCHANGED queued
    BY <1>3, <2>1 DEF Enqueue, Filling, TypeOK
  <2>3. U' = U \cup {s} /\ s \notin U
    BY <2>1 DEF TypeOK
  <2>4. Cardinality(U') = Cardinality(U) + 1
    BY <2>0, <2>3, FS_AddElement
  <2>. QED
    BY <2>0, <2>2, <2>4 DEF ItemsCounted
<1>4. CASE BeginCount
  BY <1>4 DEF BeginCount, CallerAt, Goto, inputs, events, pool, ItemsCounted,
     TypeOK, Item, Control, Filling, Slots, callerState
<1>5. CASE BeginClear
  BY <1>5 DEF BeginClear, CallerAt, Goto, inputs, events, pool, ItemsCounted,
     TypeOK, Item, Control, Filling, Slots, callerState
<1>6. CASE BeginPush
  <2>. DEFINE U == {s \in Slots : ~items[s].free}
  <2>0. IsFiniteSet(U) /\ Cardinality(U) \in Nat
    BY InUseFinite, FS_CardinalityType
  <2>1. Filling /\ ~Filling' /\ UNCHANGED items /\ queued' = queued + 1
    BY <1>6 DEF BeginPush, Goto, Filling, TypeOK
  <2>. QED
    BY <2>0, <2>1 DEF ItemsCounted
<1>7. CASE Full
  BY <1>7 DEF Full, MorePrfs, Skipped, MayEnqueue, inputs, events, pool,
     ItemsCounted, TypeOK, Item, Control, Filling, Slots, callerState
<1>8. CASE ScanNext
  BY <1>8 DEF ScanNext, Ready, inputs, events, pool, ItemsCounted, TypeOK, Item,
     Control, Filling, Slots, callerState
<1>9. CASE ScanTake
  <2>. DEFINE U == {s \in Slots : ~items[s].free}
  <2>0. IsFiniteSet(U) /\ Cardinality(U) \in Nat
    BY InUseFinite, FS_CardinalityType
  <2>. DEFINE s == caller.slot
  <2>1. /\ s \in Slots /\ ~items[s].free /\ ~Filling /\ ~Filling'
        /\ items' = [items EXCEPT ![s].free = TRUE] /\ queued' = queued - 1
    BY <1>9 DEF ScanTake, Ready, Filling, TypeOK
  <2>2. U' = U \ {s} /\ s \in U
    BY <2>1 DEF TypeOK
  <2>. HIDE DEF U
  <2>3. Cardinality(U \ {s}) = Cardinality(U) - 1
    BY <2>0, <2>2, FS_RemoveElement
  <2>4. queued = Cardinality(U)
    BY <2>0, <2>1 DEF ItemsCounted, U
  <2>5. queued' = Cardinality(U')
    BY <2>1, <2>2, <2>3, <2>4
  <2>. QED
    BY <2>1, <2>5 DEF ItemsCounted, U, TypeOK
<1>10. CASE ScanWait
  BY <1>10 DEF ScanWait, inputs, events, pool, ItemsCounted, TypeOK, Item,
     Control, Filling, Slots, callerState
<1>11. CASE TestFails
  BY <1>11 DEF TestFails, Opens, CallerAt, Goto, inputs, events, pool,
     ItemsCounted, TypeOK, Item, Control, Filling, Slots, callerState
<1>12. CASE TestOpens
  BY <1>12 DEF TestOpens, Opens, CallerAt, Goto, inputs, events, pool,
     ItemsCounted, TypeOK, Item, Control, Filling, Slots, callerState
<1>13. CASE TestError
  BY <1>13 DEF TestError, Opens, CallerAt, Goto, inputs, events, pool,
     ItemsCounted, TypeOK, Item, Control, Filling, Slots, callerState
<1>14. CASE NothingOpens
  BY <1>14 DEF NothingOpens, MorePrfs, CallerAt, Goto, inputs, events, pool,
     ItemsCounted, TypeOK, Item, Control, Filling, Slots, callerState
<1>15. CASE Abort
  BY <1>15 DEF Abort, CallerAt, Goto, inputs, events, pool, ItemsCounted,
     TypeOK, Item, Control, Filling, Slots, callerState
<1>16. CASE AwaitNone
  BY <1>16 DEF AwaitNone, Goto, inputs, events, pool, ItemsCounted, TypeOK,
     Item, Control, Filling, Slots, callerState
<1>17. CASE Free
  BY <1>17 DEF Free, CallerAt, Goto, inputs, events, pool, ItemsCounted, TypeOK,
     Item, Control, Filling, Slots, callerState
<1>18. ASSUME NEW w \in Workers, Worker(w) PROVE ItemsCounted'
  <2>1. /\ UNCHANGED <<inputs, callerState>>
        /\ \A s \in Slots : items'[s].free = items[s].free
    BY <1>18, WorkerLeaves
  <2>. QED
    BY <2>1 DEF ItemsCounted, Filling, callerState
<1>19. CASE UNCHANGED vars
  BY <1>19 DEF vars, ItemsCounted, TypeOK, Item, Control, Filling, Slots,
     inputs, events, pool, callerState
<1>. QED
  BY <1>1, <1>2, <1>3, <1>4, <1>5, <1>6, <1>7, <1>8, <1>9, <1>10, <1>11, <1>12,
     <1>13, <1>14, <1>15, <1>16, <1>17, <1>18, <1>19 DEF Next, Caller, Returned

\* Every step keeps the result right.
LEMMA ResultStep == IInv /\ [Next]_vars => ResultRight'
<1>. SUFFICES ASSUME IInv, [Next]_vars PROVE ResultRight'
  OBVIOUS
<1>. USE HeaderAssumption DEF IInv, ResultRight, KeysRight, Opens, TypeOK, Control, Searching, Admissible, inputs, events, pool, callerState
<1>1. CASE Skip
  BY <1>1 DEF Skip, MorePrfs, Skipped
<1>2. CASE DeriveHere
  BY <1>2 DEF DeriveHere, MorePrfs, Skipped, Parallel
<1>3. CASE Enqueue
  BY <1>3 DEF Enqueue, MorePrfs, Skipped, MayEnqueue, FirstFree, Parallel
<1>4. CASE BeginCount
  BY <1>4 DEF BeginCount, CallerAt, Goto
<1>5. CASE BeginClear
  BY <1>5 DEF BeginClear, CallerAt, Goto
<1>6. CASE BeginPush
  BY <1>6 DEF BeginPush, Goto
<1>7. CASE Full
  BY <1>7 DEF Full, MorePrfs, Skipped, MayEnqueue
<1>8. CASE ScanNext
  BY <1>8 DEF ScanNext, Ready
<1>9. CASE ScanTake
  BY <1>9 DEF ScanTake, Ready
<1>10. CASE ScanWait
  BY <1>10 DEF ScanWait
<1>11. CASE TestFails
  BY <1>11 DEF TestFails, CallerAt, Goto
<1>12. CASE TestOpens
  <2>1. /\ caller.pc = "test" /\ caller.prf = header.prf /\ ~header.newer
        /\ result' = "success" /\ UNCHANGED inputs
        /\ caller'.prf = caller.prf /\ header.newer \in BOOLEAN
    BY <1>12 DEF TestOpens, Opens, CallerAt, Goto, TypeOK, Header
  <2>. QED
    BY <2>1 DEF ResultRight, KeysRight, Admissible, inputs
<1>13. CASE TestError
  BY <1>13 DEF TestError, CallerAt, Goto
<1>14. CASE NothingOpens
  <2>1. /\ caller.pc = "loop" /\ queued = 0 /\ enq > LastPrf /\ ~Filling
        /\ result' = "wrong" /\ UNCHANGED inputs
    BY <1>14 DEF NothingOpens, MorePrfs, CallerAt, Filling, TypeOK
  <2>2. \A s \in Slots : items[s].free
    BY <2>1, QueuedPositive
  <2>3. \A p \in Admissible : Passed(p) /\ ~Pending(p)
    BY <2>1, <2>2 DEF Passed, Pending, Admissible, Prfs, TypeOK
  <2>4. header.prf \notin Admissible
    BY <2>1, <2>3 DEF Covered, Searching
  <2>. QED
    BY <2>1, <2>4 DEF ResultRight, Admissible, inputs
<1>15. CASE Abort
  BY <1>15 DEF Abort, CallerAt, Goto
<1>16. CASE AwaitNone
  BY <1>16 DEF AwaitNone, Goto
<1>17. CASE Free
  BY <1>17 DEF Free, CallerAt, Goto
<1>18. ASSUME NEW w \in Workers, Take(w) PROVE ResultRight'
  BY <1>18 DEF Take
<1>19. ASSUME NEW w \in Workers, Derive(w) PROVE ResultRight'
  BY <1>19 DEF Derive, WorkerAt
<1>20. ASSUME NEW w \in Workers, SetFlag(w) PROVE ResultRight'
  BY <1>20 DEF SetFlag, WorkerAt
<1>21. ASSUME NEW w \in Workers, SignalDone(w) PROVE ResultRight'
  BY <1>21 DEF SignalDone, WorkerAt
<1>22. ASSUME NEW w \in Workers, Uncount(w) PROVE ResultRight'
  BY <1>22 DEF Uncount, WorkerAt
<1>23. ASSUME NEW w \in Workers, SignalNone(w) PROVE ResultRight'
  BY <1>23 DEF SignalNone, WorkerAt
<1>24. CASE UNCHANGED vars
  BY <1>24 DEF vars
<1>. QED
  BY <1>1, <1>2, <1>3, <1>4, <1>5, <1>6, <1>7, <1>8, <1>9, <1>10, <1>11, <1>12,
     <1>13, <1>14, <1>15, <1>16, <1>17, <1>18, <1>19, <1>20, <1>21, <1>22,
     <1>23, <1>24 DEF Next, Caller, Worker, Returned

\* The invariant the properties follow from.
LEMMA Invariant == Spec => []IInv
<1>1. Init => IInv
  BY IInit
<1>2. IInv /\ [Next]_vars => IInv'
  BY TypeStep, ControlStep, ExclusiveStep, KeysStep, CoveredStep, CountedStep,
     ResultStep DEF IInv
<1>. QED
  BY <1>1, <1>2, PTL DEF Spec

\* The parallel search of ReadVolumeHeader calls the password wrong only if no
\* PRF that may be tried opens the header, and opens it only with its own PRF:
\* no PRF is lost when the pool is full, whatever the order the keys come in.
THEOREM SearchRight == Spec => []ResultRight
<1>1. IInv => ResultRight
  BY DEF IInv
<1>. QED
  BY <1>1, Invariant, PTL

\* A key's buffer is written by one derivation at a time, and never read or
\* given to another PRF meanwhile.
THEOREM DerivationsExclusive == Spec => []SlotExclusive
<1>1. IInv => SlotExclusive
  BY DEF IInv
<1>. QED
  BY <1>1, Invariant, PTL

\* Every variable keeps its type; at most encryptionThreadCount derivations
\* are queued, and none without the pool.
THEOREM HeaderTypes == Spec => []TypeOK
<1>1. IInv => TypeOK
  BY DEF IInv
<1>. QED
  BY <1>1, Invariant, PTL

================================================================================
