---------------------- MODULE ParallelTransform_proofs ----------------------
(***************************************************************************)
(* The pool of encryption threads implements ParallelTransform, and its    *)
(* workers never follow a pointer into another operation's slot: for every *)
(* number of workers, clients, slots and units that PoolAssumption allows. *)
(*                                                                         *)
(* The argument: the slots that an operation has filled are the ones that  *)
(* follow its first (Held), and stay its own (Owned), because the head of  *)
(* the ring never gets past the slot of a first fragment that is not free  *)
(* (Ahead).  That slot is not given back before the count, which is that   *)
(* of the fragments still to be done (Counted), has come to zero.          *)
(* So the call a worker recorded when it claimed its slot lasts until the  *)
(* worker is done with the slot (Serves).                                  *)
(***************************************************************************)
EXTENDS EncryptionThreadPool_proofs, FiniteSetTheorems

\* The pool accepts work; then a client may be in the midst of a call to it.
Open == running /\ ~stopPending

\* Where a client is that does not use the ring, that holds EnqueueMutex, that has
\* filled all its slots, that has taken one, or that has filled none.
Outside   == {"idle", "dispatch", "return"}
Enqueuing == {"testFirst", "waitFirst", "next", "testSlot", "waitSlot", "publish"}
Resting   == {"await", "release"}
Taking    == {"testSlot", "waitSlot"}
Early     == {"dispatch", "lock", "testFirst", "waitFirst"}

\* The slots of the ring, and the way from one to the other.
Ring == 0 .. queueSize - 1
Dist(a, b) == IF b >= a THEN b - a ELSE b - a + queueSize

\* The fragments of a call, those not yet filled in, and the slots of the others.
Total(c) == Split(op[c].units).fragments
Left(c)  == IF cpc[c] \in Taking THEN op[c].fragments + 1 ELSE op[c].fragments
Held(c)  == {s \in Ring : Dist(op[c].first, s) < Total(c) - Left(c)}

\* A worker that has claimed its slot and not yet returned from it.
Working(w) == wpc[w] \in {"work", "free", "signal", "decrement", "complete"}

\* The slots of a call whose fragments have not been counted as done, and
\* those whose fragments have been transformed.
Undone(c) == {s \in Held(c) : \/ itemState[s] = "Ready"
                              \/ \E w \in Workers : wslot[w] = s /\ wpc[w] \in {"work", "free", "signal", "decrement"}}
Worked(c) == {s \in Held(c) : /\ itemState[s] # "Ready"
                              /\ \A w \in Workers : wslot[w] = s => wpc[w] # "work"}

\* Nothing happens in the ring unless the pool is open.
Quiet ==
    /\ ~running => \A w \in Workers : wpc[w] = "exited"
    /\ running /\ stopPending => \A c \in Clients : cpc[c] = "idle"
    /\ ~Open => /\ \A c \in Clients : cpc[c] \in Outside
                /\ \A w \in Workers : ~Following(w)

\* The locals of DoWork.
LocalsOf(c) ==
    /\ op[c].units \in 0 .. MaxUnits
    /\ cpc[c] = "idle" => op[c].units = 0
    /\ cpc[c] \in Early =>
           LET o == Split(op[c].units)
           IN  /\ op[c].fragments = o.fragments /\ op[c].perFragment = o.perFragment
               /\ op[c].remainder = o.remainder /\ op[c].start = o.start
    /\ cpc[c] \notin {"idle", "dispatch", "return"} => op[c].units > 1
    /\ Active(c) => Left(c) <= Total(c)
    /\ cpc[c] \in Resting => op[c].fragments = 0

\* The positions are within the ring, one client moves the head, and where it is.
PlacedOf(c) ==
    /\ cpc[c] \in Enqueuing => enqueueMutex = c
    /\ cpc[c] \in Enqueuing \cup Resting => op[c].first \in Ring
    /\ cpc[c] \in {"testFirst", "waitFirst"} => op[c].first = enqueuePos
    /\ cpc[c] \in Taking => /\ cslot[c] \in Ring /\ enqueuePos = After(cslot[c])
                            /\ Dist(op[c].first, cslot[c]) = Total(c) - Left(c)
    /\ cpc[c] \in {"next", "publish"} =>
           \/ Dist(op[c].first, enqueuePos) = Total(c) - Left(c)
           \/ Total(c) - Left(c) = queueSize /\ enqueuePos = op[c].first

Locals == \A c \in Clients : LocalsOf(c)
Placed == enqueuePos \in Ring /\ \A c \in Clients : PlacedOf(c)

\* The head is not among the slots of a call that has filled all of them,
\* except that it may stand before the first.
Clear(c, s) == s = op[c].first \/ Dist(op[c].first, s) >= Total(c)

Ahead == \A c \in Clients : cpc[c] \in Resting =>
    /\ \A h \in Clients : cpc[h] \in Taking => Clear(c, cslot[h])
    /\ (\A h \in Clients : cpc[h] \notin Taking) => Clear(c, enqueuePos)

\* The slots of a call are its own, and its first is not free.
Owned == \A c \in Clients : Active(c) =>
    /\ \A s \in Held(c) : item[s].owner = c /\ firstFragment[s] = op[c].first
    /\ Left(c) < Total(c) => itemState[op[c].first] # "Free"
    /\ \A d \in Clients : Active(d) /\ d # c => op[d].first # op[c].first

\* A slot that is ready, or has a worker, belongs to a call, and to one worker.
Claimed == Open =>
    /\ \A s \in Slots : itemState[s] = "Ready" =>
           item[s].owner \in Clients /\ Active(item[s].owner) /\ s \in Held(item[s].owner)
    /\ \A w \in Workers : Working(w) =>
           /\ itemState[wslot[w]] # "Ready"
           /\ item[wslot[w]].owner \in Clients /\ Active(item[wslot[w]].owner)
           /\ wslot[w] \in Held(item[wslot[w]].owner)
           /\ wpc[w] \in {"work", "free"} => itemState[wslot[w]] = "Busy"
           /\ wpc[w] \in {"free", "signal"} => wslot[w] # op[item[wslot[w]].owner].first
           /\ \A v \in Workers : Working(v) /\ v # w => wslot[v] # wslot[w]

\* The count of a call is that of its fragments that are to be filled in or done;
\* at zero its event is set, once.
Counted == \A c \in Clients : Active(c) =>
    /\ outstanding[op[c].first] = Cardinality(Undone(c)) + Left(c)
    /\ cpc[c] = "release" => outstanding[op[c].first] = 0

\* The event of a call is set by one worker, and not again once its client knows.
Completed ==
    /\ \A w \in Workers : wpc[w] = "complete" =>
           LET c == item[wslot[w]].owner
           IN  /\ outstanding[op[c].first] = 0 /\ ~itemCompleted[op[c].first] /\ cpc[c] # "release"
               /\ \A v \in Workers : wpc[v] = "complete" /\ v # w => item[wslot[v]].owner # c
    /\ Open => \A s \in Slots : itemCompleted[s] =>
           LET c == item[s].owner
           IN  /\ c \in Clients /\ Active(c) /\ op[c].first = s
               /\ outstanding[s] = 0 /\ cpc[c] # "release"

\* The fragments are disjoint and cover the units up to start.
Tiled == \A c \in Clients : Active(c) =>
    /\ \A s \in Held(c) : \A u \in Covered(item[s]) : u \in 1 .. op[c].start
    /\ \A u \in 1 .. op[c].start : \E s \in Held(c) : u \in Covered(item[s])
    /\ \A s, t \in Held(c) : s # t => Covered(item[s]) \cap Covered(item[t]) = {}

\* The units after start are those of the fragments that are left.
SharedOf(c) ==
    LET o == op[c]
    IN  /\ o.remainder <= Left(c)
        /\ o.units = o.start + (IF o.remainder = 0 THEN Left(c) * o.perFragment
                                ELSE Left(c) * (o.perFragment - 1) + o.remainder)

Shared == \A c \in Clients : Active(c) => SharedOf(c)

\* The units that have been transformed so far.
Transformed == \A c \in Clients :
    /\ cpc[c] \in Early \cup {"idle"} => data[c] = Untouched
    /\ Active(c) => \A u \in Units :
           data[c][u] = IF \E s \in Worked(c) : u \in Covered(item[s]) THEN 1 ELSE 0
    /\ cpc[c] \in {"signal", "return"} =>
           \A u \in Units : data[c][u] = IF u <= op[c].units THEN 1 ELSE 0

\* The inductive invariant.
RInv == TypeInv /\ Quiet /\ Locals /\ Placed /\ Ahead /\ Owned /\ Claimed /\ Counted
        /\ Completed /\ Tiled /\ Shared /\ Transformed

-----------------------------------------------------------------------------
(* The ring *)

\* The ring is not empty, and large enough for a call's fragments.
LEMMA QueueSizeType ==
    TypeInv => queueSize \in Nat /\ queueSize >= 1 /\ ThreadCount <= queueSize /\ Ring \subseteq Slots
BY PoolAssumption DEF TypeInv, TypeOK, Ring, Slots

\* The way round the ring, of which After(s) is the next slot.
LEMMA DistNext ==
    ASSUME TypeInv, NEW a \in Ring, NEW s \in Ring
    PROVE  /\ Dist(a, s) \in Nat /\ Dist(a, s) < queueSize
           /\ Dist(a, s) = 0 <=> a = s
           /\ After(s) \in Ring
           /\ \/ Dist(a, After(s)) = Dist(a, s) + 1
              \/ Dist(a, s) = queueSize - 1 /\ After(s) = a
BY QueueSizeType DEF Ring, Dist, After

\* Two slots are not equally far away.
LEMMA DistOne ==
    ASSUME TypeInv, NEW a \in Ring, NEW s \in Ring, NEW t \in Ring, Dist(a, s) = Dist(a, t)
    PROVE  s = t
BY QueueSizeType DEF Ring, Dist

\* What DoWork starts with: its fragments are within the ring, and their units
\* are those of the buffer.
LEMMA SplitShared ==
    ASSUME TypeInv, NEW n \in Nat
    PROVE  LET o == Split(n)
           IN  /\ o \in Operation
               /\ o.units = n /\ o.start = 0 /\ o.first = 0
               /\ o.fragments \in Nat /\ o.fragments <= queueSize
               /\ n > 0 => o.fragments > 0
               /\ o.remainder <= o.fragments
               /\ n = IF o.remainder = 0 THEN o.fragments * o.perFragment
                      ELSE o.fragments * (o.perFragment - 1) + o.remainder
<1>. DEFINE q == n \div ThreadCount
            r == n % ThreadCount
<1>1. q \in Nat /\ r \in Nat /\ r < ThreadCount /\ n = ThreadCount * q + r
  BY PoolAssumption
<1>2. Split(n) \in Operation
  BY SplitType
<1>3. CASE n <= ThreadCount
  BY <1>2, <1>3, QueueSizeType, PoolAssumption DEF Split
<1>4. CASE n > ThreadCount
  <2>. HIDE DEF q, r
  <2>1. /\ Split(n).fragments = ThreadCount /\ Split(n).remainder = r
        /\ Split(n).perFragment = IF r = 0 THEN q ELSE q + 1
        /\ Split(n).units = n /\ Split(n).start = 0 /\ Split(n).first = 0
    BY <1>1, <1>4, PoolAssumption DEF Split, q, r
  <2>2. CASE r = 0
    BY <1>1, <1>2, <1>4, <2>1, <2>2, QueueSizeType, PoolAssumption
  <2>3. CASE r # 0
    <3>1. (q + 1) - 1 = q
      BY <1>1
    <3>2. Split(n).fragments * (Split(n).perFragment - 1) = ThreadCount * q
      BY <2>1, <2>3, <3>1
    <3>3. n = Split(n).fragments * (Split(n).perFragment - 1) + Split(n).remainder
      BY <1>1, <2>1, <3>2
    <3>. HIDE DEF Split
    <3>. QED
      BY <1>1, <1>2, <1>4, <2>1, <2>3, <3>3, QueueSizeType, PoolAssumption
  <2>. QED
    BY <2>2, <2>3
<1>. QED
  BY <1>3, <1>4, PoolAssumption

\* What a call's numbers are.
LEMMA CallType ==
    ASSUME TypeInv, NEW c \in Clients
    PROVE  /\ op[c] \in Operation
           /\ op[c].units \in Nat /\ op[c].fragments \in Nat /\ op[c].perFragment \in Nat
           /\ op[c].remainder \in Nat /\ op[c].start \in Nat /\ op[c].first \in Slots
           /\ Total(c) \in Nat /\ Total(c) <= queueSize /\ Left(c) \in Nat
           /\ op[c].units > 0 => Total(c) > 0
<1>1. op[c] \in Operation
  BY DEF TypeInv, TypeOK
<1>2. /\ op[c].units \in Nat /\ op[c].fragments \in Nat /\ op[c].perFragment \in Nat
      /\ op[c].remainder \in Nat /\ op[c].start \in Nat /\ op[c].first \in Slots
  BY <1>1 DEF Operation
<1>. QED
  BY <1>1, <1>2, SplitShared DEF Total, Left

\* A call's slots depend on its own locals only.
LEMMA HeldKept ==
    ASSUME NEW c \in Clients, queueSize' = queueSize, op'[c].units = op[c].units,
           op'[c].first = op[c].first, Left(c)' = Left(c)
    PROVE  Total(c)' = Total(c) /\ Held(c)' = Held(c)
BY DEF Total, Held, Ring, Dist

-----------------------------------------------------------------------------
(* Steps that leave the slots, the calls that hold some, and the workers of *)
(* them as they are                                                         *)

CallKept(c) ==
    /\ Active(c)' <=> Active(c)
    /\ Active(c) => /\ op'[c].units = op[c].units /\ op'[c].first = op[c].first
                    /\ op'[c].start = op[c].start /\ op'[c].remainder = op[c].remainder
                    /\ op'[c].perFragment = op[c].perFragment
                    /\ Left(c)' = Left(c) /\ data'[c] = data[c]
                    /\ cpc'[c] = "release" <=> cpc[c] = "release"

WorkerKept(w) ==
    /\ Working(w)' <=> Working(w)
    /\ Working(w) => /\ wslot'[w] = wslot[w]
                     /\ \/ wpc'[w] = wpc[w]
                        \/ wpc[w] = "signal" /\ wpc'[w] = "decrement"

\* The slots a call has filled, and the state they are in, are those of before.
LEMMA CallStands ==
    ASSUME NEW c \in Clients, Active(c), CallKept(c), queueSize' = queueSize,
           itemState' = itemState, \A w \in Workers : WorkerKept(w)
    PROVE  /\ Total(c)' = Total(c) /\ Left(c)' = Left(c) /\ Held(c)' = Held(c)
           /\ Undone(c)' = Undone(c) /\ Worked(c)' = Worked(c)
<1>1. Total(c)' = Total(c) /\ Left(c)' = Left(c) /\ Held(c)' = Held(c)
  BY HeldKept DEF CallKept
<1>2. ASSUME NEW s \in Held(c), NEW w \in Workers
      PROVE  /\ (wslot'[w] = s /\ wpc'[w] \in {"work", "free", "signal", "decrement"})
                <=> (wslot[w] = s /\ wpc[w] \in {"work", "free", "signal", "decrement"})
             /\ (wslot'[w] = s /\ wpc'[w] = "work") <=> (wslot[w] = s /\ wpc[w] = "work")
  BY DEF WorkerKept, Working
<1>3. Undone(c)' = Undone(c)
  BY <1>1, <1>2 DEF Undone
<1>4. Worked(c)' = Worked(c)
  BY <1>1, <1>2 DEF Worked
<1>. QED
  BY <1>1, <1>3, <1>4

\* Then nothing that the invariant says of the slots is disturbed.
LEMMA RingStands ==
    ASSUME RInv, queueSize' = queueSize, UNCHANGED ringVars, Open' => Open,
           \A c \in Clients : CallKept(c), \A w \in Workers : WorkerKept(w)
    PROVE  /\ Owned' /\ Claimed' /\ Counted' /\ Completed' /\ Tiled' /\ Shared'
           /\ \A c \in Clients : Active(c)' => \A u \in Units :
                  data'[c][u] = IF \E s \in Worked(c)' : u \in Covered(item'[s]) THEN 1 ELSE 0
<1>. USE DEF RInv, ringVars
<1>1. ASSUME NEW c \in Clients, Active(c)'
      PROVE  /\ Active(c) /\ data'[c] = data[c]
             /\ op'[c].units = op[c].units /\ op'[c].first = op[c].first
             /\ op'[c].start = op[c].start /\ op'[c].remainder = op[c].remainder
             /\ op'[c].perFragment = op[c].perFragment
             /\ cpc'[c] = "release" <=> cpc[c] = "release"
             /\ Total(c)' = Total(c) /\ Left(c)' = Left(c) /\ Held(c)' = Held(c)
             /\ Undone(c)' = Undone(c) /\ Worked(c)' = Worked(c)
  <2>1. CallKept(c) /\ Active(c)
    BY <1>1 DEF CallKept
  <2>. QED
    BY <2>1, CallStands DEF CallKept
<1>2. ASSUME NEW c \in Clients, Active(c) PROVE Active(c)'
  BY <1>2 DEF CallKept
<1>3. Owned'
  BY <1>1 DEF Owned
<1>4. Claimed'
  <2>. SUFFICES ASSUME Open' PROVE Claimed'
    BY DEF Claimed
  <2>1. Claimed /\ Open
    BY DEF Claimed
  <2>2. ASSUME NEW s \in Slots, itemState'[s] = "Ready"
        PROVE  item'[s].owner \in Clients /\ Active(item[s].owner)' /\ s \in Held(item[s].owner)'
    BY <2>1, <2>2, <1>1, <1>2 DEF Claimed
  <2>3. ASSUME NEW w \in Workers, Working(w)'
        PROVE  /\ itemState'[wslot'[w]] # "Ready"
               /\ item'[wslot'[w]].owner \in Clients /\ Active(item[wslot[w]].owner)'
               /\ wslot'[w] \in Held(item[wslot[w]].owner)'
               /\ wpc'[w] \in {"work", "free"} => itemState'[wslot'[w]] = "Busy"
               /\ wpc'[w] \in {"free", "signal"} => wslot'[w] # op'[item'[wslot'[w]].owner].first
               /\ \A v \in Workers : Working(v)' /\ v # w => wslot'[v] # wslot'[w]
    <3>1. Working(w) /\ wslot'[w] = wslot[w]
      BY <2>3 DEF WorkerKept
    <3>2. \A v \in Workers : Working(v)' => Working(v) /\ wslot'[v] = wslot[v]
      BY DEF WorkerKept
    <3>3. wpc'[w] \in {"work", "free", "signal"} => wpc'[w] = wpc[w]
      BY <3>1 DEF WorkerKept
    <3>. QED
      BY <2>1, <3>1, <3>2, <3>3, <1>1, <1>2 DEF Claimed
  <2>. QED
    BY <2>2, <2>3 DEF Claimed, WorkerKept
<1>5. Counted'
  BY <1>1 DEF Counted
<1>6. Completed'
  <2>1. ASSUME NEW w \in Workers, wpc'[w] = "complete"
        PROVE  /\ wpc[w] = "complete" /\ wslot'[w] = wslot[w]
               /\ op'[item[wslot[w]].owner].first = op[item[wslot[w]].owner].first
               /\ cpc'[item[wslot[w]].owner] # "release"
    <3>1. wpc[w] = "complete" /\ Working(w) /\ wslot'[w] = wslot[w]
      BY <2>1 DEF WorkerKept, Working
    <3>2. Open
      BY <3>1 DEF Quiet, Following
    <3>3. item[wslot[w]].owner \in Clients /\ Active(item[wslot[w]].owner)
      BY <3>1, <3>2 DEF Claimed
    <3>4. cpc[item[wslot[w]].owner] # "release"
      BY <3>1 DEF Completed
    <3>. QED
      BY <3>1, <3>3, <3>4, <1>1, <1>2
  <2>2. \A w \in Workers : wpc'[w] = "complete" =>
           LET c == item'[wslot'[w]].owner
           IN  /\ outstanding'[op'[c].first] = 0 /\ ~itemCompleted'[op'[c].first] /\ cpc'[c] # "release"
               /\ \A v \in Workers : wpc'[v] = "complete" /\ v # w => item'[wslot'[v]].owner # c
    BY <2>1 DEF Completed
  <2>3. ASSUME Open', NEW s \in Slots, itemCompleted'[s]
        PROVE  /\ item'[s].owner \in Clients /\ Active(item[s].owner)'
               /\ op'[item'[s].owner].first = s
               /\ outstanding'[s] = 0 /\ cpc'[item'[s].owner] # "release"
    <3>1. /\ item[s].owner \in Clients /\ Active(item[s].owner)
          /\ op[item[s].owner].first = s
          /\ outstanding[s] = 0 /\ cpc[item[s].owner] # "release"
      BY <2>3 DEF Completed
    <3>2. Active(item[s].owner)'
      BY <3>1, <1>2
    <3>. QED
      BY <3>1, <3>2, <1>1
  <2>. QED
    BY <2>2, <2>3 DEF Completed, ringVars
<1>7. Tiled'
  BY <1>1 DEF Tiled, Covered
<1>8. Shared'
  BY <1>1 DEF Shared, SharedOf
<1>9. ASSUME NEW c \in Clients, Active(c)', NEW u \in Units
      PROVE  data'[c][u] = IF \E s \in Worked(c)' : u \in Covered(item'[s]) THEN 1 ELSE 0
  BY <1>1, <1>9 DEF Transformed
<1>. QED
  BY <1>3, <1>4, <1>5, <1>6, <1>7, <1>8, <1>9

-----------------------------------------------------------------------------
(* What the steps leave alone *)

\* A step of a worker moves no client, and no other worker.
LEMMA WorkerAlone ==
    ASSUME NEW w \in Workers, Worker(w), TypeInv
    PROVE  /\ UNCHANGED <<poolVars, clientVars, enqueuePos, enqueueMutex, item, firstFragment>>
           /\ \A v \in Workers : v # w => /\ wpc'[v] = wpc[v] /\ wslot'[v] = wslot[v]
                                          /\ serving'[v] = serving[v]
BY DEF Worker, WorkerTop, WorkerLock, WorkerClaim, WorkerNotReady, WorkerWait, WorkerBreak,
       WorkerWork, WorkerFree, WorkerSignal, WorkerDecrement, WorkerComplete, WorkerAt,
       Serve, ringVars, poolVars, clientVars, TypeInv, TypeOK

ClientStep(c) == DoWork(c) \/ \E n \in Sizes : Call(c, n)

\* A step of a client moves no worker, and no other client.
LEMMA ClientAlone ==
    ASSUME NEW c \in Clients, ClientStep(c), TypeInv
    PROVE  /\ UNCHANGED <<poolVars, wpc, wslot>>
           /\ \A d \in Clients : d # c => /\ cpc'[d] = cpc[d] /\ op'[d] = op[d]
                                          /\ cslot'[d] = cslot[d] /\ data'[d] = data[d]
           /\ cpc'[c] # cpc[c]
BY DEF ClientStep, DoWork, CurrentThread, UsePool, EnqueueLock, FirstFree, FirstTaken,
       WaitCompleted, NextSlot, SlotTaken, Fill, Publish, EnqueueUnlock, Await, Release, Signal,
       Return, Leave, Call, ClientAt, ringVars, poolVars, workerVars, TypeInv, TypeOK

\* A worker takes no part in what is said of the calls alone.
LEMMA CallsStand ==
    ASSUME UNCHANGED <<clientVars, queueSize, enqueuePos, enqueueMutex>>,
           Locals, Placed, Ahead, Shared
    PROVE  Locals' /\ Placed' /\ Ahead' /\ Shared'
<1>. USE DEF clientVars, Total, Left, Ring, Dist, Active
<1>1. Locals'
  BY DEF Locals, LocalsOf
<1>2. Placed'
  BY DEF Placed, PlacedOf, After
<1>3. Ahead'
  BY DEF Ahead, Clear
<1>4. Shared'
  BY DEF Shared, SharedOf
<1>. QED
  BY <1>1, <1>2, <1>3, <1>4

-----------------------------------------------------------------------------
(* When the pool is open *)

\* A worker that is past the test of StopPending is in an open pool.
LEMMA QuietWorker ==
    ASSUME NEW w \in Workers, Worker(w), RInv
    PROVE  Quiet'
<1>. USE DEF RInv, Open
<1>1. /\ UNCHANGED <<running, stopPending, cpc>>
      /\ \A v \in Workers : v # w => wpc'[v] = wpc[v]
  BY WorkerAlone DEF poolVars, clientVars
<1>2. wpc \in [Workers -> {"top", "lock", "test", "wait", "work", "free", "signal",
                           "decrement", "complete", "exited"}]
  BY DEF TypeInv, TypeOK
<1>3. running
  BY <1>2 DEF Quiet, Worker, WorkerTop, WorkerLock, WorkerClaim, WorkerNotReady, WorkerWait,
       WorkerBreak, WorkerWork, WorkerFree, WorkerSignal, WorkerDecrement, WorkerComplete, WorkerAt
<1>4. ASSUME stopPending PROVE ~Following(w)'
  <2>1. ~Following(w)
    BY <1>4 DEF Quiet
  <2>. QED
    BY <1>2, <1>4, <2>1 DEF Following, Worker, WorkerTop, WorkerLock, WorkerClaim, WorkerNotReady,
       WorkerWait, WorkerBreak, WorkerWork, WorkerFree, WorkerSignal, WorkerDecrement,
       WorkerComplete, WorkerAt
<1>5. ASSUME stopPending, NEW v \in Workers PROVE ~Following(v)'
  BY <1>1, <1>4, <1>5 DEF Quiet, Following
<1>. QED
  BY <1>1, <1>3, <1>5 DEF Quiet

\* A client enters the ring of an open pool only.
LEMMA QuietClient ==
    ASSUME NEW c \in Clients, ClientStep(c), RInv
    PROVE  Quiet'
<1>. USE DEF RInv, Open
<1>1. /\ UNCHANGED <<running, stopPending, wpc>>
      /\ \A d \in Clients : d # c => cpc'[d] = cpc[d]
  BY ClientAlone DEF poolVars, workerVars
<1>2. cpc \in [Clients -> {"idle", "dispatch", "lock", "testFirst", "waitFirst", "next",
                           "testSlot", "waitSlot", "publish", "await", "release",
                           "signal", "return"}]
  BY DEF TypeInv, TypeOK
<1>. USE DEF DoWork, CurrentThread, UsePool, EnqueueLock, FirstFree, FirstTaken,
       WaitCompleted, NextSlot, SlotTaken, Fill, Publish, EnqueueUnlock, Await, Release, Signal,
       Return, Leave, Call, ClientAt
<1>3. ~(running /\ stopPending)
  BY <1>2 DEF Quiet, ClientStep
<1>4. ~Open => cpc'[c] \in Outside
  BY <1>2, <1>3 DEF Quiet, Outside, ClientStep
<1>5. \A v \in Workers : Following(v)' <=> Following(v)
  BY <1>1 DEF Following
<1>. QED
  BY <1>1, <1>3, <1>4, <1>5 DEF Quiet

-----------------------------------------------------------------------------
(* The locals of the calls, and the head of the ring *)

\* Nothing happens to the other calls.
LEMMA OthersStand ==
    ASSUME NEW c \in Clients, ClientStep(c), RInv, NEW d \in Clients, d # c
    PROVE  /\ cpc'[d] = cpc[d] /\ op'[d] = op[d] /\ cslot'[d] = cslot[d] /\ data'[d] = data[d]
           /\ Total(d)' = Total(d) /\ Left(d)' = Left(d) /\ Held(d)' = Held(d)
           /\ Active(d)' <=> Active(d)
           /\ queueSize' = queueSize
<1>1. cpc'[d] = cpc[d] /\ op'[d] = op[d] /\ cslot'[d] = cslot[d] /\ data'[d] = data[d] /\ queueSize' = queueSize
  BY ClientAlone DEF RInv, poolVars
<1>2. Left(d)' = Left(d) /\ (Active(d)' <=> Active(d))
  BY <1>1 DEF Left, Active
<1>. QED
  BY <1>1, <1>2, HeldKept

\* The head of the ring belongs to the holder of EnqueueMutex.
LEMMA OneEnqueues ==
    ASSUME NEW c \in Clients, ClientStep(c), RInv, NEW d \in Clients, d # c,
           cpc[d] \in Enqueuing
    PROVE  /\ cpc[c] \notin Enqueuing /\ cpc'[c] \notin Enqueuing
           /\ enqueuePos' = enqueuePos /\ enqueueMutex' = enqueueMutex
<1>1. cpc \in [Clients -> {"idle", "dispatch", "lock", "testFirst", "waitFirst", "next",
                           "testSlot", "waitSlot", "publish", "await", "release",
                           "signal", "return"}]
  BY DEF RInv, TypeInv, TypeOK
<1>2. enqueueMutex = d /\ cpc[c] \notin Enqueuing
  BY DEF RInv, Placed, PlacedOf
<1>3. NoThread \notin Clients
  BY PoolAssumption
<1>. QED
  BY <1>1, <1>2, <1>3 DEF Enqueuing, ClientStep, DoWork, CurrentThread, UsePool, EnqueueLock, FirstFree,
       FirstTaken, WaitCompleted, NextSlot, SlotTaken, Fill, Publish, EnqueueUnlock, Await,
       Release, Signal, Return, Leave, Call, ClientAt

\* The locals of DoWork, step by step.
LEMMA LocalsClient ==
    ASSUME NEW c \in Clients, ClientStep(c), RInv
    PROVE  Locals'
<1>. USE DEF RInv
<1>1. ASSUME NEW d \in Clients, d # c PROVE LocalsOf(d)'
  <2>1. LocalsOf(d)
    BY DEF Locals
  <2>. QED
    BY <1>1, <2>1, OthersStand DEF LocalsOf
<1>2. /\ cpc \in [Clients -> {"idle", "dispatch", "lock", "testFirst", "waitFirst", "next",
                              "testSlot", "waitSlot", "publish", "await", "release",
                              "signal", "return"}]
      /\ op \in [Clients -> Operation]
      /\ op[c].units \in Nat /\ op[c].fragments \in Nat
  BY CallType DEF TypeInv, TypeOK
<1>3. LocalsOf(c)
  BY DEF Locals
<1>4. op[c].units > 1 => Split(op[c].units).fragments > 0
  BY CallType DEF Total
<1>. USE <1>2, <1>3 DEF LocalsOf, ClientAt, Early, Resting, Active, Left, Total, Taking
<1>5. CASE CurrentThread(c)
  BY <1>1, <1>5 DEF CurrentThread, Locals
<1>6. CASE UsePool(c)
  BY <1>1, <1>6 DEF UsePool, Locals
<1>7. CASE EnqueueLock(c)
  <2>1. /\ op'[c].units = op[c].units /\ op'[c].fragments = op[c].fragments
        /\ op'[c].perFragment = op[c].perFragment /\ op'[c].remainder = op[c].remainder
        /\ op'[c].start = op[c].start /\ cpc[c] = "lock" /\ cpc'[c] = "testFirst"
    BY <1>7 DEF EnqueueLock, Operation
  <2>2. LocalsOf(c)'
    BY <2>1
  <2>. QED
    BY <1>1, <2>2 DEF Locals
<1>8. CASE FirstFree(c)
  <2>1. op' = op /\ cpc[c] = "testFirst" /\ cpc'[c] = "next"
    BY <1>8 DEF FirstFree
  <2>2. LocalsOf(c)'
    BY <2>1
  <2>. QED
    BY <1>1, <2>2 DEF Locals
<1>9. CASE FirstTaken(c)
  BY <1>1, <1>9 DEF FirstTaken, Locals
<1>10. CASE WaitCompleted(c, "waitFirst", "testFirst")
  BY <1>1, <1>10 DEF WaitCompleted, Locals
<1>11. CASE NextSlot(c)
  <2>1. /\ op'[c].units = op[c].units /\ op'[c].fragments = op[c].fragments - 1
        /\ cpc[c] = "next" /\ cpc'[c] = "testSlot"
    BY <1>11 DEF NextSlot, Operation
  <2>2. LocalsOf(c)'
    BY <2>1
  <2>. QED
    BY <1>1, <2>2 DEF Locals
<1>12. CASE SlotTaken(c)
  BY <1>1, <1>12 DEF SlotTaken, Locals
<1>13. CASE WaitCompleted(c, "waitSlot", "testSlot")
  BY <1>1, <1>13 DEF WaitCompleted, Locals
<1>14. CASE Fill(c)
  <2>1. /\ op'[c].units = op[c].units /\ op'[c].fragments = op[c].fragments
        /\ cpc[c] = "testSlot" /\ cpc'[c] = "publish"
    BY <1>14 DEF Fill, Operation
  <2>2. LocalsOf(c)'
    BY <2>1, SplitShared
  <2>. QED
    BY <1>1, <2>2 DEF Locals
<1>15. CASE Publish(c)
  BY <1>1, <1>15 DEF Publish, Locals
<1>16. CASE EnqueueUnlock(c)
  BY <1>1, <1>16 DEF EnqueueUnlock, Locals
<1>17. CASE Await(c)
  BY <1>1, <1>17 DEF Await, Locals
<1>18. CASE Release(c)
  BY <1>1, <1>18 DEF Release, Locals
<1>19. CASE Leave(c, "signal") \/ Leave(c, "return")
  <2>1. op'[c] = Split(0) /\ cpc'[c] = "idle" /\ Split(0).units = 0
    BY <1>19, SplitShared DEF Leave
  <2>2. LocalsOf(c)'
    BY <2>1, PoolAssumption
  <2>. QED
    BY <1>1, <2>2 DEF Locals
<1>20. ASSUME NEW n \in Sizes, Call(c, n) PROVE Locals'
  <2>1. op'[c] = Split(n) /\ cpc'[c] = "dispatch" /\ Split(n).units = n /\ n \in 0 .. MaxUnits
    BY <1>20, SplitShared, PoolAssumption DEF Call
  <2>2. LocalsOf(c)'
    BY <2>1
  <2>. QED
    BY <1>1, <2>2 DEF Locals
<1>. QED
  BY <1>5, <1>6, <1>7, <1>8, <1>9, <1>10, <1>11, <1>12, <1>13, <1>14, <1>15, <1>16, <1>17, <1>18,
     <1>19, <1>20 DEF ClientStep, DoWork, Signal, Return

\* The positions, step by step: each slot is the one after the slot before.
LEMMA PlacedClient ==
    ASSUME NEW c \in Clients, ClientStep(c), RInv
    PROVE  Placed'
<1>. USE DEF RInv
<1>1. ASSUME NEW d \in Clients, d # c PROVE PlacedOf(d)'
  <2>1. PlacedOf(d)
    BY DEF Placed
  <2>2. CASE cpc[d] \in Enqueuing
    BY <1>1, <2>1, <2>2, OthersStand, OneEnqueues DEF PlacedOf, Dist, Ring, After
  <2>3. CASE cpc[d] \notin Enqueuing
    BY <1>1, <2>1, <2>3, OthersStand DEF PlacedOf, Ring, Enqueuing, Taking
  <2>. QED
    BY <2>2, <2>3
<1>2. /\ cpc \in [Clients -> {"idle", "dispatch", "lock", "testFirst", "waitFirst", "next",
                              "testSlot", "waitSlot", "publish", "await", "release",
                              "signal", "return"}]
      /\ cslot \in [Clients -> Slots]
      /\ op \in [Clients -> Operation]
  BY DEF TypeInv, TypeOK
<1>3. enqueuePos \in Ring /\ PlacedOf(c) /\ LocalsOf(c)
  BY DEF Placed, Locals
<1>4. queueSize' = queueSize /\ Ring' = Ring
  BY ClientAlone DEF poolVars, Ring
<1>5. ASSUME UNCHANGED enqueuePos, PlacedOf(c)' PROVE Placed'
  BY <1>1, <1>3, <1>4, <1>5 DEF Placed
<1>. USE <1>2 DEF ClientAt, Enqueuing, Resting, Taking
<1>6. ASSUME UNCHANGED <<op, cslot, enqueuePos>>
      PROVE  /\ Total(c)' = Total(c)
             /\ Dist(op[c].first, cslot[c])' = Dist(op[c].first, cslot[c])
             /\ Dist(op[c].first, enqueuePos)' = Dist(op[c].first, enqueuePos)
             /\ After(cslot[c])' = After(cslot[c])
  BY <1>4, <1>6 DEF Total, Dist, After
<1>7. CASE CurrentThread(c)
  BY <1>3, <1>4, <1>5, <1>7 DEF CurrentThread, PlacedOf
<1>8. CASE UsePool(c)
  BY <1>3, <1>4, <1>5, <1>8 DEF UsePool, PlacedOf
<1>9. CASE EnqueueLock(c)
  BY <1>3, <1>4, <1>5, <1>9 DEF EnqueueLock, PlacedOf, Operation
<1>10. CASE FirstFree(c)
  <2>1. Left(c)' = Total(c) /\ Dist(op[c].first, enqueuePos) = 0 /\ op[c].first \in Ring
    BY <1>3, <1>10, DistNext DEF FirstFree, PlacedOf, LocalsOf, Left, Total, Early
  <2>2. Total(c) - Total(c) = 0
    BY CallType
  <2>. QED
    BY <1>3, <1>4, <1>5, <1>6, <1>10, <2>1, <2>2 DEF FirstFree, PlacedOf
<1>11. CASE FirstTaken(c)
  BY <1>3, <1>4, <1>5, <1>6, <1>11 DEF FirstTaken, PlacedOf
<1>12. CASE WaitCompleted(c, "waitFirst", "testFirst")
  BY <1>3, <1>4, <1>5, <1>6, <1>12 DEF WaitCompleted, PlacedOf
<1>13. CASE NextSlot(c)
  <2>1. /\ cpc[c] = "next" /\ cpc'[c] = "testSlot" /\ UNCHANGED enqueueMutex
        /\ op'[c].units = op[c].units /\ op'[c].first = op[c].first
        /\ op'[c].fragments = op[c].fragments - 1 /\ op[c].fragments > 0
        /\ cslot'[c] = enqueuePos /\ enqueuePos' = After(enqueuePos)
    BY <1>13 DEF NextSlot, Operation
  <2>2. Left(c) > 0 /\ Left(c)' = Left(c) /\ Total(c)' = Total(c)
    BY <2>1, CallType DEF Left, Total
  <2>3. Dist(op[c].first, enqueuePos) = Total(c) - Left(c)
    BY <1>3, <2>1, <2>2, CallType DEF PlacedOf
  <2>4. Dist(op[c].first, cslot[c])' = Dist(op[c].first, enqueuePos)
        /\ After(cslot[c])' = After(enqueuePos) /\ After(enqueuePos) \in Ring
    BY <1>3, <1>4, <2>1, DistNext DEF Dist, After
  <2>5. PlacedOf(c)'
    BY <1>3, <1>4, <2>1, <2>2, <2>3, <2>4 DEF PlacedOf
  <2>. QED
    BY <1>1, <1>4, <2>1, <2>4, <2>5 DEF Placed
<1>14. CASE SlotTaken(c)
  <2>1. Left(c)' = Left(c)
    BY <1>14 DEF SlotTaken, Left
  <2>. QED
    BY <1>3, <1>4, <1>5, <1>6, <1>14, <2>1 DEF SlotTaken, PlacedOf
<1>15. CASE WaitCompleted(c, "waitSlot", "testSlot")
  <2>1. Left(c)' = Left(c)
    BY <1>15 DEF WaitCompleted, Left
  <2>. QED
    BY <1>3, <1>4, <1>5, <1>6, <1>15, <2>1 DEF WaitCompleted, PlacedOf
<1>16. CASE Fill(c)
  <2>1. /\ cpc[c] = "testSlot" /\ cpc'[c] = "publish" /\ UNCHANGED <<cslot, enqueuePos, enqueueMutex>>
        /\ op'[c].units = op[c].units /\ op'[c].first = op[c].first
        /\ op'[c].fragments = op[c].fragments
    BY <1>16 DEF Fill, Operation
  <2>2. Left(c)' = Left(c) - 1 /\ Total(c)' = Total(c)
    BY <2>1, CallType DEF Left, Total
  <2>3. /\ cslot[c] \in Ring /\ enqueuePos = After(cslot[c]) /\ op[c].first \in Ring
        /\ Dist(op[c].first, cslot[c]) = Total(c) - Left(c)
    BY <1>3, <2>1 DEF PlacedOf
  <2>4. Dist(op[c].first, enqueuePos)' = Dist(op[c].first, enqueuePos)
    BY <1>4, <2>1 DEF Dist
  <2>5. \/ Dist(op[c].first, enqueuePos) = Total(c) - Left(c) + 1
        \/ Total(c) - Left(c) = queueSize - 1 /\ enqueuePos = op[c].first
    BY <2>3, DistNext
  <2>6. \/ Dist(op[c].first, enqueuePos) = Total(c) - (Left(c) - 1)
        \/ Total(c) - (Left(c) - 1) = queueSize /\ enqueuePos = op[c].first
    BY <2>5, CallType, QueueSizeType
  <2>. QED
    BY <1>3, <1>4, <1>5, <2>1, <2>2, <2>4, <2>6 DEF PlacedOf
<1>17. CASE Publish(c)
  <2>1. Left(c)' = Left(c)
    BY <1>17 DEF Publish, Left
  <2>. QED
    BY <1>3, <1>4, <1>5, <1>6, <1>17, <2>1 DEF Publish, PlacedOf
<1>18. CASE EnqueueUnlock(c)
  BY <1>3, <1>4, <1>5, <1>18 DEF EnqueueUnlock, PlacedOf
<1>19. CASE Await(c)
  BY <1>3, <1>4, <1>5, <1>19 DEF Await, PlacedOf
<1>20. CASE Release(c)
  BY <1>3, <1>4, <1>5, <1>20 DEF Release, PlacedOf
<1>21. CASE Leave(c, "signal") \/ Leave(c, "return")
  BY <1>3, <1>4, <1>5, <1>21 DEF Leave, PlacedOf
<1>22. ASSUME NEW n \in Sizes, Call(c, n) PROVE Placed'
  BY <1>3, <1>4, <1>5, <1>22 DEF Call, PlacedOf
<1>. QED
  BY <1>7, <1>8, <1>9, <1>10, <1>11, <1>12, <1>13, <1>14, <1>15, <1>16, <1>17, <1>18, <1>19, <1>20,
     <1>21, <1>22 DEF ClientStep, DoWork, Signal, Return

\* The head does not get past a first fragment's slot: to take the slot it
\* stands before, the slot has to be free.
LEMMA AheadClient ==
    ASSUME NEW c \in Clients, ClientStep(c), RInv
    PROVE  Ahead'
<1>. USE DEF RInv
<1>1. /\ cpc \in [Clients -> {"idle", "dispatch", "lock", "testFirst", "waitFirst", "next",
                              "testSlot", "waitSlot", "publish", "await", "release",
                              "signal", "return"}]
      /\ cslot \in [Clients -> Slots]
      /\ op \in [Clients -> Operation]
  BY DEF TypeInv, TypeOK
<1>2. queueSize' = queueSize
  BY ClientAlone DEF poolVars
<1>3. ASSUME NEW d \in Clients, op'[d] = op[d], NEW s PROVE Clear(d, s)' <=> Clear(d, s)
  BY <1>2, <1>3 DEF Clear, Dist, Total
<1>4. \A d \in Clients : d # c => cpc'[d] = cpc[d] /\ op'[d] = op[d] /\ cslot'[d] = cslot[d]
  BY ClientAlone
\* The steps that do not move the head: a client that has filled in all its
\* slots had done so before.
<1>5. ASSUME UNCHANGED enqueuePos, cpc'[c] \in Taking <=> cpc[c] \in Taking,
             cpc[c] \in Taking => cslot'[c] = cslot[c],
             cpc'[c] \in Resting => cpc[c] \in Resting /\ op'[c] = op[c]
      PROVE  Ahead'
  <2>1. ASSUME NEW d \in Clients, cpc'[d] \in Resting
        PROVE  cpc[d] \in Resting /\ op'[d] = op[d]
    BY <1>4, <1>5, <2>1
  <2>2. \A h \in Clients : (cpc'[h] \in Taking <=> cpc[h] \in Taking)
                           /\ (cpc[h] \in Taking => cslot'[h] = cslot[h])
    BY <1>4, <1>5
  <2>3. ASSUME NEW d \in Clients, cpc'[d] \in Resting, NEW h \in Clients, cpc'[h] \in Taking
        PROVE  Clear(d, cslot[h])'
    <3>1. Clear(d, cslot[h])
      BY <2>1, <2>2, <2>3 DEF Ahead
    <3>. QED
      BY <2>1, <2>2, <2>3, <3>1, <1>2 DEF Clear, Dist, Total
  <2>4. ASSUME NEW d \in Clients, cpc'[d] \in Resting, \A h \in Clients : cpc'[h] \notin Taking
        PROVE  Clear(d, enqueuePos)'
    <3>1. Clear(d, enqueuePos)
      BY <2>1, <2>2, <2>4 DEF Ahead
    <3>. QED
      BY <2>1, <2>4, <3>1, <1>2, <1>5 DEF Clear, Dist, Total
  <2>. QED
    BY <2>3, <2>4 DEF Ahead
<1>6. ASSUME cpc[c] \in Enqueuing, NEW h \in Clients, h # c PROVE cpc[h] \notin Taking /\ cpc'[h] \notin Taking
  BY <1>4, <1>6, OneEnqueues DEF Enqueuing, Taking
<1>7. ASSUME NEW d \in Clients, cpc[d] \in Resting
      PROVE  /\ itemState[op[d].first] # "Free" /\ op[d].first \in Ring
             /\ Total(d) \in Nat /\ Total(d) > 0 /\ Left(d) = 0 /\ Active(d)
  <2>1. Active(d) /\ op[d].units > 1 /\ Left(d) = 0
    BY <1>7 DEF Locals, LocalsOf, Resting, Active, Left, Taking
  <2>2. Total(d) \in Nat /\ Total(d) > 0
    BY <2>1, CallType
  <2>3. op[d].first \in Ring
    BY <1>7 DEF Placed, PlacedOf
  <2>. QED
    BY <2>1, <2>2, <2>3 DEF Owned
<1>8. CASE NextSlot(c)
  <2>1. /\ cpc[c] = "next" /\ cpc'[c] = "testSlot" /\ cslot'[c] = enqueuePos
    BY <1>1, <1>8 DEF NextSlot, ClientAt
  <2>2. ASSUME NEW d \in Clients, cpc'[d] \in Resting PROVE d # c /\ Clear(d, cslot[c])'
    <3>1. d # c /\ cpc[d] \in Resting /\ op'[d] = op[d]
      BY <1>4, <2>1, <2>2 DEF Resting
    <3>2. Clear(d, enqueuePos)
      BY <1>6, <2>1, <3>1 DEF Ahead, Enqueuing, Taking
    <3>. QED
      BY <1>2, <2>1, <3>1, <3>2 DEF Clear, Dist, Total
  <2>. QED
    BY <1>6, <2>1, <2>2 DEF Ahead, Taking, Enqueuing
<1>9. CASE Fill(c)
  <2>1. /\ cpc[c] = "testSlot" /\ cpc'[c] = "publish" /\ itemState[cslot[c]] = "Free"
        /\ UNCHANGED enqueuePos
    BY <1>1, <1>9 DEF Fill, ClientAt
  <2>2. cslot[c] \in Ring /\ enqueuePos = After(cslot[c])
    BY <2>1 DEF Placed, PlacedOf, Taking
  <2>3. ASSUME NEW d \in Clients, cpc'[d] \in Resting PROVE Clear(d, enqueuePos)'
    <3>1. d # c /\ cpc[d] \in Resting /\ op'[d] = op[d]
      BY <1>4, <2>1, <2>3 DEF Resting
    <3>2. Clear(d, cslot[c])
      BY <2>1, <3>1 DEF Ahead, Taking
    <3>3. Dist(op[d].first, cslot[c]) >= Total(d)
      BY <1>7, <2>1, <3>1, <3>2 DEF Clear
    <3>4. Clear(d, enqueuePos)
      BY <1>7, <2>2, <3>1, <3>3, DistNext DEF Clear
    <3>. QED
      BY <1>2, <2>1, <3>1, <3>4 DEF Clear, Dist, Total
  <2>. QED
    BY <1>6, <2>1, <2>3 DEF Ahead, Taking, Enqueuing
<1>10. CASE EnqueueUnlock(c)
  <2>1. /\ cpc[c] = "next" /\ cpc'[c] = "await" /\ UNCHANGED <<op, enqueuePos>> /\ op[c].fragments = 0
    BY <1>1, <1>10 DEF EnqueueUnlock, ClientAt
  <2>2. Clear(c, enqueuePos)
    <3>1. Left(c) = 0 /\ PlacedOf(c)
      BY <2>1 DEF Left, Taking, Placed
    <3>. QED
      BY <2>1, <3>1, CallType DEF PlacedOf, Clear
  <2>3. ASSUME NEW d \in Clients, cpc'[d] \in Resting PROVE Clear(d, enqueuePos)'
    <3>1. Clear(d, enqueuePos)
      BY <1>4, <1>6, <2>1, <2>2, <2>3 DEF Ahead, Taking, Enqueuing
    <3>. QED
      BY <1>2, <2>1, <3>1 DEF Clear, Dist, Total
  <2>. QED
    BY <1>6, <2>1, <2>3 DEF Ahead, Taking, Enqueuing
<1>. USE <1>1 DEF ClientAt, Taking, Resting
<1>11. CASE CurrentThread(c) \/ UsePool(c) \/ EnqueueLock(c) \/ FirstFree(c) \/ FirstTaken(c)
  BY <1>5, <1>11 DEF CurrentThread, UsePool, EnqueueLock, FirstFree, FirstTaken
<1>12. CASE WaitCompleted(c, "waitFirst", "testFirst") \/ WaitCompleted(c, "waitSlot", "testSlot") \/ SlotTaken(c)
  BY <1>5, <1>12 DEF WaitCompleted, SlotTaken
<1>13. CASE Publish(c) \/ Await(c) \/ Release(c)
  BY <1>5, <1>13 DEF Publish, Await, Release
<1>14. CASE Leave(c, "signal") \/ Leave(c, "return") \/ \E n \in Sizes : Call(c, n)
  BY <1>5, <1>14 DEF Leave, Call
<1>. QED
  BY <1>8, <1>9, <1>10, <1>11, <1>12, <1>13, <1>14 DEF ClientStep, DoWork, Signal, Return

\* What is left to give out shrinks by what a fragment takes, the shortened
\* fragments after the remainder included.
LEMMA SharedClient ==
    ASSUME NEW c \in Clients, ClientStep(c), RInv
    PROVE  Shared'
<1>. USE DEF RInv
<1>1. ASSUME NEW d \in Clients, d # c, Active(d)' PROVE SharedOf(d)'
  BY <1>1, OthersStand DEF Shared, SharedOf
<1>2. /\ cpc \in [Clients -> {"idle", "dispatch", "lock", "testFirst", "waitFirst", "next",
                              "testSlot", "waitSlot", "publish", "await", "release",
                              "signal", "return"}]
      /\ op \in [Clients -> Operation]
  BY DEF TypeInv, TypeOK
<1>3. ASSUME UNCHANGED op, Left(c)' = Left(c), Active(c)' => Active(c) PROVE Shared'
  BY <1>1, <1>3 DEF Shared, SharedOf
<1>4. CASE FirstFree(c)
  <2>1. UNCHANGED op /\ Left(c)' = op[c].fragments /\ cpc[c] = "testFirst"
    BY <1>2, <1>4 DEF FirstFree, ClientAt, Left, Taking
  <2>2. SharedOf(c)'
    <3>1. LocalsOf(c) /\ op[c].units \in Nat
      BY CallType DEF Locals
    <3>. DEFINE o == Split(op[c].units)
    <3>2. /\ op[c].fragments = o.fragments /\ op[c].perFragment = o.perFragment
          /\ op[c].remainder = o.remainder /\ op[c].start = 0
      BY <2>1, <3>1, SplitShared DEF LocalsOf, Early
    <3>3. op[c].remainder <= op[c].fragments
      BY <3>1, <3>2, SplitShared
    <3>4. op[c].units = IF op[c].remainder = 0 THEN op[c].fragments * op[c].perFragment
                        ELSE op[c].fragments * (op[c].perFragment - 1) + op[c].remainder
      BY <3>1, <3>2, SplitShared
    <3>5. \A n \in Nat : 0 + n = n
      OBVIOUS
    <3>. QED
      BY <2>1, <3>2, <3>3, <3>4, <3>5, CallType DEF SharedOf
  <2>. QED
    BY <1>1, <2>2 DEF Shared
<1>5. CASE NextSlot(c)
  <2>1. /\ op'[c].units = op[c].units /\ op'[c].perFragment = op[c].perFragment
        /\ op'[c].remainder = op[c].remainder /\ op'[c].start = op[c].start
        /\ Left(c)' = Left(c) /\ Active(c)
    BY <1>2, <1>5 DEF NextSlot, ClientAt, Operation, Left, Taking, Active
  <2>. QED
    BY <1>1, <2>1 DEF Shared, SharedOf
<1>6. CASE Fill(c)
  <2>. DEFINE u == op[c].units
              l == Left(c)
              p == op[c].perFragment
              r == op[c].remainder
              t == op[c].start
  <2>1. /\ op'[c].units = u /\ op'[c].start = t + p
        /\ op'[c].remainder = (IF r > 0 THEN r - 1 ELSE 0)
        /\ op'[c].perFragment = (IF r = 1 THEN p - 1 ELSE p)
        /\ cpc[c] = "testSlot" /\ cpc'[c] = "publish" /\ op'[c].fragments = op[c].fragments
    BY <1>2, <1>6 DEF Fill, ClientAt, Operation
  <2>5. Left(c)' = l - 1 /\ l >= 1 /\ Active(c)
    BY <2>1, CallType DEF Left, Taking, Active
  <2>2. u \in Nat /\ l \in Nat /\ p \in Nat /\ r \in Nat /\ t \in Nat
    BY CallType
  <2>3. r <= l /\ u = t + (IF r = 0 THEN l * p ELSE l * (p - 1) + r)
    BY <2>5 DEF Shared, SharedOf
  <2>4. SharedOf(c)'
    <3>. HIDE DEF u, l, p, r, t
    <3>1. CASE r = 0
      <4>1. (l - 1) * p = l * p - p /\ l * p \in Nat
        BY <2>2
      <4>2. u = (t + p) + (l - 1) * p
        BY <2>2, <2>3, <3>1, <4>1
      <4>. QED
        BY <2>1, <2>2, <2>3, <2>5, <3>1, <4>2 DEF SharedOf
    <3>2. CASE r = 1
      <4>1. (l - 1) * (p - 1) = l * (p - 1) - (p - 1) /\ l * (p - 1) \in Int
        BY <2>2
      <4>2. u = (t + p) + (l - 1) * (p - 1)
        BY <2>2, <2>3, <3>2, <4>1
      <4>. QED
        BY <2>1, <2>2, <2>3, <2>5, <3>2, <4>2 DEF SharedOf
    <3>3. CASE r > 1
      <4>1. (l - 1) * (p - 1) = l * (p - 1) - (p - 1) /\ l * (p - 1) \in Int
        BY <2>2
      <4>2. u = (t + p) + ((l - 1) * (p - 1) + (r - 1))
        BY <2>2, <2>3, <3>3, <4>1
      <4>3. r - 1 <= l - 1 /\ r - 1 # 0
        BY <2>2, <2>3, <3>3
      <4>4. op'[c].remainder = r - 1 /\ op'[c].perFragment = p
        BY <2>1, <2>2, <3>3
      <4>. QED
        BY <2>1, <2>5, <4>2, <4>3, <4>4 DEF SharedOf
    <3>. QED
      BY <2>2, <3>1, <3>2, <3>3
  <2>. QED
    BY <1>1, <2>4 DEF Shared
<1>. USE <1>2 DEF ClientAt, Taking, Left, Active
<1>7. CASE CurrentThread(c) \/ UsePool(c) \/ FirstTaken(c)
  BY <1>3, <1>7 DEF CurrentThread, UsePool, FirstTaken
<1>8. CASE EnqueueLock(c) \/ Leave(c, "signal") \/ Leave(c, "return") \/ \E n \in Sizes : Call(c, n)
  BY <1>1, <1>8 DEF EnqueueLock, Leave, Call, Shared
<1>9. CASE WaitCompleted(c, "waitFirst", "testFirst") \/ WaitCompleted(c, "waitSlot", "testSlot") \/ SlotTaken(c)
  BY <1>3, <1>9 DEF WaitCompleted, SlotTaken
<1>10. CASE Publish(c) \/ EnqueueUnlock(c) \/ Await(c) \/ Release(c)
  BY <1>3, <1>10 DEF Publish, EnqueueUnlock, Await, Release
<1>. QED
  BY <1>4, <1>5, <1>6, <1>7, <1>8, <1>9, <1>10 DEF ClientStep, DoWork, Signal, Return

-----------------------------------------------------------------------------
(* What is known of a slot that has a worker *)

\* A pool that is not open has no slots in use.
LEMMA ClosedRing == Quiet /\ ~Open => Owned /\ Claimed /\ Counted /\ Completed /\ Tiled /\ Shared
<1>. SUFFICES ASSUME Quiet, ~Open PROVE Owned /\ Claimed /\ Counted /\ Completed /\ Tiled /\ Shared
  OBVIOUS
<1>1. \A c \in Clients : ~Active(c)
  BY DEF Quiet, Outside, Active
<1>2. \A w \in Workers : wpc[w] # "complete"
  BY DEF Quiet, Following
<1>. QED
  BY <1>1, <1>2 DEF Owned, Claimed, Counted, Completed, Tiled, Shared

\* A slot that a call has filled is its own, and so is its first.
LEMMA HeldSlot ==
    ASSUME RInv, NEW c \in Clients, Active(c), NEW s \in Held(c)
    PROVE  /\ s \in Ring /\ s \in Slots /\ item[s].owner = c /\ firstFragment[s] = op[c].first
           /\ op[c].first \in Held(c) /\ op[c].first \in Slots /\ item[op[c].first].owner = c
           /\ itemState[op[c].first] # "Free"
<1>. USE DEF RInv
<1>1. s \in Ring /\ op[c].first \in Ring
  BY DEF Held, Active, Placed, PlacedOf, Enqueuing, Resting
<1>2. /\ Dist(op[c].first, s) < Total(c) - Left(c) /\ Dist(op[c].first, s) \in Nat
      /\ Dist(op[c].first, op[c].first) = 0
  BY <1>1, DistNext DEF Held
<1>3. op[c].first \in Held(c) /\ Left(c) < Total(c)
  BY <1>1, <1>2, CallType DEF Held
<1>. QED
  BY <1>1, <1>3, QueueSizeType DEF Owned

\* A slot that a worker has claimed belongs to a call that holds it.
LEMMA WorkerSlot ==
    ASSUME RInv, NEW w \in Workers, Open, Working(w)
    PROVE  LET s == wslot[w]
               c == item[wslot[w]].owner
           IN  /\ c \in Clients /\ Active(c) /\ s \in Held(c)
               /\ itemState[s] # "Ready" /\ firstFragment[s] = op[c].first
               /\ \A v \in Workers : Working(v) /\ v # w => wslot[v] # s
               /\ wpc[w] \in {"work", "free"} => itemState[s] = "Busy"
               /\ wpc[w] \in {"free", "signal"} => s # op[c].first
<1>1. /\ itemState[wslot[w]] # "Ready"
      /\ item[wslot[w]].owner \in Clients /\ Active(item[wslot[w]].owner)
      /\ wslot[w] \in Held(item[wslot[w]].owner)
      /\ wpc[w] \in {"work", "free"} => itemState[wslot[w]] = "Busy"
      /\ wpc[w] \in {"free", "signal"} => wslot[w] # op[item[wslot[w]].owner].first
      /\ \A v \in Workers : Working(v) /\ v # w => wslot[v] # wslot[w]
  BY DEF RInv, Claimed
<1>. QED
  BY <1>1, HeldSlot

\* The calls, and the fragments they have filled in, in a step of a worker.
LEMMA WorkerCalls ==
    ASSUME NEW w \in Workers, Worker(w), RInv
    PROVE  /\ Open' <=> Open
           /\ item' = item /\ firstFragment' = firstFragment /\ op' = op /\ cpc' = cpc
           /\ \A c \in Clients : /\ Active(c)' <=> Active(c)
                                 /\ Total(c)' = Total(c) /\ Left(c)' = Left(c) /\ Held(c)' = Held(c)
           /\ Tiled' /\ Locals' /\ Placed' /\ Ahead' /\ Shared'
           /\ \A v \in Workers : v # w => wpc'[v] = wpc[v] /\ wslot'[v] = wslot[v]
<1>. USE DEF RInv
<1>1. /\ UNCHANGED <<poolVars, clientVars, enqueuePos, enqueueMutex, item, firstFragment>>
      /\ \A v \in Workers : v # w => wpc'[v] = wpc[v] /\ wslot'[v] = wslot[v]
  BY WorkerAlone
<1>2. Open' <=> Open
  BY <1>1 DEF poolVars, Open
<1>3. ASSUME NEW c \in Clients
      PROVE  /\ Active(c)' <=> Active(c)
             /\ Total(c)' = Total(c) /\ Left(c)' = Left(c) /\ Held(c)' = Held(c)
  <2>1. (Active(c)' <=> Active(c)) /\ Left(c)' = Left(c)
    BY <1>1 DEF Active, Left, clientVars
  <2>. QED
    BY <1>1, <2>1, HeldKept DEF clientVars, poolVars
<1>4. Tiled'
  BY <1>1, <1>3 DEF Tiled, Covered, clientVars
<1>5. Locals' /\ Placed' /\ Ahead' /\ Shared'
  BY <1>1, CallsStand DEF poolVars
<1>. QED
  BY <1>1, <1>2, <1>3, <1>4, <1>5 DEF clientVars

\* The buffers while no unit is transformed.
LEMMA BuffersStand ==
    ASSUME RInv, UNCHANGED <<data, op, cpc>>,
           \A c \in Clients : Active(c) /\ Open => Worked(c)' = Worked(c) /\ item' = item
    PROVE  Transformed'
<1>. USE DEF RInv
<1>1. ASSUME NEW c \in Clients, Active(c)' PROVE Active(c) /\ Open /\ op'[c] = op[c] /\ data'[c] = data[c]
  BY <1>1 DEF Active, Quiet, Outside
<1>2. ASSUME NEW c \in Clients, Active(c)', NEW u \in Units
      PROVE  data'[c][u] = IF \E s \in Worked(c)' : u \in Covered(item'[s]) THEN 1 ELSE 0
  BY <1>1, <1>2 DEF Transformed
<1>3. \A c \in Clients : /\ cpc'[c] \in Early \cup {"idle"} => data'[c] = Untouched
                         /\ cpc'[c] \in {"signal", "return"} =>
                                \A u \in Units : data'[c][u] = IF u <= op'[c].units THEN 1 ELSE 0
  BY DEF Transformed
<1>. QED
  BY <1>2, <1>3 DEF Transformed, Untouched, Units

-----------------------------------------------------------------------------
(* The steps of the workers *)

\* The steps of a worker that has no slot, and those of one that leaves it as it is.
LEMMA WorkerOutside ==
    ASSUME NEW w \in Workers, Worker(w), RInv,
           \/ WorkerTop(w) \/ WorkerLock(w) \/ WorkerNotReady(w) \/ WorkerWait(w)
           \/ WorkerBreak(w) \/ WorkerSignal(w)
    PROVE  RInv'
<1>. USE DEF RInv
<1>1. UNCHANGED <<ringVars, data, queueSize, op, cpc>>
  BY WorkerAlone DEF WorkerTop, WorkerLock, WorkerNotReady, WorkerWait, WorkerBreak, WorkerSignal, poolVars, clientVars
<1>2. TypeInv' /\ Quiet'
  BY TypeStep, QuietWorker DEF Next
<1>3. CASE Open
  <2>1. \A c \in Clients : CallKept(c)
    BY <1>1, WorkerCalls DEF CallKept
  <2>2. \A v \in Workers : WorkerKept(v)
    <3>1. wpc \in [Workers -> {"top", "lock", "test", "wait", "work", "free", "signal",
                           "decrement", "complete", "exited"}]
      BY DEF TypeInv, TypeOK
    <3>2. WorkerKept(w)
      BY <1>3, <3>1 DEF Open, WorkerKept, Working, WorkerTop, WorkerLock, WorkerNotReady, WorkerWait,
         WorkerBreak, WorkerSignal, WorkerAt
    <3>. QED
      BY <3>2, WorkerCalls DEF WorkerKept, Working
  <2>3. /\ Owned' /\ Claimed' /\ Counted' /\ Completed'
    BY <1>1, <1>3, <2>1, <2>2, RingStands DEF Open, ringVars
  <2>4. ASSUME NEW c \in Clients, Active(c) PROVE Worked(c)' = Worked(c)
    BY <1>1, <2>1, <2>2, <2>4, CallStands DEF ringVars
  <2>5. Transformed'
    BY <1>1, <2>4, BuffersStand DEF ringVars
  <2>. QED
    BY <1>2, <2>3, <2>5, WorkerCalls
<1>4. CASE ~Open
  <2>1. Owned' /\ Claimed' /\ Counted' /\ Completed'
    <3>1. ~Open'
      BY <1>4, WorkerCalls
    <3>. QED
      BY <1>2, <3>1, ClosedRing, PTL
  <2>2. Transformed'
    BY <1>1, <1>4, BuffersStand
  <2>. QED
    BY <1>2, <2>1, <2>2, WorkerCalls
<1>. QED
  BY <1>3, <1>4

\* A worker only moves on in its operation while the pool is open.
LEMMA WorkingOpen == ASSUME RInv, NEW w \in Workers, Working(w), ~stopPending \/ wpc[w] # "work" PROVE Open
BY DEF RInv, Quiet, Open, Following, Working

\* A claim marks the slot: the fragment is still to be done, by one worker.
LEMMA ClaimStep ==
    ASSUME NEW w \in Workers, WorkerClaim(w), RInv
    PROVE  RInv'
<1>. USE DEF RInv
<1>. DEFINE s == wslot[w]
            c == item[s].owner
<1>0. Worker(w)
  BY DEF Worker
<1>1. /\ wpc[w] = "test" /\ wpc'[w] = "work" /\ (stopPending \/ itemState[s] = "Ready") /\ wslot' = wslot
      /\ itemState' = [itemState EXCEPT ![s] = "Busy"] /\ s \in Slots
      /\ UNCHANGED <<item, firstFragment, outstanding, itemCompleted, data, op, cpc>>
  BY DEF WorkerClaim, WorkerAt, TypeInv, TypeOK, clientVars
<1>2. TypeInv' /\ Quiet'
  BY <1>0, TypeStep, QuietWorker DEF Next
<1>3. CASE ~Open
  <2>1. Owned' /\ Claimed' /\ Counted' /\ Completed'
    <3>1. ~Open'
      BY <1>0, <1>3, WorkerCalls
    <3>. QED
      BY <1>2, <3>1, ClosedRing, PTL
  <2>2. Transformed'
    BY <1>1, <1>3, BuffersStand
  <2>. QED
    BY <1>0, <1>2, <2>1, <2>2, WorkerCalls
<1>4. CASE Open
  <2>0. itemState[s] = "Ready"
    BY <1>1, <1>4 DEF Open
  <2>1. c \in Clients /\ Active(c) /\ s \in Held(c)
    BY <1>1, <1>4, <2>0 DEF Claimed
  <2>2. ~Working(w) /\ Working(w)'
    BY <1>1 DEF Working
  <2>3. ASSUME NEW v \in Workers, v # w
        PROVE  /\ wpc'[v] = wpc[v] /\ (Working(v)' <=> Working(v))
               /\ Working(v) => wslot[v] # s
    BY <1>0, <1>1, <1>4, <2>0, <2>3, WorkerCalls, WorkerSlot DEF Working
  <2>4. s # op[c].first => itemState'[op[c].first] = itemState[op[c].first]
    BY <1>1, <2>1, HeldSlot DEF TypeInv, TypeOK
  <2>5. \A t \in Slots : itemState'[t] = IF t = s THEN "Busy" ELSE itemState[t]
    BY <1>1 DEF TypeInv, TypeOK
  <2>6. ASSUME NEW d \in Clients, Active(d)
        PROVE  Undone(d)' = Undone(d) /\ Worked(d)' = Worked(d)
    <3>1. Held(d)' = Held(d) /\ \A t \in Held(d) : t \in Slots
      BY <1>0, <2>6, WorkerCalls, HeldSlot
    <3>2. Undone(d)' = Undone(d)
      BY <1>1, <2>0, <2>2, <2>3, <2>5, <3>1 DEF Undone, Working
    <3>3. Worked(d)' = Worked(d)
      BY <1>1, <2>0, <2>2, <2>3, <2>5, <3>1 DEF Worked, Working
    <3>. QED
      BY <3>2, <3>3
  <2>7. Owned'
    <3>1. ASSUME NEW d \in Clients, itemState[op[d].first] # "Free" PROVE itemState'[op[d].first] # "Free"
      BY <2>5, <3>1, CallType
    <3>. QED
      BY <1>0, <1>1, <3>1, WorkerCalls DEF Owned
  <2>8. Claimed'
    <3>1. ASSUME NEW t \in Slots, itemState'[t] = "Ready"
          PROVE  item'[t].owner \in Clients /\ Active(item[t].owner)' /\ t \in Held(item[t].owner)'
      BY <1>0, <1>1, <1>4, <2>5, <3>1, WorkerCalls DEF Claimed
    <3>2. ASSUME NEW v \in Workers, Working(v)'
          PROVE  /\ itemState'[wslot'[v]] # "Ready"
                 /\ item'[wslot'[v]].owner \in Clients /\ Active(item[wslot[v]].owner)'
                 /\ wslot'[v] \in Held(item[wslot[v]].owner)'
                 /\ wpc'[v] \in {"work", "free"} => itemState'[wslot'[v]] = "Busy"
                 /\ wpc'[v] \in {"free", "signal"} => wslot'[v] # op'[item'[wslot'[v]].owner].first
                 /\ \A x \in Workers : Working(x)' /\ x # v => wslot'[x] # wslot'[v]
      <4>1. CASE v = w
        BY <1>0, <1>1, <2>1, <2>3, <2>5, <4>1, WorkerCalls
      <4>2. CASE v # w
        <5>1. Working(v) /\ wslot[v] # s /\ wslot[v] \in Slots
          BY <2>3, <3>2, <4>2 DEF TypeInv, TypeOK
        <5>. QED
          BY <1>0, <1>1, <1>4, <2>3, <2>5, <4>2, <5>1, WorkerCalls, WorkerSlot
      <4>. QED
        BY <4>1, <4>2
    <3>. QED
      BY <1>1, <3>1, <3>2 DEF Claimed
  <2>9. Counted'
    BY <1>0, <1>1, <2>6, WorkerCalls DEF Counted
  <2>10. Completed'
    BY <1>0, <1>1, <2>3, WorkerCalls DEF Completed
  <2>11. Transformed'
    BY <1>1, <2>6, BuffersStand
  <2>. QED
    BY <1>0, <1>2, <2>7, <2>8, <2>9, <2>10, <2>11, WorkerCalls
<1>. QED
  BY <1>3, <1>4

\* A slot is given back: it is not a first one, and the count still has it.
LEMMA FreeStep ==
    ASSUME NEW w \in Workers, WorkerFree(w), RInv
    PROVE  RInv'
<1>. USE DEF RInv
<1>. DEFINE s == wslot[w]
            c == item[s].owner
<1>0. Worker(w)
  BY DEF Worker
<1>1. /\ wpc[w] = "free" /\ wpc'[w] = "signal" /\ wslot' = wslot
      /\ itemState' = [itemState EXCEPT ![s] = "Free"] /\ s \in Slots
      /\ UNCHANGED <<item, firstFragment, outstanding, itemCompleted, data, op, cpc>>
  BY DEF WorkerFree, WorkerAt, TypeInv, TypeOK, clientVars
<1>2. TypeInv' /\ Quiet'
  BY <1>0, TypeStep, QuietWorker DEF Next
<1>3. Working(w) /\ Working(w)' /\ Open
  BY <1>1, WorkingOpen DEF Working
<1>4. /\ c \in Clients /\ Active(c) /\ s \in Held(c) /\ itemState[s] = "Busy" /\ s # op[c].first
      /\ \A v \in Workers : Working(v) /\ v # w => wslot[v] # s
  BY <1>1, <1>3, WorkerSlot
<1>5. \A v \in Workers : v # w => wpc'[v] = wpc[v] /\ (Working(v)' <=> Working(v))
  BY <1>0, WorkerCalls DEF Working
<1>6. \A t \in Slots : itemState'[t] = IF t = s THEN "Free" ELSE itemState[t]
  BY <1>1 DEF TypeInv, TypeOK
<1>7. ASSUME NEW d \in Clients, Active(d)
      PROVE  Undone(d)' = Undone(d) /\ Worked(d)' = Worked(d)
  <2>1. Held(d)' = Held(d) /\ \A t \in Held(d) : t \in Slots
    BY <1>0, <1>7, WorkerCalls, HeldSlot
  <2>2. Undone(d)' = Undone(d)
    BY <1>1, <1>4, <1>5, <1>6, <2>1 DEF Undone
  <2>3. Worked(d)' = Worked(d)
    BY <1>1, <1>4, <1>5, <1>6, <2>1 DEF Worked
  <2>. QED
    BY <2>2, <2>3
<1>8. Owned'
  <2>1. ASSUME NEW d \in Clients, Active(d), Left(d) < Total(d) PROVE itemState'[op[d].first] # "Free"
    <3>1. op[d].first \in Ring
      BY <2>1 DEF Active, Placed, PlacedOf, Enqueuing, Resting
    <3>2. op[d].first \in Held(d)
      BY <2>1, <3>1, DistNext, CallType DEF Held
    <3>3. op[d].first # s
      BY <1>4, <2>1, <3>2, HeldSlot
    <3>. QED
      BY <1>6, <2>1, <3>2, <3>3, HeldSlot
  <2>. QED
    BY <1>0, <1>1, <2>1, WorkerCalls DEF Owned
<1>9. Claimed'
  <2>1. ASSUME NEW t \in Slots, itemState'[t] = "Ready"
        PROVE  item'[t].owner \in Clients /\ Active(item[t].owner)' /\ t \in Held(item[t].owner)'
    BY <1>0, <1>1, <1>3, <1>6, <2>1, WorkerCalls DEF Claimed
  <2>2. ASSUME NEW v \in Workers, Working(v)'
        PROVE  /\ itemState'[wslot'[v]] # "Ready"
               /\ item'[wslot'[v]].owner \in Clients /\ Active(item[wslot[v]].owner)'
               /\ wslot'[v] \in Held(item[wslot[v]].owner)'
               /\ wpc'[v] \in {"work", "free"} => itemState'[wslot'[v]] = "Busy"
               /\ wpc'[v] \in {"free", "signal"} => wslot'[v] # op'[item'[wslot'[v]].owner].first
               /\ \A x \in Workers : Working(x)' /\ x # v => wslot'[x] # wslot'[v]
    <3>1. CASE v = w
      BY <1>0, <1>1, <1>3, <1>4, <1>5, <1>6, <3>1, WorkerCalls
    <3>2. CASE v # w
      <4>1. Working(v) /\ wslot[v] # s /\ wslot[v] \in Slots
        BY <1>4, <1>5, <2>2, <3>2 DEF TypeInv, TypeOK
      <4>. QED
        BY <1>0, <1>1, <1>3, <1>4, <1>5, <1>6, <3>2, <4>1, WorkerCalls, WorkerSlot
    <3>. QED
      BY <3>1, <3>2
  <2>. QED
    BY <1>1, <2>1, <2>2 DEF Claimed
<1>10. Counted'
  BY <1>0, <1>1, <1>7, WorkerCalls DEF Counted
<1>11. Completed'
  BY <1>0, <1>1, <1>5, WorkerCalls DEF Completed
<1>12. Transformed'
  BY <1>1, <1>7, BuffersStand
<1>. QED
  BY <1>0, <1>2, <1>8, <1>9, <1>10, <1>11, <1>12, WorkerCalls

\* The slots of a call can be counted.
LEMMA HeldFinite ==
    ASSUME TypeInv, NEW c \in Clients
    PROVE  /\ IsFiniteSet(Held(c)) /\ IsFiniteSet(Undone(c))
           /\ Cardinality(Undone(c)) \in Nat
<1>1. IsFiniteSet(Ring)
  BY QueueSizeType, FS_Interval DEF Ring
<1>2. Held(c) \subseteq Ring /\ Undone(c) \subseteq Ring
  BY DEF Held, Undone
<1>3. IsFiniteSet(Held(c)) /\ IsFiniteSet(Undone(c))
  BY <1>1, <1>2, FS_Subset
<1>. QED
  BY <1>3, FS_CardinalityType

\* The count goes down with the fragments that are to be done; the worker that
\* takes it to zero is the only one to set the event.
LEMMA DecrementStep ==
    ASSUME NEW w \in Workers, WorkerDecrement(w), RInv
    PROVE  RInv'
<1>. USE DEF RInv
<1>. DEFINE s == wslot[w]
            c == item[s].owner
            f == op[c].first
<1>0. Worker(w)
  BY DEF Worker
<1>2. TypeInv' /\ Quiet'
  BY <1>0, TypeStep, QuietWorker DEF Next
<1>3. wpc[w] = "decrement" /\ Working(w) /\ Open /\ s \in Slots
  BY WorkingOpen DEF Working, WorkerDecrement, WorkerAt, TypeInv, TypeOK
<1>4. /\ c \in Clients /\ Active(c) /\ s \in Held(c) /\ firstFragment[s] = f
      /\ itemState[s] # "Ready"
      /\ \A v \in Workers : Working(v) /\ v # w => wslot[v] # s
      /\ f \in Slots
  BY <1>3, WorkerSlot, HeldSlot
<1>1. /\ wpc'[w] = (IF outstanding[f] = 1 THEN "complete" ELSE "top") /\ wslot' = wslot
      /\ outstanding' = [outstanding EXCEPT ![f] = outstanding[f] - 1]
      /\ UNCHANGED <<item, itemState, firstFragment, itemCompleted, data, op, cpc>>
  BY <1>4 DEF WorkerDecrement, WorkerAt, TypeInv, TypeOK, clientVars
<1>5. \A v \in Workers : v # w => wpc'[v] = wpc[v] /\ (Working(v)' <=> Working(v))
  BY <1>0, WorkerCalls DEF Working
<1>6. \A t \in Slots : outstanding'[t] = IF t = f THEN outstanding[f] - 1 ELSE outstanding[t]
  BY <1>1 DEF TypeInv, TypeOK
<1>7. ASSUME NEW d \in Clients, Active(d)
      PROVE  Worked(d)' = Worked(d)
  <2>1. Held(d)' = Held(d)
    BY <1>0, <1>7, WorkerCalls
  <2>. QED
    BY <1>1, <1>3, <1>5, <2>1 DEF Worked
<1>8. ASSUME NEW d \in Clients, Active(d), d # c
      PROVE  Undone(d)' = Undone(d) /\ op[d].first # f /\ op[d].first \in Slots
  <2>1. Held(d)' = Held(d) /\ s \notin Held(d)
    BY <1>0, <1>4, <1>8, WorkerCalls, HeldSlot
  <2>2. Undone(d)' = Undone(d)
    BY <1>1, <1>5, <2>1 DEF Undone
  <2>. QED
    BY <1>4, <1>8, <2>2, CallType DEF Owned
<1>9. s \in Undone(c) /\ Undone(c)' = Undone(c) \ {s}
  <2>1. Held(c)' = Held(c)
    BY <1>0, <1>1, <1>4, WorkerCalls
  <2>2. s \in Undone(c)
    BY <1>3, <1>4 DEF Undone
  <2>3. ASSUME NEW t \in Held(c), t # s PROVE t \in Undone(c)' <=> t \in Undone(c)
    BY <1>1, <1>5, <2>1, <2>3 DEF Undone
  <2>4. s \notin Undone(c)'
    <3>1. \A v \in Workers : wslot'[v] = s => wpc'[v] \notin {"work", "free", "signal", "decrement"}
      BY <1>1, <1>4, <1>5 DEF Working
    <3>. QED
      BY <1>1, <1>4, <3>1 DEF Undone
  <2>. QED
    BY <2>1, <2>2, <2>3, <2>4 DEF Undone
<1>10. /\ Cardinality(Undone(c)') = Cardinality(Undone(c)) - 1
       /\ outstanding[f] = Cardinality(Undone(c)) + Left(c) /\ outstanding[f] \in Nat
       /\ Cardinality(Undone(c)) \in Nat /\ Left(c) \in Nat /\ outstanding[f] > 0
  <2>1. IsFiniteSet(Undone(c)) /\ Cardinality(Undone(c)) \in Nat
    BY <1>4, HeldFinite
  <2>2. Cardinality(Undone(c) \ {s}) = Cardinality(Undone(c)) - 1
    BY <1>9, <2>1, FS_RemoveElement
  <2>3. Cardinality(Undone(c)) # 0
    BY <1>9, <2>1, FS_EmptySet
  <2>4. outstanding[f] = Cardinality(Undone(c)) + Left(c) /\ Left(c) \in Nat
    BY <1>4, CallType DEF Counted
  <2>. QED
    BY <1>9, <2>1, <2>2, <2>3, <2>4
<1>11. Owned'
  BY <1>0, <1>1, WorkerCalls DEF Owned
<1>12. Claimed'
  <2>1. ASSUME NEW t \in Slots, itemState'[t] = "Ready"
        PROVE  item'[t].owner \in Clients /\ Active(item[t].owner)' /\ t \in Held(item[t].owner)'
    BY <1>0, <1>1, <1>3, <2>1, WorkerCalls DEF Claimed
  <2>2. ASSUME NEW v \in Workers, Working(v)'
        PROVE  /\ itemState'[wslot'[v]] # "Ready"
               /\ item'[wslot'[v]].owner \in Clients /\ Active(item[wslot[v]].owner)'
               /\ wslot'[v] \in Held(item[wslot[v]].owner)'
               /\ wpc'[v] \in {"work", "free"} => itemState'[wslot'[v]] = "Busy"
               /\ wpc'[v] \in {"free", "signal"} => wslot'[v] # op'[item'[wslot'[v]].owner].first
               /\ \A x \in Workers : Working(x)' /\ x # v => wslot'[x] # wslot'[v]
    <3>1. CASE v = w
      BY <1>0, <1>1, <1>3, <1>4, <1>5, <3>1, WorkerCalls
    <3>2. CASE v # w
      <4>1. Working(v) /\ wslot[v] # s
        BY <1>4, <1>5, <2>2, <3>2
      <4>. QED
        BY <1>0, <1>1, <1>3, <1>4, <1>5, <3>2, <4>1, WorkerCalls, WorkerSlot
    <3>. QED
      BY <3>1, <3>2
  <2>. QED
    BY <1>1, <2>1, <2>2 DEF Claimed
<1>13. Counted'
  <2>1. ASSUME NEW d \in Clients, Active(d), d # c
        PROVE  /\ outstanding'[op[d].first] = Cardinality(Undone(d)') + Left(d)'
               /\ cpc[d] = "release" => outstanding'[op[d].first] = 0
    BY <1>0, <1>6, <1>8, <2>1, WorkerCalls DEF Counted
  <2>2. /\ outstanding'[f] = Cardinality(Undone(c)') + Left(c)'
        /\ cpc[c] # "release"
    <3>1. outstanding'[f] = outstanding[f] - 1 /\ Left(c)' = Left(c)
      BY <1>0, <1>1, <1>4, <1>6, WorkerCalls
    <3>2. cpc[c] # "release"
      BY <1>4, <1>10 DEF Counted
    <3>. QED
      BY <1>10, <3>1, <3>2
  <2>. QED
    BY <1>0, <1>1, <2>1, <2>2, WorkerCalls DEF Counted
<1>14. Completed'
  <2>1. ASSUME NEW v \in Workers, wpc[v] = "complete"
        PROVE  LET d == item[wslot[v]].owner
               IN  /\ d \in Clients /\ d # c /\ outstanding'[op[d].first] = 0
                   /\ ~itemCompleted[op[d].first] /\ cpc[d] # "release"
    <3>. DEFINE d == item[wslot[v]].owner
    <3>1. outstanding[op[d].first] = 0 /\ ~itemCompleted[op[d].first] /\ cpc[d] # "release"
      BY <2>1 DEF Completed
    <3>2. d \in Clients /\ Active(d)
      BY <1>3, <2>1, WorkerSlot DEF Working
    <3>3. d # c
      BY <1>10, <3>1
    <3>. QED
      BY <1>6, <1>8, <3>1, <3>2, <3>3
  <2>2. ASSUME wpc'[w] = "complete"
        PROVE  /\ outstanding'[f] = 0 /\ ~itemCompleted[f] /\ cpc[c] # "release"
    <3>1. outstanding[f] = 1
      BY <1>1, <2>2
    <3>2. ~itemCompleted[f]
      BY <1>3, <1>4, <3>1, HeldSlot DEF Completed
    <3>. QED
      BY <1>4, <1>6, <3>1, <3>2 DEF Counted
  <2>3. ASSUME NEW v \in Workers, wpc'[v] = "complete"
        PROVE  LET d == item'[wslot'[v]].owner
               IN  /\ outstanding'[op'[d].first] = 0 /\ ~itemCompleted'[op'[d].first] /\ cpc'[d] # "release"
                   /\ \A x \in Workers : wpc'[x] = "complete" /\ x # v => item'[wslot'[x]].owner # d
    <3>1. \A x \in Workers : x # w /\ wpc'[x] = "complete" => wpc[x] = "complete"
      BY <1>5
    <3>2. CASE v = w
      BY <1>1, <2>1, <2>2, <2>3, <3>1, <3>2
    <3>3. CASE v # w
      <4>1. wpc[v] = "complete"
        BY <2>3, <3>1, <3>3
      <4>2. \A x \in Workers : wpc[x] = "complete" /\ x # v => item[wslot[x]].owner # item[wslot[v]].owner
        BY <4>1 DEF Completed
      <4>. QED
        BY <1>1, <2>1, <3>1, <4>1, <4>2
    <3>. QED
      BY <3>2, <3>3
  <2>4. ASSUME NEW t \in Slots, itemCompleted'[t]
        PROVE  LET d == item'[t].owner
               IN  /\ d \in Clients /\ Active(item[t].owner)' /\ op'[d].first = t
                   /\ outstanding'[t] = 0 /\ cpc'[d] # "release"
    <3>. DEFINE d == item[t].owner
    <3>1. d \in Clients /\ Active(d) /\ op[d].first = t /\ outstanding[t] = 0 /\ cpc[d] # "release"
      BY <1>1, <1>3, <2>4 DEF Completed
    <3>2. t # f
      BY <1>10, <3>1
    <3>. QED
      BY <1>0, <1>1, <1>6, <3>1, <3>2, WorkerCalls
  <2>. QED
    BY <1>1, <2>3, <2>4 DEF Completed
<1>15. Transformed'
  BY <1>1, <1>7, BuffersStand
<1>. QED
  BY <1>0, <1>2, <1>11, <1>12, <1>13, <1>14, <1>15, WorkerCalls

\* The event is set once, and its client has not been told before.
LEMMA CompleteStep ==
    ASSUME NEW w \in Workers, WorkerComplete(w), RInv
    PROVE  RInv'
<1>. USE DEF RInv
<1>. DEFINE s == wslot[w]
            c == item[s].owner
            f == op[c].first
<1>0. Worker(w)
  BY DEF Worker
<1>2. TypeInv' /\ Quiet'
  BY <1>0, TypeStep, QuietWorker DEF Next
<1>3. wpc[w] = "complete" /\ Working(w) /\ Open /\ s \in Slots
  BY WorkingOpen DEF Working, WorkerComplete, WorkerAt, TypeInv, TypeOK
<1>4. /\ c \in Clients /\ Active(c) /\ s \in Held(c) /\ firstFragment[s] = f
      /\ f \in Slots /\ item[f].owner = c
      /\ outstanding[f] = 0 /\ cpc[c] # "release"
      /\ \A v \in Workers : wpc[v] = "complete" /\ v # w => item[wslot[v]].owner # c
  BY <1>3, WorkerSlot, HeldSlot DEF Completed
<1>1. /\ wpc'[w] = "top" /\ wslot' = wslot
      /\ \A t \in Slots : itemCompleted'[t] = IF t = f THEN TRUE ELSE itemCompleted[t]
      /\ UNCHANGED <<item, itemState, firstFragment, outstanding, data, op, cpc>>
  BY <1>4 DEF WorkerComplete, WorkerAt, TypeInv, TypeOK, clientVars
<1>5. \A v \in Workers : v # w => wpc'[v] = wpc[v] /\ (Working(v)' <=> Working(v))
  BY <1>0, WorkerCalls DEF Working
<1>6. ~Working(w)'
  BY <1>1 DEF Working
<1>7. ASSUME NEW d \in Clients, Active(d)
      PROVE  Worked(d)' = Worked(d) /\ Undone(d)' = Undone(d)
  <2>1. Held(d)' = Held(d)
    BY <1>0, <1>7, WorkerCalls
  <2>2. Worked(d)' = Worked(d)
    BY <1>1, <1>3, <1>5, <2>1 DEF Worked
  <2>3. Undone(d)' = Undone(d)
    BY <1>1, <1>3, <1>5, <2>1 DEF Undone
  <2>. QED
    BY <2>2, <2>3
<1>8. Owned'
  BY <1>0, <1>1, WorkerCalls DEF Owned
<1>9. Claimed'
  <2>1. ASSUME NEW t \in Slots, itemState'[t] = "Ready"
        PROVE  item'[t].owner \in Clients /\ Active(item[t].owner)' /\ t \in Held(item[t].owner)'
    BY <1>0, <1>1, <1>3, <2>1, WorkerCalls DEF Claimed
  <2>2. ASSUME NEW v \in Workers, Working(v)'
        PROVE  /\ itemState'[wslot'[v]] # "Ready"
               /\ item'[wslot'[v]].owner \in Clients /\ Active(item[wslot[v]].owner)'
               /\ wslot'[v] \in Held(item[wslot[v]].owner)'
               /\ wpc'[v] \in {"work", "free"} => itemState'[wslot'[v]] = "Busy"
               /\ wpc'[v] \in {"free", "signal"} => wslot'[v] # op'[item'[wslot'[v]].owner].first
               /\ \A x \in Workers : Working(x)' /\ x # v => wslot'[x] # wslot'[v]
    <3>1. v # w /\ Working(v)
      BY <1>5, <1>6, <2>2
    <3>2. \A x \in Workers : Working(x)' => Working(x)
      BY <1>5, <1>6
    <3>. QED
      BY <1>0, <1>1, <1>3, <1>5, <3>1, <3>2, WorkerCalls, WorkerSlot
  <2>. QED
    BY <1>1, <2>1, <2>2 DEF Claimed
<1>10. Counted'
  BY <1>0, <1>1, <1>7, WorkerCalls DEF Counted
<1>11. Completed'
  <2>1. ASSUME NEW v \in Workers, wpc'[v] = "complete"
        PROVE  LET d == item'[wslot'[v]].owner
               IN  /\ outstanding'[op'[d].first] = 0 /\ ~itemCompleted'[op'[d].first] /\ cpc'[d] # "release"
                   /\ \A x \in Workers : wpc'[x] = "complete" /\ x # v => item'[wslot'[x]].owner # d
    <3>. DEFINE d == item[wslot[v]].owner
    <3>1. v # w /\ wpc[v] = "complete" /\ \A x \in Workers : wpc'[x] = "complete" => wpc[x] = "complete"
      BY <1>1, <1>5, <2>1
    <3>2. d # c /\ d \in Clients /\ Active(d)
      BY <1>3, <1>4, <3>1, WorkerSlot DEF Working
    <3>3. op[d].first # f /\ op[d].first \in Slots
      BY <1>4, <3>2, CallType DEF Owned
    <3>. QED
      BY <1>1, <3>1, <3>3 DEF Completed
  <2>2. ASSUME NEW t \in Slots, itemCompleted'[t]
        PROVE  LET d == item'[t].owner
               IN  /\ d \in Clients /\ Active(item[t].owner)' /\ op'[d].first = t
                   /\ outstanding'[t] = 0 /\ cpc'[d] # "release"
    <3>1. CASE t = f
      BY <1>0, <1>1, <1>4, <3>1, WorkerCalls
    <3>2. CASE t # f
      BY <1>0, <1>1, <1>3, <2>2, <3>2, WorkerCalls DEF Completed
    <3>. QED
      BY <3>1, <3>2
  <2>. QED
    BY <1>1, <2>1, <2>2 DEF Completed
<1>12. Transformed'
  BY <1>1, <1>7, BuffersStand
<1>. QED
  BY <1>0, <1>2, <1>8, <1>9, <1>10, <1>11, <1>12, WorkerCalls

\* A fragment's units are transformed: none of them had been, and none is a
\* unit of another fragment.
LEMMA WorkStep ==
    ASSUME NEW w \in Workers, WorkerWork(w), RInv
    PROVE  RInv'
<1>. USE DEF RInv
<1>. DEFINE s == wslot[w]
            c == item[s].owner
            f == op[c].first
<1>0. Worker(w)
  BY DEF Worker
<1>2. TypeInv' /\ Quiet'
  BY <1>0, TypeStep, QuietWorker DEF Next
<1>3. wpc[w] = "work" /\ Working(w) /\ Open /\ s \in Slots
  BY WorkingOpen DEF Working, WorkerWork, WorkerAt, TypeInv, TypeOK
<1>4. /\ c \in Clients /\ Active(c) /\ s \in Held(c) /\ firstFragment[s] = f
      /\ itemState[s] = "Busy"
      /\ \A v \in Workers : Working(v) /\ v # w => wslot[v] # s
  BY <1>3, WorkerSlot
<1>1. /\ wpc'[w] = (IF s = f THEN "decrement" ELSE "free") /\ wslot' = wslot
      /\ data' = [data EXCEPT ![c] = Transform(data[c], Covered(item[s]))]
      /\ UNCHANGED <<item, itemState, firstFragment, outstanding, itemCompleted, op, cpc>>
  BY <1>4 DEF WorkerWork, WorkerAt, TypeInv, TypeOK, clientVars, ringVars
<1>5. \A v \in Workers : v # w => wpc'[v] = wpc[v] /\ (Working(v)' <=> Working(v))
  BY <1>0, WorkerCalls DEF Working
<1>6. Working(w)'
  BY <1>1 DEF Working
<1>7. ASSUME NEW d \in Clients, Active(d)
      PROVE  Undone(d)' = Undone(d)
  <2>1. Held(d)' = Held(d)
    BY <1>0, <1>7, WorkerCalls
  <2>. QED
    BY <1>1, <1>3, <1>5, <2>1 DEF Undone
<1>8. ASSUME NEW d \in Clients, Active(d), d # c
      PROVE  Worked(d)' = Worked(d)
  <2>1. Held(d)' = Held(d) /\ s \notin Held(d)
    BY <1>0, <1>4, <1>8, WorkerCalls, HeldSlot
  <2>. QED
    BY <1>1, <1>5, <2>1 DEF Worked
<1>9. s \notin Worked(c) /\ Worked(c)' = Worked(c) \cup {s}
  <2>1. Held(c)' = Held(c)
    BY <1>0, <1>1, <1>4, WorkerCalls
  <2>2. s \notin Worked(c)
    BY <1>3 DEF Worked
  <2>3. ASSUME NEW t \in Held(c), t # s PROVE t \in Worked(c)' <=> t \in Worked(c)
    BY <1>1, <1>5, <2>1, <2>3 DEF Worked
  <2>4. s \in Worked(c)'
    <3>1. \A v \in Workers : wslot'[v] = s => wpc'[v] # "work"
      BY <1>1, <1>4, <1>5 DEF Working
    <3>. QED
      BY <1>1, <1>4, <2>1, <3>1 DEF Worked
  <2>. QED
    BY <2>1, <2>2, <2>3, <2>4 DEF Worked
<1>11. Owned'
  BY <1>0, <1>1, WorkerCalls DEF Owned
<1>12. Claimed'
  <2>1. ASSUME NEW t \in Slots, itemState'[t] = "Ready"
        PROVE  item'[t].owner \in Clients /\ Active(item[t].owner)' /\ t \in Held(item[t].owner)'
    BY <1>0, <1>1, <1>3, <2>1, WorkerCalls DEF Claimed
  <2>2. ASSUME NEW v \in Workers, Working(v)'
        PROVE  /\ itemState'[wslot'[v]] # "Ready"
               /\ item'[wslot'[v]].owner \in Clients /\ Active(item[wslot[v]].owner)'
               /\ wslot'[v] \in Held(item[wslot[v]].owner)'
               /\ wpc'[v] \in {"work", "free"} => itemState'[wslot'[v]] = "Busy"
               /\ wpc'[v] \in {"free", "signal"} => wslot'[v] # op'[item'[wslot'[v]].owner].first
               /\ \A x \in Workers : Working(x)' /\ x # v => wslot'[x] # wslot'[v]
    <3>1. CASE v = w
      BY <1>0, <1>1, <1>3, <1>4, <1>5, <3>1, WorkerCalls
    <3>2. CASE v # w
      <4>1. Working(v) /\ wslot[v] # s
        BY <1>4, <1>5, <2>2, <3>2
      <4>. QED
        BY <1>0, <1>1, <1>3, <1>4, <1>5, <3>2, <4>1, WorkerCalls, WorkerSlot
    <3>. QED
      BY <3>1, <3>2
  <2>. QED
    BY <1>1, <2>1, <2>2 DEF Claimed
<1>13. Counted'
  BY <1>0, <1>1, <1>7, WorkerCalls DEF Counted
<1>14. Completed'
  BY <1>0, <1>1, <1>5, WorkerCalls DEF Completed
<1>15. Transformed'
  <2>1. /\ \A d \in Clients : d # c => data'[d] = data[d]
        /\ \A u \in Units : data'[c][u] = IF u \in Covered(item[s]) THEN data[c][u] + 1 ELSE data[c][u]
    BY <1>1, <1>4 DEF TypeInv, TypeOK, Transform
  <2>2. ASSUME NEW u \in Units
        PROVE  data'[c][u] = IF \E t \in Worked(c)' : u \in Covered(item[t]) THEN 1 ELSE 0
    <3>1. data[c][u] = IF \E t \in Worked(c) : u \in Covered(item[t]) THEN 1 ELSE 0
      BY <1>4, <2>2 DEF Transformed
    <3>2. CASE u \in Covered(item[s])
      <4>1. ASSUME NEW t \in Worked(c) PROVE u \notin Covered(item[t])
        <5>1. t \in Held(c) /\ t # s
          BY <1>9 DEF Worked
        <5>2. Covered(item[t]) \cap Covered(item[s]) = {}
          BY <1>4, <5>1 DEF Tiled
        <5>. QED
          BY <3>2, <5>2
      <4>. QED
        BY <1>9, <2>1, <3>1, <3>2, <4>1
    <3>3. CASE u \notin Covered(item[s])
      BY <1>9, <2>1, <3>1, <3>3
    <3>. QED
      BY <3>2, <3>3
  <2>3. ASSUME NEW d \in Clients, Active(d), NEW u \in Units
        PROVE  data'[d][u] = IF \E t \in Worked(d)' : u \in Covered(item[t]) THEN 1 ELSE 0
    <3>1. CASE d = c
      BY <1>1, <2>2, <3>1
    <3>2. CASE d # c
      BY <1>8, <2>1, <2>3, <3>2 DEF Transformed
    <3>. QED
      BY <3>1, <3>2
  <2>4. ASSUME NEW d \in Clients
        PROVE  /\ cpc[d] \in Early \cup {"idle"} => data'[d] = Untouched
               /\ cpc[d] \in {"signal", "return"} =>
                      \A u \in Units : data'[d][u] = IF u <= op[d].units THEN 1 ELSE 0
    <3>1. CASE d = c
      BY <1>4, <3>1 DEF Active, Early
    <3>2. CASE d # c
      BY <2>1, <3>2 DEF Transformed
    <3>. QED
      BY <3>1, <3>2
  <2>5. Untouched' = Untouched /\ Units' = Units
    BY DEF Untouched, Units
  <2>. QED
    BY <1>0, <1>1, <2>3, <2>4, <2>5, WorkerCalls DEF Transformed, Covered
<1>. QED
  BY <1>0, <1>2, <1>11, <1>12, <1>13, <1>14, <1>15, WorkerCalls

\* Every step of a worker preserves the invariant.
LEMMA WorkerStep ==
    ASSUME NEW w \in Workers, Worker(w), RInv
    PROVE  RInv'
BY WorkerOutside, ClaimStep, FreeStep, DecrementStep, CompleteStep, WorkStep DEF Worker

-----------------------------------------------------------------------------
(* The steps of the clients *)

\* What no step of a client disturbs, or has been shown above.
LEMMA ClientCalls ==
    ASSUME NEW c \in Clients, ClientStep(c), RInv
    PROVE  /\ TypeInv' /\ Quiet' /\ Locals' /\ Placed' /\ Ahead' /\ Shared'
           /\ Open' <=> Open
           /\ wpc' = wpc /\ wslot' = wslot /\ \A w \in Workers : Working(w)' <=> Working(w)
           /\ \A w \in Workers : WorkerKept(w)
<1>1. TypeInv' /\ Quiet' /\ Locals' /\ Placed' /\ Ahead' /\ Shared'
  BY TypeStep, QuietClient, LocalsClient, PlacedClient, AheadClient, SharedClient DEF Next, ClientStep, RInv
<1>2. UNCHANGED <<poolVars, wpc, wslot>>
  BY ClientAlone DEF RInv
<1>. QED
  BY <1>1, <1>2 DEF Open, poolVars, Working, WorkerKept

\* The steps of a client outside the slots.
LEMMA ClientOutside ==
    ASSUME NEW c \in Clients, ClientStep(c), RInv, UNCHANGED ringVars, CallKept(c),
           cpc'[c] \in Early \cup {"idle"} => data'[c] = Untouched,
           cpc'[c] \in {"signal", "return"} =>
               \A u \in Units : data'[c][u] = IF u <= op'[c].units THEN 1 ELSE 0
    PROVE  RInv'
<1>. USE DEF RInv
<1>1. \A d \in Clients : CallKept(d)
  BY OthersStand DEF CallKept
<1>2. /\ Owned' /\ Claimed' /\ Counted' /\ Completed' /\ Tiled'
      /\ \A d \in Clients : Active(d)' => \A u \in Units :
             data'[d][u] = IF \E s \in Worked(d)' : u \in Covered(item'[s]) THEN 1 ELSE 0
  BY <1>1, ClientCalls, ClientAlone, RingStands DEF poolVars
<1>3. ASSUME NEW d \in Clients
      PROVE  /\ cpc'[d] \in Early \cup {"idle"} => data'[d] = Untouched
             /\ cpc'[d] \in {"signal", "return"} =>
                    \A u \in Units : data'[d][u] = IF u <= op'[d].units THEN 1 ELSE 0
  BY OthersStand DEF Transformed
<1>4. Untouched' = Untouched /\ Units' = Units
  BY DEF Untouched, Units
<1>5. Transformed'
  BY <1>2, <1>3, <1>4 DEF Transformed
<1>. QED
  BY <1>2, <1>5, ClientCalls

\* The steps of a client that leave the slots as they are.
LEMMA ClientOutsideSteps ==
    ASSUME NEW c \in Clients, ClientStep(c), RInv,
           \/ CurrentThread(c) \/ UsePool(c) \/ EnqueueLock(c) \/ FirstTaken(c)
           \/ WaitCompleted(c, "waitFirst", "testFirst")
           \/ NextSlot(c) \/ SlotTaken(c) \/ WaitCompleted(c, "waitSlot", "testSlot")
           \/ Publish(c) \/ EnqueueUnlock(c) \/ Signal(c) \/ Return(c)
           \/ \E n \in Sizes : Call(c, n)
    PROVE  RInv'
<1>1. /\ cpc \in [Clients -> {"idle", "dispatch", "lock", "testFirst", "waitFirst", "next",
                              "testSlot", "waitSlot", "publish", "await", "release",
                              "signal", "return"}]
      /\ op \in [Clients -> Operation]
      /\ data \in [Clients -> [Units -> Nat]]
      /\ op[c].units \in Nat
      /\ cpc[c] \in Early \cup {"idle"} => data[c] = Untouched
      /\ cpc[c] \in {"signal", "return"} =>
             \A u \in Units : data[c][u] = IF u <= op[c].units THEN 1 ELSE 0
  BY CallType DEF RInv, TypeInv, TypeOK, Transformed
<1>2. SUFFICES ASSUME TRUE
      PROVE  /\ UNCHANGED ringVars /\ CallKept(c)
             /\ cpc'[c] \in Early \cup {"idle"} => data'[c] = Untouched
             /\ cpc'[c] \in {"signal", "return"} =>
                    \A u \in Units : data'[c][u] = IF u <= op'[c].units THEN 1 ELSE 0
  BY ClientOutside
<1>. USE <1>1 DEF CallKept, Active, Left, Taking, Early, ClientAt
<1>3. CASE CurrentThread(c)
  <2>1. \A u \in Units : u \in Nat /\ u >= 1 /\ Untouched[u] = 0
    BY PoolAssumption DEF Units, Untouched
  <2>2. \A u \in Units : data'[c][u] = IF u <= op'[c].units THEN 1 ELSE 0
    BY <1>3, <2>1 DEF CurrentThread, Transform
  <2>. QED
    BY <1>3, <2>2 DEF CurrentThread
<1>4. CASE UsePool(c) \/ FirstTaken(c)
  BY <1>4 DEF UsePool, FirstTaken
<1>5. CASE WaitCompleted(c, "waitFirst", "testFirst") \/ SlotTaken(c)
  BY <1>5 DEF WaitCompleted, SlotTaken
<1>6. CASE WaitCompleted(c, "waitSlot", "testSlot")
  BY <1>6 DEF WaitCompleted
<1>7. CASE Publish(c) \/ EnqueueUnlock(c)
  BY <1>7 DEF Publish, EnqueueUnlock
<1>8. CASE EnqueueLock(c)
  BY <1>8 DEF EnqueueLock
<1>9. CASE NextSlot(c)
  BY <1>9, CallType DEF NextSlot, Operation, RInv
<1>10. CASE Leave(c, "signal") \/ Leave(c, "return")
  BY <1>10 DEF Leave
<1>11. ASSUME NEW n \in Sizes, Call(c, n)
       PROVE  /\ UNCHANGED ringVars /\ CallKept(c)
              /\ cpc'[c] \in Early \cup {"idle"} => data'[c] = Untouched
              /\ cpc'[c] \in {"signal", "return"} =>
                     \A u \in Units : data'[c][u] = IF u <= op'[c].units THEN 1 ELSE 0
  BY <1>11 DEF Call
<1>. QED
  BY <1>3, <1>4, <1>5, <1>6, <1>7, <1>8, <1>9, <1>10, <1>11 DEF Signal, Return

\* Nothing in the ring of the other calls changes.
LEMMA OtherCalls ==
    ASSUME NEW c \in Clients, ClientStep(c), RInv, NEW d \in Clients, d # c, Active(d),
           \A s \in Held(d) : itemState'[s] = itemState[s]
    PROVE  /\ Active(d)' /\ op'[d] = op[d] /\ cpc'[d] = cpc[d] /\ data'[d] = data[d]
           /\ Total(d)' = Total(d) /\ Left(d)' = Left(d) /\ Held(d)' = Held(d)
           /\ Undone(d)' = Undone(d) /\ Worked(d)' = Worked(d)
<1>1. /\ Active(d)' /\ op'[d] = op[d] /\ cpc'[d] = cpc[d] /\ data'[d] = data[d]
      /\ Total(d)' = Total(d) /\ Left(d)' = Left(d) /\ Held(d)' = Held(d)
  BY OthersStand
<1>2. wpc' = wpc /\ wslot' = wslot
  BY ClientCalls
<1>3. Undone(d)' = Undone(d)
  BY <1>1, <1>2 DEF Undone
<1>4. Worked(d)' = Worked(d)
  BY <1>1, <1>2 DEF Worked
<1>. QED
  BY <1>1, <1>3, <1>4

\* A client whose call is in the ring finds the pool open.
LEMMA InsideOpen == ASSUME RInv, NEW c \in Clients, cpc[c] \notin Outside PROVE Open
BY DEF RInv, Quiet

\* A call begins with no slot and with the count of all its fragments.
LEMMA FirstFreeStep ==
    ASSUME NEW c \in Clients, FirstFree(c), RInv
    PROVE  RInv'
<1>. USE DEF RInv
<1>. DEFINE f == op[c].first
<1>0. ClientStep(c)
  BY DEF ClientStep, DoWork
<1>1. /\ cpc[c] = "testFirst" /\ cpc'[c] = "next" /\ itemState[f] = "Free"
      /\ op[c].first \in Slots
      /\ \A t \in Slots : outstanding'[t] = IF t = f THEN op[c].fragments ELSE outstanding[t]
      /\ UNCHANGED <<itemState, item, firstFragment, itemCompleted, data, op>>
  BY CallType DEF FirstFree, ClientAt, TypeInv, TypeOK
<1>2. Open /\ ~Active(c) /\ Active(c)'
  BY <1>1, InsideOpen DEF Outside, Active
<1>3. /\ op[c].start = 0 /\ op[c].fragments = Total(c)
      /\ Left(c)' = op[c].fragments /\ Total(c)' = Total(c) /\ op[c].fragments \in Nat
      /\ data[c] = Untouched
  BY <1>1, CallType, SplitShared DEF Locals, LocalsOf, Early, Left, Taking, Total, Transformed
<1>4. Held(c)' = {} /\ Undone(c)' = {} /\ Worked(c)' = {}
  <2>1. ASSUME NEW s \in Held(c)' PROVE FALSE
    <3>1. op[c].first \in Ring /\ queueSize' = queueSize
      BY <1>0, <1>1, ClientAlone DEF Placed, PlacedOf, Enqueuing, poolVars
    <3>2. s \in Ring /\ Dist(op[c].first, s) < Total(c) - Total(c)
      BY <1>1, <1>3, <2>1, <3>1 DEF Held, Ring, Dist
    <3>. QED
      BY <3>1, <3>2, CallType, DistNext
  <2>. QED
    BY <2>1 DEF Undone, Worked
<1>5. ASSUME NEW d \in Clients, d # c, Active(d)
      PROVE  /\ Active(d)' /\ cpc'[d] = cpc[d]
             /\ Total(d)' = Total(d) /\ Left(d)' = Left(d) /\ Held(d)' = Held(d)
             /\ Undone(d)' = Undone(d) /\ Worked(d)' = Worked(d)
             /\ op[d].first # f /\ op[d].first \in Slots
  <2>1. Left(d) < Total(d)
    <3>1. cpc[d] \notin Enqueuing
      BY <1>1, <1>5 DEF Placed, PlacedOf, Enqueuing
    <3>2. Left(d) = 0 /\ op[d].units > 1
      BY <1>5, <3>1 DEF Active, Enqueuing, Left, Taking, Locals, LocalsOf, Resting
    <3>. QED
      BY <3>2, CallType
  <2>2. itemState[op[d].first] # "Free"
    BY <1>5, <2>1 DEF Owned
  <2>. QED
    BY <1>0, <1>1, <1>5, <2>2, OtherCalls, CallType
<1>6. \A d \in Clients : d # c => (Active(d)' <=> Active(d)) /\ cpc'[d] = cpc[d]
  BY <1>0, OthersStand
<1>7. Owned'
  <2>1. ASSUME NEW d \in Clients, Active(d)'
        PROVE  /\ \A s \in Held(d)' : item'[s].owner = d /\ firstFragment'[s] = op'[d].first
               /\ Left(d)' < Total(d)' => itemState'[op'[d].first] # "Free"
               /\ \A e \in Clients : Active(e)' /\ e # d => op'[e].first # op'[d].first
    <3>1. CASE d = c
      BY <1>1, <1>3, <1>4, <1>5, <1>6, <3>1
    <3>2. CASE d # c
      BY <1>1, <1>5, <1>6, <2>1, <3>2 DEF Owned
    <3>. QED
      BY <3>1, <3>2
  <2>. QED
    BY <2>1 DEF Owned
<1>8. Claimed'
  <2>1. ASSUME NEW d \in Clients, Active(d) PROVE d # c
    BY <1>2, <2>1
  <2>2. ASSUME NEW t \in Slots, itemState'[t] = "Ready"
        PROVE  item'[t].owner \in Clients /\ Active(item[t].owner)' /\ t \in Held(item[t].owner)'
    BY <1>1, <1>2, <1>5, <2>1, <2>2 DEF Claimed
  <2>3. ASSUME NEW v \in Workers, Working(v)'
        PROVE  /\ itemState'[wslot'[v]] # "Ready"
               /\ item'[wslot'[v]].owner \in Clients /\ Active(item[wslot[v]].owner)'
               /\ wslot'[v] \in Held(item[wslot[v]].owner)'
               /\ wpc'[v] \in {"work", "free"} => itemState'[wslot'[v]] = "Busy"
               /\ wpc'[v] \in {"free", "signal"} => wslot'[v] # op'[item'[wslot'[v]].owner].first
               /\ \A x \in Workers : Working(x)' /\ x # v => wslot'[x] # wslot'[v]
    <3>1. Working(v) /\ wpc' = wpc /\ wslot' = wslot /\ \A x \in Workers : Working(x)' <=> Working(x)
      BY <1>0, <2>3, ClientCalls
    <3>. QED
      BY <1>1, <1>2, <1>5, <2>1, <3>1, WorkerSlot
  <2>. QED
    BY <1>0, <1>1, <2>2, <2>3, ClientCalls DEF Claimed
<1>9. Counted'
  <2>1. Cardinality({}) = 0
    BY FS_EmptySet
  <2>2. ASSUME NEW d \in Clients, Active(d)'
        PROVE  /\ outstanding'[op'[d].first] = Cardinality(Undone(d)') + Left(d)'
               /\ cpc'[d] = "release" => outstanding'[op'[d].first] = 0
    <3>1. CASE d = c
      BY <1>1, <1>3, <1>4, <2>1, <3>1
    <3>2. CASE d # c
      BY <1>1, <1>5, <1>6, <2>2, <3>2 DEF Counted
    <3>. QED
      BY <3>1, <3>2
  <2>. QED
    BY <2>2 DEF Counted
<1>10. Completed'
  <2>1. ASSUME NEW v \in Workers, wpc'[v] = "complete"
        PROVE  LET d == item'[wslot'[v]].owner
               IN  /\ outstanding'[op'[d].first] = 0 /\ ~itemCompleted'[op'[d].first] /\ cpc'[d] # "release"
                   /\ \A x \in Workers : wpc'[x] = "complete" /\ x # v => item'[wslot'[x]].owner # d
    <3>. DEFINE d == item[wslot[v]].owner
    <3>1. wpc' = wpc /\ wslot' = wslot /\ Working(v)
      BY <1>0, <2>1, ClientCalls DEF Working
    <3>2. d \in Clients /\ Active(d) /\ d # c
      BY <1>2, <3>1, WorkerSlot
    <3>3. op[d].first # f /\ op[d].first \in Slots
      BY <1>5, <3>2
    <3>. QED
      BY <1>1, <1>6, <2>1, <3>1, <3>2, <3>3 DEF Completed
  <2>2. ASSUME NEW t \in Slots, itemCompleted'[t]
        PROVE  LET d == item'[t].owner
               IN  /\ d \in Clients /\ Active(item[t].owner)' /\ op'[d].first = t
                   /\ outstanding'[t] = 0 /\ cpc'[d] # "release"
    <3>. DEFINE d == item[t].owner
    <3>1. d \in Clients /\ Active(d) /\ op[d].first = t /\ outstanding[t] = 0 /\ cpc[d] # "release" /\ d # c
      BY <1>1, <1>2, <2>2 DEF Completed
    <3>. QED
      BY <1>1, <1>5, <1>6, <3>1
  <2>. QED
    BY <1>1, <2>1, <2>2 DEF Completed
<1>11. Tiled'
  <2>1. ASSUME NEW d \in Clients, Active(d)'
        PROVE  /\ \A s \in Held(d)' : \A u \in Covered(item'[s]) : u \in 1 .. op'[d].start
               /\ \A u \in 1 .. op'[d].start : \E s \in Held(d)' : u \in Covered(item'[s])
               /\ \A s, t \in Held(d)' : s # t => Covered(item'[s]) \cap Covered(item'[t]) = {}
    <3>1. CASE d = c
      BY <1>1, <1>3, <1>4, <3>1
    <3>2. CASE d # c
      BY <1>1, <1>5, <1>6, <2>1, <3>2 DEF Tiled
    <3>. QED
      BY <3>1, <3>2
  <2>. QED
    BY <2>1 DEF Tiled, Covered
<1>12. Transformed'
  <2>1. ASSUME NEW d \in Clients, Active(d)', NEW u \in Units
        PROVE  data'[d][u] = IF \E s \in Worked(d)' : u \in Covered(item'[s]) THEN 1 ELSE 0
    <3>1. CASE d = c
      BY <1>1, <1>3, <1>4, <3>1 DEF Untouched
    <3>2. CASE d # c
      BY <1>1, <1>5, <1>6, <2>1, <3>2 DEF Transformed
    <3>. QED
      BY <3>1, <3>2
  <2>2. ASSUME NEW d \in Clients
        PROVE  /\ cpc'[d] \in Early \cup {"idle"} => data'[d] = Untouched
               /\ cpc'[d] \in {"signal", "return"} =>
                      \A u \in Units : data'[d][u] = IF u <= op'[d].units THEN 1 ELSE 0
    BY <1>1, <1>3, <1>6 DEF Transformed
  <2>3. Untouched' = Untouched /\ Units' = Units
    BY DEF Untouched, Units
  <2>. QED
    BY <2>1, <2>2, <2>3 DEF Transformed, Covered
<1>. QED
  BY <1>0, <1>7, <1>8, <1>9, <1>10, <1>11, <1>12, ClientCalls

\* A slot is filled: it was nobody's, although other calls are in progress.
LEMMA FillStep ==
    ASSUME NEW c \in Clients, Fill(c), RInv
    PROVE  RInv' /\ \A v \in Workers : Working(v) => item'[wslot[v]] = item[wslot[v]]
<1>. USE DEF RInv
<1>. DEFINE s == cslot[c]
            o == op[c]
            g == [owner |-> c, start |-> o.start, count |-> o.perFragment]
<1>0. ClientStep(c)
  BY DEF ClientStep, DoWork
<1>1. /\ cpc[c] = "testSlot" /\ cpc'[c] = "publish" /\ itemState[s] = "Free" /\ s \in Slots
      /\ \A t \in Slots : /\ itemState'[t] = IF t = s THEN "Ready" ELSE itemState[t]
                          /\ item'[t] = IF t = s THEN g ELSE item[t]
                          /\ firstFragment'[t] = IF t = s THEN o.first ELSE firstFragment[t]
      /\ UNCHANGED <<outstanding, itemCompleted, data, cslot>>
  BY DEF Fill, ClientAt, TypeInv, TypeOK
<1>2. /\ op'[c].units = o.units /\ op'[c].first = o.first /\ op'[c].fragments = o.fragments
      /\ op'[c].start = o.start + o.perFragment
  BY DEF Fill, TypeInv, TypeOK, Operation
<1>3. Open /\ Active(c) /\ Active(c)'
  BY <1>1, InsideOpen DEF Outside, Active
<1>4. /\ Left(c) = o.fragments + 1 /\ Left(c)' = Left(c) - 1 /\ Total(c)' = Total(c)
      /\ Left(c) \in Nat /\ Total(c) \in Nat /\ Left(c) <= Total(c) /\ queueSize' = queueSize
      /\ o.start \in Nat /\ o.perFragment \in Nat
  BY <1>0, <1>1, <1>2, <1>3, CallType, ClientAlone DEF Left, Taking, Total, Locals, LocalsOf, poolVars
<1>5. s \in Ring /\ o.first \in Ring /\ Dist(o.first, s) = Total(c) - Left(c)
  BY <1>1 DEF Placed, PlacedOf, Taking, Enqueuing
<1>6. s \notin Held(c) /\ Held(c)' = Held(c) \cup {s}
  <2>1. s \notin Held(c)
    BY <1>4, <1>5 DEF Held
  <2>2. Held(c)' = {t \in Ring : Dist(o.first, t) < Total(c) - (Left(c) - 1)}
    BY <1>2, <1>4 DEF Held, Ring, Dist
  <2>3. ASSUME NEW t \in Ring
        PROVE  Dist(o.first, t) < Total(c) - (Left(c) - 1) <=> Dist(o.first, t) < Total(c) - Left(c) \/ t = s
    BY <1>4, <1>5, DistNext, DistOne
  <2>. QED
    BY <1>5, <2>1, <2>2, <2>3 DEF Held
<1>7. wpc' = wpc /\ wslot' = wslot /\ \A v \in Workers : Working(v)' <=> Working(v)
  BY <1>0, ClientCalls
<1>8. \A d \in Clients : d # c => (Active(d)' <=> Active(d)) /\ cpc'[d] = cpc[d] /\ op'[d] = op[d] /\ data'[d] = data[d]
  BY <1>0, OthersStand
<1>9. ASSUME NEW d \in Clients, d # c, Active(d) PROVE s \notin Held(d) /\ op[d].first # s
  <2>1. cpc[d] \in Resting
    BY <1>1, <1>9 DEF Placed, PlacedOf, Enqueuing, Active, Resting
  <2>2. op[d].first \in Ring /\ Left(d) = 0 /\ Total(d) \in Nat /\ Total(d) > 0
    BY <2>1, CallType DEF Placed, PlacedOf, Left, Taking, Resting, Locals, LocalsOf
  <2>3. itemState[op[d].first] # "Free"
    BY <1>9, <2>2 DEF Owned
  <2>4. Dist(op[d].first, s) >= Total(d)
    BY <1>1, <2>1, <2>3 DEF Ahead, Clear, Taking
  <2>. QED
    BY <1>1, <1>5, <2>2, <2>3, <2>4, DistNext DEF Held
<1>10. ASSUME NEW v \in Workers, Working(v) PROVE wslot[v] # s
  BY <1>3, <1>6, <1>9, <1>10, WorkerSlot
<1>11. ASSUME NEW d \in Clients, d # c, Active(d)
       PROVE  /\ Active(d)' /\ Total(d)' = Total(d) /\ Left(d)' = Left(d) /\ Held(d)' = Held(d)
              /\ Undone(d)' = Undone(d) /\ Worked(d)' = Worked(d)
              /\ \A t \in Held(d) : item'[t] = item[t] /\ firstFragment'[t] = firstFragment[t]
  <2>1. \A t \in Held(d) : t \in Slots /\ t # s
    BY <1>9, <1>11, HeldSlot
  <2>. QED
    BY <1>0, <1>1, <1>11, <2>1, OtherCalls
<1>12. \A t \in Held(c) : /\ t \in Slots /\ t # s /\ item'[t] = item[t] /\ firstFragment'[t] = firstFragment[t]
                          /\ itemState'[t] = itemState[t]
  BY <1>1, <1>3, <1>6, HeldSlot
<1>13. s \notin Undone(c) /\ Undone(c)' = Undone(c) \cup {s}
  BY <1>1, <1>6, <1>7, <1>12 DEF Undone
<1>14. Worked(c)' = Worked(c)
  BY <1>1, <1>6, <1>7, <1>12 DEF Worked
<1>15. Owned'
  <2>1. /\ \A t \in Held(c)' : item'[t].owner = c /\ firstFragment'[t] = op'[c].first
        /\ itemState'[op'[c].first] # "Free"
        /\ \A e \in Clients : Active(e)' /\ e # c => op'[e].first # op'[c].first
    <3>1. \A t \in Held(c)' : item'[t].owner = c /\ firstFragment'[t] = op'[c].first
      BY <1>1, <1>2, <1>3, <1>6, <1>12, HeldSlot
    <3>2. \A e \in Clients : Active(e)' /\ e # c => op'[e].first # op'[c].first
      BY <1>2, <1>3, <1>8 DEF Owned
    <3>3. itemState'[o.first] # "Free"
      <4>1. CASE o.first = s
        BY <1>1, <4>1
      <4>2. CASE o.first # s
        <5>1. Dist(o.first, s) # 0
          BY <1>5, <4>2, DistNext
        <5>2. Left(c) < Total(c)
          BY <1>4, <1>5, <5>1
        <5>. QED
          BY <1>1, <1>3, <4>2, <5>2, CallType DEF Owned
      <4>. QED
        BY <4>1, <4>2
    <3>. QED
      BY <1>2, <3>1, <3>2, <3>3
  <2>2. ASSUME NEW d \in Clients, Active(d)', d # c
        PROVE  /\ \A t \in Held(d)' : item'[t].owner = d /\ firstFragment'[t] = op'[d].first
               /\ Left(d)' < Total(d)' => itemState'[op'[d].first] # "Free"
               /\ \A e \in Clients : Active(e)' /\ e # d => op'[e].first # op'[d].first
    <3>1. Active(d) /\ op'[d] = op[d]
      BY <1>8, <2>2
    <3>2. \A t \in Held(d)' : item'[t].owner = d /\ firstFragment'[t] = op'[d].first
      BY <1>11, <2>2, <3>1 DEF Owned
    <3>3. Left(d)' < Total(d)' => itemState'[op'[d].first] # "Free"
      BY <1>1, <1>9, <1>11, <2>2, <3>1, CallType DEF Owned
    <3>4. \A e \in Clients : Active(e)' /\ e # d => op'[e].first # op'[d].first
      BY <1>2, <1>3, <1>8, <2>2, <3>1 DEF Owned
    <3>. QED
      BY <3>2, <3>3, <3>4
  <2>. QED
    BY <2>1, <2>2 DEF Owned
<1>16. Claimed'
  <2>2. ASSUME NEW t \in Slots, itemState'[t] = "Ready"
        PROVE  item'[t].owner \in Clients /\ Active(item[t].owner)' /\ t \in Held(item[t].owner)'
    <3>1. CASE t = s
      <4>1. item'[s].owner = c
        BY <1>1
      <4>. QED
        BY <1>3, <1>6, <3>1, <4>1
    <3>2. CASE t # s
      <4>. DEFINE d == item[t].owner
      <4>1. item'[t] = item[t] /\ d \in Clients /\ Active(d) /\ t \in Held(d)
        BY <1>1, <1>3, <2>2, <3>2 DEF Claimed
      <4>. QED
        BY <1>3, <1>6, <1>11, <4>1
    <3>. QED
      BY <3>1, <3>2
  <2>3. ASSUME NEW v \in Workers, Working(v)'
        PROVE  /\ itemState'[wslot'[v]] # "Ready"
               /\ item'[wslot'[v]].owner \in Clients /\ Active(item[wslot[v]].owner)'
               /\ wslot'[v] \in Held(item[wslot[v]].owner)'
               /\ wpc'[v] \in {"work", "free"} => itemState'[wslot'[v]] = "Busy"
               /\ wpc'[v] \in {"free", "signal"} => wslot'[v] # op'[item'[wslot'[v]].owner].first
               /\ \A x \in Workers : Working(x)' /\ x # v => wslot'[x] # wslot'[v]
    <3>. DEFINE t == wslot[v]
                d == item[t].owner
    <3>1. Working(v)
      BY <1>7, <2>3
    <3>2. /\ d \in Clients /\ Active(d) /\ t \in Held(d) /\ t \in Slots /\ t # s
          /\ itemState[t] # "Ready"
          /\ wpc[v] \in {"work", "free"} => itemState[t] = "Busy"
          /\ wpc[v] \in {"free", "signal"} => t # op[d].first
          /\ \A x \in Workers : Working(x) /\ x # v => wslot[x] # t
      BY <1>3, <1>10, <3>1, WorkerSlot, HeldSlot
    <3>3. item'[t] = item[t] /\ itemState'[t] = itemState[t] /\ op'[d].first = op[d].first
      BY <1>1, <1>2, <1>8, <3>2
    <3>4. Active(d)' /\ t \in Held(d)'
      BY <1>3, <1>6, <1>7, <1>11, <3>2, <3>3
    <3>. QED
      BY <1>7, <3>2, <3>3, <3>4
  <2>. QED
    BY <2>2, <2>3 DEF Claimed
<1>17. Counted'
  <2>1. Cardinality(Undone(c)') = Cardinality(Undone(c)) + 1 /\ Cardinality(Undone(c)) \in Nat
    BY <1>13, HeldFinite, FS_AddElement
  <2>2. outstanding[o.first] = Cardinality(Undone(c)) + Left(c)
    BY <1>3 DEF Counted
  <2>3. outstanding'[op'[c].first] = Cardinality(Undone(c)') + Left(c)'
    BY <1>1, <1>2, <1>4, <2>1, <2>2
  <2>4. ASSUME NEW d \in Clients, Active(d)', d # c
        PROVE  /\ outstanding'[op'[d].first] = Cardinality(Undone(d)') + Left(d)'
               /\ cpc'[d] = "release" => outstanding'[op'[d].first] = 0
    BY <1>1, <1>8, <1>11, <2>4 DEF Counted
  <2>. QED
    BY <1>1, <2>3, <2>4 DEF Counted
<1>18. Completed'
  <2>1. ASSUME NEW v \in Workers, wpc'[v] = "complete"
        PROVE  LET d == item'[wslot'[v]].owner
               IN  /\ outstanding'[op'[d].first] = 0 /\ ~itemCompleted'[op'[d].first] /\ cpc'[d] # "release"
                   /\ \A x \in Workers : wpc'[x] = "complete" /\ x # v => item'[wslot'[x]].owner # d
    <3>. DEFINE d == item[wslot[v]].owner
    <3>1. \A x \in Workers : wpc'[x] = "complete" => /\ wpc[x] = "complete" /\ wslot'[x] = wslot[x]
                                                     /\ item'[wslot[x]] = item[wslot[x]]
      <4>1. ASSUME NEW x \in Workers, wpc'[x] = "complete" PROVE Working(x) /\ wpc[x] = "complete" /\ wslot[x] \in Slots
        BY <1>7, <4>1 DEF Working, TypeInv, TypeOK
      <4>. QED
        BY <1>1, <1>7, <1>10, <4>1
    <3>2. op'[d].first = op[d].first /\ cpc'[d] # "release"
      <4>1. d \in Clients /\ Working(v)
        BY <1>3, <2>1, <3>1, WorkerSlot DEF Working
      <4>. QED
        BY <1>1, <1>2, <1>8, <2>1, <3>1, <4>1 DEF Completed
    <3>. QED
      BY <1>1, <2>1, <3>1, <3>2 DEF Completed
  <2>2. ASSUME NEW t \in Slots, itemCompleted'[t]
        PROVE  LET d == item'[t].owner
               IN  /\ d \in Clients /\ Active(item[t].owner)' /\ op'[d].first = t
                   /\ outstanding'[t] = 0 /\ cpc'[d] # "release"
    <3>. DEFINE d == item[t].owner
    <3>1. d \in Clients /\ Active(d) /\ op[d].first = t /\ outstanding[t] = 0 /\ cpc[d] # "release"
      BY <1>1, <1>3, <2>2 DEF Completed
    <3>2. d # c
      <4>1. ASSUME d = c PROVE FALSE
        <5>1. outstanding[o.first] = Cardinality(Undone(c)) + Left(c) /\ Cardinality(Undone(c)) \in Nat
          BY <1>3, HeldFinite DEF Counted
        <5>2. Left(c) > 0
          BY <1>4, CallType
        <5>. QED
          BY <1>4, <3>1, <4>1, <5>1, <5>2
      <4>. QED
        BY <4>1
    <3>3. t # s
      BY <1>9, <3>1, <3>2
    <3>4. item'[t] = item[t]
      BY <1>1, <3>3
    <3>5. Active(d)' /\ op'[d] = op[d] /\ cpc'[d] = cpc[d]
      BY <1>8, <1>11, <3>1, <3>2, <3>4
    <3>. QED
      BY <1>1, <3>1, <3>4, <3>5
  <2>. QED
    BY <1>1, <2>1, <2>2 DEF Completed
<1>19. Tiled'
  <2>0. Covered(g) = o.start + 1 .. o.start + o.perFragment
    BY DEF Covered
  <2>1. /\ \A t \in Held(c)' : \A u \in Covered(item'[t]) : u \in 1 .. op'[c].start
        /\ \A u \in 1 .. op'[c].start : \E t \in Held(c)' : u \in Covered(item'[t])
        /\ \A t, x \in Held(c)' : t # x => Covered(item'[t]) \cap Covered(item'[x]) = {}
    <3>1. /\ \A t \in Held(c) : \A u \in Covered(item[t]) : u \in 1 .. o.start
          /\ \A u \in 1 .. o.start : \E t \in Held(c) : u \in Covered(item[t])
          /\ \A t, x \in Held(c) : t # x => Covered(item[t]) \cap Covered(item[x]) = {}
      BY <1>3 DEF Tiled
    <3>2. item'[s] = g /\ \A t \in Held(c) : item'[t] = item[t]
      BY <1>1, <1>12
    <3>3. \A u : u \in Covered(g) <=> u \in Int /\ u > o.start /\ u <= o.start + o.perFragment
      BY <1>4, <2>0
    <3>4. \A t \in Held(c)' : \A u \in Covered(item'[t]) : u \in 1 .. op'[c].start
      BY <1>2, <1>4, <1>6, <3>1, <3>2, <3>3
    <3>5. ASSUME NEW u \in 1 .. op'[c].start PROVE \E t \in Held(c)' : u \in Covered(item'[t])
      <4>1. CASE u <= o.start
        BY <1>4, <1>6, <3>1, <3>2, <4>1
      <4>2. CASE u > o.start
        <5>1. u \in Covered(item'[s])
          BY <1>2, <1>4, <3>2, <3>3, <4>2
        <5>. QED
          BY <1>6, <5>1
      <4>. QED
        BY <1>4, <4>1, <4>2
    <3>6. ASSUME NEW t \in Held(c) PROVE Covered(item[t]) \cap Covered(g) = {}
      BY <1>4, <3>1, <3>3
    <3>7. \A t, x \in Held(c)' : t # x => Covered(item'[t]) \cap Covered(item'[x]) = {}
      BY <1>6, <3>1, <3>2, <3>6
    <3>. QED
      BY <3>4, <3>5, <3>7
  <2>2. ASSUME NEW d \in Clients, Active(d)', d # c
        PROVE  /\ \A t \in Held(d)' : \A u \in Covered(item'[t]) : u \in 1 .. op'[d].start
               /\ \A u \in 1 .. op'[d].start : \E t \in Held(d)' : u \in Covered(item'[t])
               /\ \A t, x \in Held(d)' : t # x => Covered(item'[t]) \cap Covered(item'[x]) = {}
    <3>1. Active(d) /\ op'[d] = op[d] /\ Held(d)' = Held(d) /\ \A t \in Held(d) : item'[t] = item[t]
      BY <1>8, <1>11, <2>2
    <3>. QED
      BY <3>1 DEF Tiled
  <2>. QED
    BY <2>1, <2>2 DEF Tiled, Covered
<1>20. Transformed'
  <2>1. ASSUME NEW d \in Clients, Active(d)', NEW u \in Units
        PROVE  data'[d][u] = IF \E t \in Worked(d)' : u \in Covered(item'[t]) THEN 1 ELSE 0
    <3>1. Active(d) /\ Worked(d)' = Worked(d) /\ data'[d] = data[d] /\ \A t \in Worked(d) : item'[t] = item[t]
      BY <1>1, <1>3, <1>8, <1>11, <1>12, <1>14, <2>1 DEF Worked
    <3>. QED
      BY <3>1 DEF Transformed
  <2>2. ASSUME NEW d \in Clients
        PROVE  /\ cpc'[d] \in Early \cup {"idle"} => data'[d] = Untouched
               /\ cpc'[d] \in {"signal", "return"} =>
                      \A u \in Units : data'[d][u] = IF u <= op'[d].units THEN 1 ELSE 0
    <3>1. CASE d = c
      BY <1>1, <3>1 DEF Early
    <3>2. CASE d # c
      BY <1>8, <3>2 DEF Transformed
    <3>. QED
      BY <3>1, <3>2
  <2>3. Untouched' = Untouched /\ Units' = Units
    BY DEF Untouched, Units
  <2>. QED
    BY <2>1, <2>2, <2>3 DEF Transformed, Covered
<1>21. \A v \in Workers : Working(v) => item'[wslot[v]] = item[wslot[v]]
  BY <1>1, <1>10 DEF TypeInv, TypeOK
<1>. QED
  BY <1>0, <1>15, <1>16, <1>17, <1>18, <1>19, <1>20, <1>21, ClientCalls

\* The event was set by the worker of the last fragment of this very call.
LEMMA AwaitStep ==
    ASSUME NEW c \in Clients, Await(c), RInv
    PROVE  RInv'
<1>. USE DEF RInv
<1>. DEFINE f == op[c].first
<1>0. ClientStep(c)
  BY DEF ClientStep, DoWork
<1>1. /\ cpc[c] = "await" /\ cpc'[c] = "release" /\ itemCompleted[f] /\ f \in Slots
      /\ \A t \in Slots : itemCompleted'[t] = IF t = f THEN FALSE ELSE itemCompleted[t]
      /\ UNCHANGED <<itemState, item, firstFragment, outstanding, data, op>>
  BY CallType DEF Await, ClientAt, TypeInv, TypeOK
<1>2. Open /\ Active(c) /\ Active(c)'
  BY <1>1, InsideOpen DEF Outside, Active
<1>3. item[f].owner = c /\ outstanding[f] = 0
  <2>1. /\ item[f].owner \in Clients /\ Active(item[f].owner)
        /\ op[item[f].owner].first = f /\ outstanding[f] = 0
    BY <1>1, <1>2 DEF Completed
  <2>. QED
    BY <1>2, <2>1 DEF Owned
<1>4. wpc' = wpc /\ wslot' = wslot /\ \A v \in Workers : Working(v)' <=> Working(v)
  BY <1>0, ClientCalls
<1>5. \A d \in Clients : d # c => (Active(d)' <=> Active(d)) /\ cpc'[d] = cpc[d]
  BY <1>0, OthersStand
<1>6. ASSUME NEW d \in Clients, Active(d)
      PROVE  /\ Active(d)' /\ Total(d)' = Total(d) /\ Left(d)' = Left(d) /\ Held(d)' = Held(d)
             /\ Undone(d)' = Undone(d) /\ Worked(d)' = Worked(d)
  <2>1. CASE d = c
    <3>1. Left(c)' = Left(c) /\ Total(c)' = Total(c) /\ Held(c)' = Held(c)
      BY <1>0, <1>1, ClientAlone, HeldKept DEF Left, Taking, poolVars
    <3>2. Undone(c)' = Undone(c)
      BY <1>1, <1>4, <3>1 DEF Undone
    <3>3. Worked(c)' = Worked(c)
      BY <1>1, <1>4, <3>1 DEF Worked
    <3>. QED
      BY <1>2, <2>1, <3>1, <3>2, <3>3
  <2>2. CASE d # c
    BY <1>0, <1>1, <1>6, <2>2, OtherCalls
  <2>. QED
    BY <2>1, <2>2
<1>7. \A d \in Clients : Active(d)' => Active(d)
  BY <1>2, <1>5
<1>8. Owned'
  BY <1>1, <1>6, <1>7 DEF Owned
<1>9. Claimed'
  <2>1. ASSUME NEW t \in Slots, itemState'[t] = "Ready"
        PROVE  item'[t].owner \in Clients /\ Active(item[t].owner)' /\ t \in Held(item[t].owner)'
    BY <1>1, <1>2, <1>6, <2>1 DEF Claimed
  <2>2. ASSUME NEW v \in Workers, Working(v)'
        PROVE  /\ itemState'[wslot'[v]] # "Ready"
               /\ item'[wslot'[v]].owner \in Clients /\ Active(item[wslot[v]].owner)'
               /\ wslot'[v] \in Held(item[wslot[v]].owner)'
               /\ wpc'[v] \in {"work", "free"} => itemState'[wslot'[v]] = "Busy"
               /\ wpc'[v] \in {"free", "signal"} => wslot'[v] # op'[item'[wslot'[v]].owner].first
               /\ \A x \in Workers : Working(x)' /\ x # v => wslot'[x] # wslot'[v]
    BY <1>1, <1>2, <1>4, <1>6, <2>2, WorkerSlot
  <2>. QED
    BY <1>1, <1>4, <2>1, <2>2 DEF Claimed
<1>10. Counted'
  <2>1. ASSUME NEW d \in Clients, Active(d)'
        PROVE  /\ outstanding'[op'[d].first] = Cardinality(Undone(d)') + Left(d)'
               /\ cpc'[d] = "release" => outstanding'[op'[d].first] = 0
    BY <1>1, <1>3, <1>5, <1>6, <1>7, <2>1 DEF Counted
  <2>. QED
    BY <2>1 DEF Counted
<1>11. Completed'
  <2>1. ASSUME NEW v \in Workers, wpc'[v] = "complete"
        PROVE  LET d == item'[wslot'[v]].owner
               IN  /\ outstanding'[op'[d].first] = 0 /\ ~itemCompleted'[op'[d].first] /\ cpc'[d] # "release"
                   /\ \A x \in Workers : wpc'[x] = "complete" /\ x # v => item'[wslot'[x]].owner # d
    <3>. DEFINE d == item[wslot[v]].owner
    <3>1. d # c /\ ~itemCompleted[op[d].first]
      BY <1>1, <1>4, <2>1 DEF Completed
    <3>2. d \in Clients
      BY <1>2, <1>4, <2>1, WorkerSlot DEF Working
    <3>3. op[d].first \in Slots
      BY <3>2, CallType
    <3>. QED
      BY <1>1, <1>4, <1>5, <2>1, <3>1, <3>2, <3>3 DEF Completed
  <2>2. ASSUME NEW t \in Slots, itemCompleted'[t]
        PROVE  LET d == item'[t].owner
               IN  /\ d \in Clients /\ Active(item[t].owner)' /\ op'[d].first = t
                   /\ outstanding'[t] = 0 /\ cpc'[d] # "release"
    <3>. DEFINE d == item[t].owner
    <3>1. t # f /\ itemCompleted[t]
      BY <1>1, <2>2
    <3>2. d \in Clients /\ Active(d) /\ op[d].first = t /\ outstanding[t] = 0 /\ cpc[d] # "release"
      BY <1>2, <3>1 DEF Completed
    <3>. QED
      BY <1>1, <1>5, <1>6, <3>1, <3>2
  <2>. QED
    BY <1>1, <2>1, <2>2 DEF Completed
<1>12. Tiled'
  BY <1>1, <1>6, <1>7 DEF Tiled, Covered
<1>13. Transformed'
  <2>1. ASSUME NEW d \in Clients, Active(d)', NEW u \in Units
        PROVE  data'[d][u] = IF \E t \in Worked(d)' : u \in Covered(item'[t]) THEN 1 ELSE 0
    BY <1>1, <1>6, <1>7, <2>1 DEF Transformed
  <2>2. ASSUME NEW d \in Clients
        PROVE  /\ cpc'[d] \in Early \cup {"idle"} => data'[d] = Untouched
               /\ cpc'[d] \in {"signal", "return"} =>
                      \A u \in Units : data'[d][u] = IF u <= op'[d].units THEN 1 ELSE 0
    <3>1. CASE d = c
      BY <1>1, <3>1 DEF Early
    <3>2. CASE d # c
      BY <1>1, <1>5, <3>2 DEF Transformed
    <3>. QED
      BY <3>1, <3>2
  <2>3. Untouched' = Untouched /\ Units' = Units
    BY DEF Untouched, Units
  <2>. QED
    BY <2>1, <2>2, <2>3 DEF Transformed, Covered
<1>. QED
  BY <1>0, <1>8, <1>9, <1>10, <1>11, <1>12, <1>13, ClientCalls

\* Why a call that is released has no fragment left, and all its units are done.
LEMMA Released ==
    ASSUME RInv, NEW c \in Clients, cpc[c] = "release"
    PROVE  /\ Undone(c) = {} /\ Worked(c) = Held(c) /\ op[c].start = op[c].units
           /\ \A u \in Units : data[c][u] = IF u <= op[c].units THEN 1 ELSE 0
           /\ Open /\ Active(c)
           /\ \A w \in Workers : Working(w) => item[wslot[w]].owner # c
<1>. USE DEF RInv
<1>1. Open /\ Active(c)
  BY InsideOpen DEF Outside, Active
<1>2. Left(c) = 0 /\ Undone(c) = {}
  <2>1. Cardinality(Undone(c)) + Left(c) = 0
    BY <1>1 DEF Counted
  <2>2. Cardinality(Undone(c)) \in Nat /\ Left(c) \in Nat /\ IsFiniteSet(Undone(c))
    BY HeldFinite, CallType
  <2>. QED
    BY <2>1, <2>2, FS_EmptySet
<1>3. Worked(c) = Held(c)
  BY <1>2 DEF Undone, Worked
<1>4. op[c].start = op[c].units /\ op[c].start \in Nat
  <2>1. op[c].remainder = 0
    BY <1>1, <1>2, CallType DEF Shared, SharedOf
  <2>2. 0 * op[c].perFragment = 0
    BY CallType
  <2>. QED
    BY <1>1, <1>2, <2>1, <2>2, CallType DEF Shared, SharedOf
<1>5. ASSUME NEW u \in Units PROVE data[c][u] = IF u <= op[c].units THEN 1 ELSE 0
  <2>1. u \in Int /\ u >= 1
    BY PoolAssumption DEF Units
  <2>2. (\E s \in Held(c) : u \in Covered(item[s])) <=> u \in 1 .. op[c].units
    BY <1>1, <1>4 DEF Tiled
  <2>. QED
    BY <1>1, <1>3, <1>4, <2>1, <2>2 DEF Transformed
<1>6. ASSUME NEW w \in Workers, Working(w), item[wslot[w]].owner = c PROVE FALSE
  <2>1. wslot[w] \in Held(c)
    BY <1>1, <1>6, WorkerSlot
  <2>2. wpc[w] # "complete"
    BY <1>6 DEF Completed
  <2>. QED
    BY <1>2, <1>6, <2>1, <2>2 DEF Undone, Working
<1>. QED
  BY <1>1, <1>2, <1>3, <1>4, <1>5, <1>6

\* The first slot is given back when no worker has a slot of the call any more.
LEMMA ReleaseStep ==
    ASSUME NEW c \in Clients, Release(c), RInv
    PROVE  RInv'
<1>. USE DEF RInv
<1>. DEFINE f == op[c].first
<1>0. ClientStep(c)
  BY DEF ClientStep, DoWork
<1>1. /\ cpc[c] = "release" /\ cpc'[c] = "signal" /\ f \in Slots
      /\ \A t \in Slots : itemState'[t] = IF t = f THEN "Free" ELSE itemState[t]
      /\ UNCHANGED <<item, firstFragment, outstanding, itemCompleted, data, op>>
  BY CallType DEF Release, ClientAt, TypeInv, TypeOK
<1>2. /\ Open /\ Active(c) /\ ~Active(c)'
      /\ \A u \in Units : data[c][u] = IF u <= op[c].units THEN 1 ELSE 0
      /\ Undone(c) = {}
      /\ \A w \in Workers : Working(w) => item[wslot[w]].owner # c
  BY <1>1, Released DEF Active
<1>3. f \in Held(c) /\ item[f].owner = c
  <2>1. f \in Ring /\ Left(c) = 0 /\ Total(c) \in Nat /\ Total(c) > 0
    BY <1>1, CallType DEF Placed, PlacedOf, Resting, Enqueuing, Left, Taking, Locals, LocalsOf
  <2>2. f \in Held(c)
    BY <2>1, DistNext DEF Held
  <2>. QED
    BY <1>2, <2>2, HeldSlot
<1>4. wpc' = wpc /\ wslot' = wslot /\ \A v \in Workers : Working(v)' <=> Working(v)
  BY <1>0, ClientCalls
<1>5. \A d \in Clients : d # c => (Active(d)' <=> Active(d)) /\ cpc'[d] = cpc[d]
  BY <1>0, OthersStand
<1>6. ASSUME NEW d \in Clients, Active(d), d # c
      PROVE  /\ Active(d)' /\ Total(d)' = Total(d) /\ Left(d)' = Left(d) /\ Held(d)' = Held(d)
             /\ Undone(d)' = Undone(d) /\ Worked(d)' = Worked(d)
             /\ op[d].first # f /\ op[d].first \in Slots
  <2>1. \A t \in Held(d) : t \in Slots /\ t # f
    BY <1>3, <1>6, HeldSlot
  <2>2. op[d].first # f /\ op[d].first \in Slots
    BY <1>2, <1>6, CallType DEF Owned
  <2>. QED
    BY <1>0, <1>1, <1>6, <2>1, <2>2, OtherCalls
<1>7. \A d \in Clients : Active(d)' => Active(d) /\ d # c
  BY <1>2, <1>5
<1>8. Owned'
  BY <1>1, <1>6, <1>7 DEF Owned
<1>9. Claimed'
  <2>1. ASSUME NEW t \in Slots, itemState'[t] = "Ready"
        PROVE  item'[t].owner \in Clients /\ Active(item[t].owner)' /\ t \in Held(item[t].owner)'
    <3>. DEFINE d == item[t].owner
    <3>1. itemState[t] = "Ready"
      BY <1>1, <2>1
    <3>2. d \in Clients /\ Active(d) /\ t \in Held(d)
      BY <1>2, <3>1 DEF Claimed
    <3>3. d # c
      BY <1>2, <3>1, <3>2 DEF Undone
    <3>. QED
      BY <1>1, <1>6, <3>2, <3>3
  <2>2. ASSUME NEW v \in Workers, Working(v)'
        PROVE  /\ itemState'[wslot'[v]] # "Ready"
               /\ item'[wslot'[v]].owner \in Clients /\ Active(item[wslot[v]].owner)'
               /\ wslot'[v] \in Held(item[wslot[v]].owner)'
               /\ wpc'[v] \in {"work", "free"} => itemState'[wslot'[v]] = "Busy"
               /\ wpc'[v] \in {"free", "signal"} => wslot'[v] # op'[item'[wslot'[v]].owner].first
               /\ \A x \in Workers : Working(x)' /\ x # v => wslot'[x] # wslot'[v]
    <3>. DEFINE t == wslot[v]
                d == item[t].owner
    <3>1. Working(v) /\ d # c
      BY <1>2, <1>4, <2>2
    <3>2. d \in Clients /\ Active(d) /\ t \in Held(d) /\ t \in Slots /\ t # f
      BY <1>2, <1>3, <3>1, WorkerSlot, HeldSlot
    <3>3. itemState'[t] = itemState[t] /\ Active(d)' /\ t \in Held(d)'
      BY <1>1, <1>4, <1>6, <3>1, <3>2
    <3>. QED
      BY <1>1, <1>2, <1>4, <3>1, <3>2, <3>3, WorkerSlot
  <2>. QED
    BY <1>1, <1>4, <2>1, <2>2 DEF Claimed
<1>10. Counted'
  BY <1>1, <1>5, <1>6, <1>7 DEF Counted
<1>11. Completed'
  <2>1. ASSUME NEW v \in Workers, wpc'[v] = "complete"
        PROVE  LET d == item'[wslot'[v]].owner
               IN  /\ outstanding'[op'[d].first] = 0 /\ ~itemCompleted'[op'[d].first] /\ cpc'[d] # "release"
                   /\ \A x \in Workers : wpc'[x] = "complete" /\ x # v => item'[wslot'[x]].owner # d
    <3>. DEFINE d == item[wslot[v]].owner
    <3>1. d \in Clients /\ d # c
      BY <1>2, <1>4, <2>1, WorkerSlot DEF Working
    <3>. QED
      BY <1>1, <1>4, <1>5, <2>1, <3>1 DEF Completed
  <2>2. ASSUME NEW t \in Slots, itemCompleted'[t]
        PROVE  LET d == item'[t].owner
               IN  /\ d \in Clients /\ Active(item[t].owner)' /\ op'[d].first = t
                   /\ outstanding'[t] = 0 /\ cpc'[d] # "release"
    <3>. DEFINE d == item[t].owner
    <3>1. d \in Clients /\ Active(d) /\ op[d].first = t /\ outstanding[t] = 0 /\ cpc[d] # "release"
      BY <1>1, <1>2, <2>2 DEF Completed
    <3>. QED
      BY <1>1, <1>5, <1>6, <3>1
  <2>. QED
    BY <1>1, <2>1, <2>2 DEF Completed
<1>12. Tiled'
  BY <1>1, <1>6, <1>7 DEF Tiled, Covered
<1>13. Transformed'
  <2>1. ASSUME NEW d \in Clients, Active(d)', NEW u \in Units
        PROVE  data'[d][u] = IF \E t \in Worked(d)' : u \in Covered(item'[t]) THEN 1 ELSE 0
    BY <1>1, <1>6, <1>7, <2>1 DEF Transformed
  <2>2. ASSUME NEW d \in Clients
        PROVE  /\ cpc'[d] \in Early \cup {"idle"} => data'[d] = Untouched
               /\ cpc'[d] \in {"signal", "return"} =>
                      \A u \in Units : data'[d][u] = IF u <= op'[d].units THEN 1 ELSE 0
    <3>1. CASE d = c
      BY <1>1, <1>2, <3>1 DEF Early
    <3>2. CASE d # c
      BY <1>1, <1>5, <3>2 DEF Transformed
    <3>. QED
      BY <3>1, <3>2
  <2>3. Untouched' = Untouched /\ Units' = Units
    BY DEF Untouched, Units
  <2>. QED
    BY <2>1, <2>2, <2>3 DEF Transformed, Covered
<1>. QED
  BY <1>0, <1>8, <1>9, <1>10, <1>11, <1>12, <1>13, ClientCalls

-----------------------------------------------------------------------------
(* Start and Stop, and the invariant *)

\* The invariant holds before the first Start.
LEMMA RInit == Init => RInv
<1>. SUFFICES ASSUME Init PROVE RInv
  OBVIOUS
<1>1. TypeInv
  BY TypeInit
<1>2. Quiet
  BY DEF Init, Quiet, Open, Outside, Following
<1>3. ~Open
  BY DEF Init, Open
<1>4. \A c \in Clients : cpc[c] = "idle" /\ op[c] = Split(0) /\ op[c].units = 0
  BY <1>1, SplitShared DEF Init
<1>5. Locals
  BY <1>1, <1>4, PoolAssumption DEF Locals, LocalsOf, Active, Resting, Early
<1>6. Placed
  BY <1>1, <1>4, QueueSizeType DEF Init, Placed, PlacedOf, Enqueuing, Resting, Taking, Ring
<1>7. Ahead
  BY <1>4 DEF Ahead, Resting
<1>8. Transformed
  BY <1>4 DEF Init, Transformed, Active, Early
<1>. QED
  BY <1>1, <1>2, <1>3, <1>5, <1>6, <1>7, <1>8, ClosedRing DEF RInv

\* The position that Start resets both ends to is in the ring.
LEMMA RingStart == TypeInv => 0 \in Ring
BY QueueSizeType DEF Ring

\* Start empties the ring, which no call is using.
LEMMA StartStep == ASSUME Start, RInv PROVE RInv'
<1>. USE DEF RInv
<1>1. TypeInv'
  BY TypeStep DEF Next
<1>2. /\ ~Open /\ Open' /\ cpc' = cpc /\ op' = op /\ data' = data
      /\ \A c \in Clients : cpc[c] \in Outside
      /\ \A w \in Workers : wpc'[w] = "top"
      /\ \A s \in Slots : itemState'[s] = "Free" /\ ~itemCompleted'[s]
  BY DEF Start, Open, Quiet, clientVars
<1>3. \A c \in Clients : ~Active(c)' /\ ~Active(c)
  BY <1>2 DEF Outside, Active
<1>4. \A w \in Workers : ~Working(w)' /\ ~Following(w)'
  BY <1>2 DEF Working, Following
<1>5. Quiet'
  BY <1>2, <1>4 DEF Start, Quiet, Open
<1>6. Locals'
  BY <1>2, <1>3 DEF Locals, LocalsOf, Resting, Outside
<1>7. Placed'
  <2>1. enqueuePos' \in Ring'
    <3>1. (0 \in Ring)'
      BY <1>1, RingStart, PTL
    <3>2. enqueuePos' = 0
      BY DEF Start
    <3>. QED
      BY <3>1, <3>2
  <2>2. \A c \in Clients : PlacedOf(c)'
    BY <1>2 DEF PlacedOf, Enqueuing, Resting, Taking, Outside
  <2>. QED
    BY <2>1, <2>2 DEF Placed
<1>8. Ahead'
  BY <1>2 DEF Ahead, Resting, Outside
<1>9. Owned' /\ Counted' /\ Tiled' /\ Shared'
  BY <1>3 DEF Owned, Counted, Tiled, Shared
<1>10. Claimed'
  BY <1>2, <1>4 DEF Claimed
<1>11. Completed'
  BY <1>2 DEF Completed
<1>12. Transformed'
  BY <1>2, <1>3 DEF Transformed, Untouched, Units
<1>. QED
  BY <1>1, <1>5, <1>6, <1>7, <1>8, <1>9, <1>10, <1>11, <1>12

\* Stop finds no call in progress, so no worker has a slot.
LEMMA StopStep == ASSUME BeginStop \/ EndStop, RInv PROVE RInv'
<1>. USE DEF RInv
<1>1. TypeInv'
  BY TypeStep DEF Next
<1>2. /\ UNCHANGED <<clientVars, queueSize, enqueuePos, enqueueMutex, data, wpc>> /\ ~Open'
  BY DEF BeginStop, EndStop, Open, workerVars
<1>3. Quiet'
  <2>1. CASE BeginStop
    <3>1. \A c \in Clients : cpc[c] = "idle"
      BY <2>1 DEF BeginStop
    <3>2. Open
      BY <2>1 DEF BeginStop, Open
    <3>3. ASSUME NEW w \in Workers PROVE ~Following(w)
      <4>1. Following(w) => Working(w)
        BY DEF Following, Working
      <4>. QED
        BY <3>1, <3>2, <4>1, WorkerSlot DEF Active
    <3>. QED
      BY <1>2, <2>1, <3>1, <3>3 DEF BeginStop, Quiet, Outside, Following, clientVars
  <2>2. CASE EndStop
    BY <1>2, <2>2 DEF EndStop, Quiet, Outside, Following, clientVars
  <2>. QED
    BY <2>1, <2>2
<1>4. Locals' /\ Placed' /\ Ahead' /\ Shared'
  BY <1>2, CallsStand
<1>5. Owned' /\ Claimed' /\ Counted' /\ Completed' /\ Tiled'
  BY <1>2, <1>3, ClosedRing, PTL
<1>6. Transformed'
  <2>1. \A c \in Clients : ~Active(c)'
    BY <1>2, <1>3 DEF Quiet, Outside, Active
  <2>. QED
    BY <1>2, <2>1 DEF Transformed, clientVars, Untouched, Units
<1>. QED
  BY <1>1, <1>3, <1>4, <1>5, <1>6

\* Nothing happens.
LEMMA RStutter == ASSUME UNCHANGED vars, RInv PROVE RInv'
<1>. USE DEF RInv, vars, ringVars, poolVars, workerVars, clientVars
<1>1. TypeInv' /\ Quiet'
  BY TypeStep DEF Quiet, Open, Following
<1>2. Locals' /\ Placed' /\ Ahead' /\ Shared'
  BY CallsStand
<1>3. (\A c \in Clients : CallKept(c)) /\ (\A w \in Workers : WorkerKept(w)) /\ (Open' <=> Open)
  BY DEF CallKept, WorkerKept, Active, Left, Working, Open
<1>4. /\ Owned' /\ Claimed' /\ Counted' /\ Completed' /\ Tiled' /\ Shared'
      /\ \A c \in Clients : Active(c)' => \A u \in Units :
             data'[c][u] = IF \E s \in Worked(c)' : u \in Covered(item'[s]) THEN 1 ELSE 0
  BY <1>3, RingStands
<1>5. Transformed'
  BY <1>4 DEF Transformed, Covered, Untouched, Units
<1>. QED
  BY <1>1, <1>2, <1>4, <1>5

\* Every step preserves the invariant.
LEMMA RStep == RInv /\ [Next]_vars => RInv'
<1>. SUFFICES ASSUME RInv, [Next]_vars PROVE RInv'
  OBVIOUS
<1>1. ASSUME NEW w \in Workers, Worker(w) PROVE RInv'
  BY <1>1, WorkerStep
<1>2. ASSUME NEW c \in Clients, DoWork(c) \/ \E n \in Sizes : Call(c, n) PROVE RInv'
  <2>1. ClientStep(c)
    BY <1>2 DEF ClientStep
  <2>. QED
    BY <1>2, <2>1, ClientOutsideSteps, FirstFreeStep, FillStep, AwaitStep, ReleaseStep DEF DoWork
<1>3. CASE Start
  BY <1>3, StartStep
<1>4. CASE BeginStop \/ EndStop
  BY <1>4, StopStep
<1>5. CASE UNCHANGED vars
  BY <1>5, RStutter
<1>. QED
  BY <1>1, <1>2, <1>3, <1>4, <1>5 DEF Next

\* The invariant holds in every behaviour of the pool.
LEMMA RAlways == Spec => []RInv
BY RInit, RStep, PTL DEF Spec

-----------------------------------------------------------------------------
(* The workers *)

\* The call that a worker has claimed a fragment of lasts, and is still the one
\* that its slot names.
Serves == \A w \in Workers : Open /\ Working(w) => serving[w] = item[wslot[w]].owner

LEMMA ServesInit == Init => Serves
BY DEF Init, Serves, Open

\* A worker records the call when it claims the slot; a slot that a worker has is
\* not refilled, and its call is not over (Released) before the worker is done.
LEMMA ServesStep == RInv /\ Serves /\ [Next]_vars => Serves'
<1>. SUFFICES ASSUME RInv, Serves, [Next]_vars, NEW w \in Workers, Open', Working(w)'
     PROVE  serving'[w] = item'[wslot'[w]].owner
  BY DEF Serves
<1>1. /\ wpc \in [Workers -> {"top", "lock", "test", "wait", "work", "free", "signal",
                              "decrement", "complete", "exited"}]
      /\ wslot \in [Workers -> Slots]
      /\ serving \in [Workers -> Clients \cup {NoThread}]
  BY DEF RInv, TypeInv, TypeOK
<1>2. ASSUME NEW v \in Workers, Worker(v) PROVE serving'[w] = item'[wslot'[w]].owner
  <2>1. item' = item /\ Open
    BY <1>2, WorkerAlone DEF RInv, Open, poolVars
  <2>2. CASE v # w
    BY <1>2, <2>1, <2>2, WorkerAlone DEF RInv, Serves, Working
  <2>3. CASE v = w /\ WorkerClaim(w)
    BY <1>1, <2>1, <2>3 DEF WorkerClaim, Serve
  <2>4. CASE v = w /\ ~WorkerClaim(w)
    <3>1. Working(w) /\ wslot' = wslot /\ serving'[w] = serving[w]
      BY <1>1, <1>2, <2>4 DEF Worker, WorkerTop, WorkerLock, WorkerNotReady, WorkerWait,
         WorkerBreak, WorkerWork, WorkerFree, WorkerSignal, WorkerDecrement, WorkerComplete,
         WorkerAt, Serve, Working
    <3>. QED
      BY <2>1, <3>1 DEF Serves
  <2>. QED
    BY <2>2, <2>3, <2>4
<1>3. ASSUME NEW c \in Clients, ClientStep(c) PROVE serving'[w] = item'[wslot'[w]].owner
  <2>1. Open /\ Working(w) /\ wslot' = wslot
    BY <1>3, ClientCalls
  <2>2. serving[w] = item[wslot[w]].owner
    BY <2>1 DEF Serves
  <2>3. CASE Fill(c)
    BY <2>1, <2>2, <2>3, FillStep DEF Fill, workerVars
  <2>4. CASE Release(c)
    <3>1. item[wslot[w]].owner # c /\ item' = item
      BY <2>1, <2>4, Released DEF Release, ClientAt
    <3>. QED
      BY <2>1, <2>2, <2>4, <3>1 DEF Release
  <2>5. CASE ~Fill(c) /\ ~Release(c)
    <3>1. item' = item /\ serving' = serving
      BY <1>3, <2>5 DEF ClientStep, DoWork, CurrentThread, UsePool, EnqueueLock, FirstFree,
         FirstTaken, WaitCompleted, NextSlot, SlotTaken, Publish, EnqueueUnlock, Await,
         Signal, Return, Leave, Call, ringVars, workerVars
    <3>. QED
      BY <2>1, <2>2, <3>1
  <2>. QED
    BY <2>3, <2>4, <2>5
<1>4. CASE Start
  BY <1>1, <1>4 DEF Start, Working
<1>5. CASE BeginStop \/ EndStop
  BY <1>5 DEF BeginStop, EndStop, Open
<1>6. CASE UNCHANGED vars
  BY <1>6 DEF vars, ringVars, poolVars, workerVars, Serves, Open, Working
<1>. QED
  BY <1>2, <1>3, <1>4, <1>5, <1>6 DEF Next, ClientStep

\* What the invariant says of a worker that follows its FirstFragment field.
LEMMA Follows == RInv /\ Serves => FollowsOwnOperation
<1>. SUFFICES ASSUME RInv, Serves, NEW w \in Workers, Following(w)
     PROVE  LET c == serving[w]
            IN  c \in Clients /\ Active(c) /\ firstFragment[wslot[w]] = op[c].first
  BY DEF FollowsOwnOperation
<1>1. Open /\ Working(w)
  BY DEF RInv, Quiet, Following, Working
<1>2. serving[w] = item[wslot[w]].owner
  BY <1>1 DEF Serves
<1>. QED
  BY <1>1, <1>2, WorkerSlot

\* What the invariant says of two workers.
LEMMA Exclusive == RInv => ExclusiveSlot
<1>. SUFFICES ASSUME RInv, ~stopPending, NEW v \in Workers, NEW w \in Workers, v # w,
                     wpc[v] \in {"work", "free"}, wpc[w] \in {"work", "free"}
     PROVE  wslot[v] # wslot[w]
  BY DEF ExclusiveSlot
<1>1. Working(v) /\ Working(w) /\ Open
  BY DEF RInv, Quiet, Open, Working
<1>. QED
  BY <1>1, WorkerSlot

\* Whenever a worker reads the FirstFragment field of its slot, which it may
\* have given back before, the operation whose fragment it claimed still lasts,
\* and the field names the first fragment of that very operation.
THEOREM FirstFragmentHolds == Spec => []FollowsOwnOperation
BY RAlways, ServesInit, ServesStep, Follows, PTL DEF Spec

\* No two workers have the same slot: a fragment is transformed by one.
THEOREM OneWorkerPerSlot == Spec => []ExclusiveSlot
BY RAlways, Exclusive, PTL

-----------------------------------------------------------------------------
(* The event that the clients wait for *)

\* Nobody waits before the first Start.
LEMMA WakeupInit == Init => NoLostWakeup
BY DEF Init, NoLostWakeup

\* Whoever frees a slot is on the way to set the event, and the client that
\* clears the event, being the holder of EnqueueMutex, is the only one to wait.
LEMMA WakeupStep == RInv /\ NoLostWakeup /\ [Next]_vars => NoLostWakeup'
<1>. SUFFICES ASSUME RInv, NoLostWakeup, [Next]_vars PROVE NoLostWakeup'
  OBVIOUS
<1>1. ASSUME UNCHANGED <<cpc, op, cslot, itemState>>, Signalled => Signalled' PROVE NoLostWakeup'
  BY <1>1 DEF NoLostWakeup
<1>2. /\ wpc \in [Workers -> {"top", "lock", "test", "wait", "work", "free", "signal",
                              "decrement", "complete", "exited"}]
      /\ cpc \in [Clients -> {"idle", "dispatch", "lock", "testFirst", "waitFirst", "next",
                              "testSlot", "waitSlot", "publish", "await", "release",
                              "signal", "return"}]
      /\ itemState \in [Slots -> {"Free", "Ready", "Busy"}]
      /\ op \in [Clients -> Operation] /\ cslot \in [Clients -> Slots]
  BY DEF RInv, TypeInv, TypeOK
<1>3. ASSUME NEW w \in Workers, Worker(w) PROVE NoLostWakeup'
  <2>1. /\ cpc' = cpc /\ op' = op /\ cslot' = cslot
        /\ \A v \in Workers : v # w => wpc'[v] = wpc[v]
    BY <1>3, WorkerAlone DEF RInv, clientVars
  <2>2. CASE WorkerSignal(w)
    BY <1>1, <2>1, <2>2 DEF WorkerSignal, Signalled, ringVars
  <2>3. CASE WorkerFree(w)
    <3>1. Signalled'
      BY <1>2, <2>3 DEF WorkerFree, WorkerAt, Signalled
    <3>. QED
      BY <3>1 DEF NoLostWakeup
  <2>4. CASE WorkerClaim(w)
    <3>1. Signalled => Signalled'
      BY <1>2, <2>1, <2>4 DEF WorkerClaim, WorkerAt, Signalled
    <3>2. \A t \in Slots : itemState'[t] = "Free" => itemState[t] = "Free"
      BY <1>2, <2>4 DEF WorkerClaim
    <3>3. ASSUME NEW c \in Clients PROVE op[c].first \in Slots /\ cslot[c] \in Slots
      BY <1>2 DEF Operation
    <3>. QED
      BY <2>1, <3>1, <3>2, <3>3 DEF NoLostWakeup
  <2>5. ASSUME ~WorkerSignal(w), ~WorkerFree(w), ~WorkerClaim(w)
        PROVE  itemState' = itemState /\ completedEvent' = completedEvent /\ wpc[w] # "signal"
    BY <1>2, <1>3, <2>5 DEF Worker, WorkerTop, WorkerLock, WorkerNotReady, WorkerWait, WorkerBreak,
         WorkerWork, WorkerDecrement, WorkerComplete, WorkerAt, ringVars
  <2>6. ASSUME ~WorkerSignal(w), ~WorkerFree(w), ~WorkerClaim(w) PROVE NoLostWakeup'
    <3>1. Signalled => Signalled'
      BY <2>1, <2>5, <2>6 DEF Signalled
    <3>. QED
      BY <1>1, <2>1, <2>5, <2>6, <3>1
  <2>. QED
    BY <2>2, <2>3, <2>4, <2>6
<1>4. ASSUME NEW c \in Clients, ClientStep(c) PROVE NoLostWakeup'
  <2>1. /\ wpc' = wpc
        /\ \A d \in Clients : d # c => cpc'[d] = cpc[d] /\ op'[d] = op[d] /\ cslot'[d] = cslot[d]
    BY <1>4, ClientAlone DEF RInv, workerVars
  <2>2. CASE Signal(c) \/ Release(c)
    <3>1. Signalled'
      BY <1>2, <2>2 DEF Signal, Release, ClientAt, Signalled
    <3>. QED
      BY <3>1 DEF NoLostWakeup
  <2>3. CASE WaitCompleted(c, "waitFirst", "testFirst") \/ WaitCompleted(c, "waitSlot", "testSlot")
    <3>1. cpc[c] \in Enqueuing /\ cpc'[c] \in {"testFirst", "testSlot"}
      BY <1>2, <2>3 DEF WaitCompleted, ClientAt, Enqueuing
    <3>2. \A d \in Clients : d # c => cpc[d] \notin Enqueuing
      BY <1>4, <3>1, OneEnqueues
    <3>. QED
      BY <2>1, <3>1, <3>2 DEF NoLostWakeup, Enqueuing
  <2>4. ASSUME cpc'[c] \in {"waitFirst", "waitSlot"}
        PROVE  /\ cpc'[c] = "waitFirst" => itemState'[op'[c].first] # "Free"
               /\ cpc'[c] = "waitSlot"  => itemState'[cslot'[c]] # "Free"
  BY <1>2, <1>4, <2>4 DEF ClientStep, DoWork, CurrentThread, UsePool, EnqueueLock, FirstFree, FirstTaken,
         WaitCompleted, NextSlot, SlotTaken, Fill, Publish, EnqueueUnlock, Await, Release, Signal,
         Return, Leave, Call, ClientAt, ringVars
  <2>5. ASSUME ~Signal(c), ~Release(c), ~WaitCompleted(c, "waitFirst", "testFirst"),
               ~WaitCompleted(c, "waitSlot", "testSlot")
        PROVE  /\ completedEvent' = completedEvent /\ cpc[c] # "signal"
               /\ \A t \in Slots : itemState'[t] = "Free" => itemState[t] = "Free"
    BY <1>2, <1>4, <2>5 DEF ClientStep, DoWork, CurrentThread, UsePool, EnqueueLock, FirstFree, FirstTaken,
         NextSlot, SlotTaken, Fill, Publish, EnqueueUnlock, Await, Signal,
         Return, Leave, Call, ClientAt, ringVars
  <2>6. ASSUME ~Signal(c), ~Release(c), ~WaitCompleted(c, "waitFirst", "testFirst"),
               ~WaitCompleted(c, "waitSlot", "testSlot")
        PROVE  NoLostWakeup'
    <3>1. Signalled => Signalled'
      BY <1>2, <2>1, <2>5, <2>6 DEF Signalled
    <3>2. ASSUME NEW d \in Clients
          PROVE  /\ cpc'[d] = "waitFirst" => itemState'[op'[d].first] # "Free" \/ Signalled'
                 /\ cpc'[d] = "waitSlot"  => itemState'[cslot'[d]] # "Free" \/ Signalled'
      <4>1. CASE d = c
        BY <2>4, <4>1
      <4>2. CASE d # c
        <5>1. op[d].first \in Slots /\ cslot[d] \in Slots
          BY <1>2 DEF Operation
        <5>. QED
          BY <2>1, <2>5, <2>6, <3>1, <4>2, <5>1 DEF NoLostWakeup
      <4>. QED
        BY <4>1, <4>2
    <3>. QED
      BY <3>2 DEF NoLostWakeup
  <2>. QED
    BY <2>2, <2>3, <2>6
<1>5. CASE Start
  BY <1>5 DEF Start, clientVars, NoLostWakeup, RInv, Quiet, Open, Outside
<1>6. CASE BeginStop \/ EndStop
  BY <1>1, <1>6 DEF BeginStop, EndStop, ringVars, clientVars, workerVars, Signalled
<1>7. CASE UNCHANGED vars
  BY <1>1, <1>7 DEF vars, ringVars, clientVars, workerVars, Signalled
<1>. QED
  BY <1>3, <1>4, <1>5, <1>6, <1>7 DEF Next, ClientStep

\* A client that waits for a slot is never left waiting for one that is free
\* with nobody to tell it.
THEOREM WakeupsArrive == Spec => []NoLostWakeup
BY RAlways, WakeupInit, WakeupStep, PTL DEF Spec

-----------------------------------------------------------------------------
(* DoWork is a parallel transformation *)

\* The abstract operators, with what they are refined by.
LEMMA AbstractCall ==
    ASSUME RInv, NEW c \in Clients, NEW n \in Sizes, Call(c, n)
    PROVE  Abstract!Call(c)
<1>1. /\ cpc[c] = "idle" /\ cpc' = [cpc EXCEPT ![c] = "dispatch"]
      /\ op' = [op EXCEPT ![c] = Split(n)] /\ data' = data
      /\ n \in 0 .. MaxUnits /\ Split(n).units = n
  BY SplitShared, PoolAssumption DEF Call, ClientAt, RInv
<1>2. cpc \in [Clients -> {"idle", "dispatch", "lock", "testFirst", "waitFirst", "next",
                              "testSlot", "waitSlot", "publish", "await", "release",
                              "signal", "return"}] /\ op \in [Clients -> Operation]
  BY DEF RInv, TypeInv, TypeOK
<1>3. /\ c \notin {d \in Clients : cpc[d] # "idle"}
      /\ {d \in Clients : cpc'[d] # "idle"} = {d \in Clients : cpc[d] # "idle"} \cup {c}
  BY <1>1, <1>2
<1>4. [d \in Clients |-> op'[d].units] = [[d \in Clients |-> op[d].units] EXCEPT ![c] = n]
  BY <1>1, <1>2
<1>. QED
  BY <1>1, <1>3, <1>4 DEF Abstract!Call

\* The units that have been given out are units of the buffer.
LEMMA StartInside ==
    ASSUME RInv, NEW c \in Clients, Active(c)
    PROVE  op[c].start <= op[c].units /\ op[c].units <= MaxUnits
<1>. DEFINE l == Left(c)
            p == op[c].perFragment
            r == op[c].remainder
<1>1. /\ l \in Nat /\ p \in Nat /\ r \in Nat /\ op[c].start \in Nat /\ op[c].units \in Nat
      /\ r > 0 => p > 0
  BY CallType DEF RInv, TypeInv, Shortenable
<1>2. op[c].units = op[c].start + (IF r = 0 THEN l * p ELSE l * (p - 1) + r)
  BY DEF RInv, Shared, SharedOf
<1>3. op[c].units <= MaxUnits
  BY PoolAssumption DEF RInv, Locals, LocalsOf
<1>. HIDE DEF l, p, r
<1>4. CASE r = 0
  <2>1. l * p \in Nat
    BY <1>1
  <2>. QED
    BY <1>1, <1>2, <1>3, <1>4, <2>1
<1>5. CASE r > 0
  <2>1. p - 1 \in Nat
    BY <1>1, <1>5
  <2>2. l * (p - 1) \in Nat
    BY <1>1, <2>1
  <2>. QED
    BY <1>1, <1>2, <1>3, <1>5, <2>2
<1>. QED
  BY <1>1, <1>4, <1>5

\* A call's buffer, while units of it that are not yet transformed are.
LEMMA AbstractProcess ==
    ASSUME RInv, NEW c \in Clients, NEW U, cpc[c] # "idle",
           \A u \in U : u \in 1 .. op[c].units /\ u \in Units /\ data[c][u] = 0,
           data' = [data EXCEPT ![c] = Transform(data[c], U)],
           [d \in Clients |-> op'[d].units] = [d \in Clients |-> op[d].units],
           {d \in Clients : cpc'[d] # "idle"} = {d \in Clients : cpc[d] # "idle"}
    PROVE  Abstract!Process(c)
<1>1. U \in SUBSET Abstract!Pending(c)
  BY DEF Abstract!Pending
<1>2. data \in [Clients -> [Units -> Nat]]
  BY DEF RInv, TypeInv, TypeOK
<1>3. Transform(data[c], U) = [u \in 1 .. MaxUnits |-> IF u \in U THEN 1 ELSE data[c][u]]
  BY <1>2 DEF Transform, Units
<1>4. data' = [data EXCEPT ![c] = [u \in 1 .. MaxUnits |-> IF u \in U THEN 1 ELSE data[c][u]]]
  BY <1>3
<1>5. c \in {d \in Clients : cpc[d] # "idle"}
  OBVIOUS
<1>. QED
  BY <1>1, <1>4, <1>5 DEF Abstract!Process

\* A call that returns has transformed all its units.
LEMMA AbstractReturn ==
    ASSUME RInv, NEW c \in Clients, Leave(c, "signal") \/ Leave(c, "return")
    PROVE  Abstract!Return(c)
<1>1. /\ cpc \in [Clients -> {"idle", "dispatch", "lock", "testFirst", "waitFirst", "next",
                              "testSlot", "waitSlot", "publish", "await", "release",
                              "signal", "return"}]
      /\ op \in [Clients -> Operation]
  BY DEF RInv, TypeInv, TypeOK
<1>2. /\ cpc[c] \in {"signal", "return"} /\ cpc' = [cpc EXCEPT ![c] = "idle"]
      /\ op' = [op EXCEPT ![c] = Split(0)] /\ Split(0).units = 0
      /\ data' = [data EXCEPT ![c] = Untouched]
  BY SplitShared DEF Leave, ClientAt, RInv
<1>3. Abstract!Pending(c) = {}
  <2>1. ASSUME NEW u \in 1 .. op[c].units PROVE data[c][u] = 1
    <3>1. op[c].units \in Nat /\ op[c].units <= MaxUnits
      BY PoolAssumption DEF RInv, Locals, LocalsOf
    <3>2. u \in Units /\ u <= op[c].units
      BY <2>1, <3>1, PoolAssumption DEF Units
    <3>. QED
      BY <1>2, <3>2 DEF RInv, Transformed
  <2>. QED
    BY <2>1 DEF Abstract!Pending
<1>4. /\ c \in {d \in Clients : cpc[d] # "idle"}
      /\ {d \in Clients : cpc'[d] # "idle"} = {d \in Clients : cpc[d] # "idle"} \ {c}
  BY <1>1, <1>2
<1>5. [d \in Clients |-> op'[d].units] = [[d \in Clients |-> op[d].units] EXCEPT ![c] = 0]
  BY <1>1, <1>2
<1>6. data' = [data EXCEPT ![c] = [u \in 1 .. MaxUnits |-> 0]]
  BY <1>2 DEF Untouched, Units
<1>. QED
  BY <1>3, <1>4, <1>5, <1>6 DEF Abstract!Return

\* No call is in progress at first.
LEMMA AbstractInit == Init => Abstract!Init
<1>. SUFFICES ASSUME Init PROVE Abstract!Init
  OBVIOUS
<1>1. {c \in Clients : cpc[c] # "idle"} = {}
  BY DEF Init
<1>2. [c \in Clients |-> op[c].units] = [c \in Clients |-> 0]
  BY TypeInit, SplitShared DEF Init
<1>3. data = [c \in Clients |-> [u \in 1 .. MaxUnits |-> 0]]
  BY DEF Init, Untouched, Units
<1>. QED
  BY <1>1, <1>2, <1>3 DEF Abstract!Init

\* Every step of the pool is a call, the transformation of some units, a return,
\* or none of the clients' business.
LEMMA AbstractStep == RInv /\ [Next]_vars => [Abstract!Next]_(Abstract!vars)
<1>. SUFFICES ASSUME RInv, [Next]_vars PROVE [Abstract!Next]_(Abstract!vars)
  OBVIOUS
<1>1. /\ cpc \in [Clients -> {"idle", "dispatch", "lock", "testFirst", "waitFirst", "next",
                              "testSlot", "waitSlot", "publish", "await", "release",
                              "signal", "return"}]
      /\ op \in [Clients -> Operation]
  BY DEF RInv, TypeInv, TypeOK
<1>2. ASSUME data' = data, \A c \in Clients : /\ cpc'[c] = "idle" <=> cpc[c] = "idle"
                                              /\ op'[c].units = op[c].units
      PROVE  UNCHANGED Abstract!vars
  <2>1. {c \in Clients : cpc'[c] # "idle"} = {c \in Clients : cpc[c] # "idle"}
    BY <1>2
  <2>2. [c \in Clients |-> op'[c].units] = [c \in Clients |-> op[c].units]
    BY <1>2
  <2>. QED
    BY <1>2, <2>1, <2>2 DEF Abstract!vars
<1>3. ASSUME NEW w \in Workers, Worker(w) PROVE [Abstract!Next]_(Abstract!vars)
  <2>1. cpc' = cpc /\ op' = op
    BY <1>3, WorkerAlone DEF RInv, clientVars
  <2>2. CASE WorkerWork(w)
    <3>. DEFINE s == wslot[w]
                c == item[s].owner
    <3>1. wpc[w] = "work" /\ Working(w) /\ Open
      BY <2>2, WorkingOpen DEF WorkerWork, WorkerAt, Working
    <3>2. c \in Clients /\ Active(c) /\ s \in Held(c)
      BY <3>1, WorkerSlot
    <3>3. ASSUME NEW u \in Covered(item[s])
          PROVE  u \in 1 .. op[c].units /\ u \in Units /\ data[c][u] = 0
      <4>1. u \in 1 .. op[c].start
        BY <3>2 DEF RInv, Tiled
      <4>2. u \in 1 .. op[c].units /\ u \in Units
        BY <3>2, <4>1, StartInside, CallType, PoolAssumption DEF Units, RInv
      <4>3. ASSUME NEW t \in Worked(c) PROVE u \notin Covered(item[t])
        <5>1. t \in Held(c) /\ t # s
          BY <3>1 DEF Worked
        <5>2. Covered(item[t]) \cap Covered(item[s]) = {}
          BY <3>2, <5>1 DEF RInv, Tiled
        <5>. QED
          BY <5>2
      <4>4. data[c][u] = 0
        BY <3>2, <4>2, <4>3 DEF RInv, Transformed
      <4>. QED
        BY <4>2, <4>4
    <3>4. data' = [data EXCEPT ![c] = Transform(data[c], Covered(item[s]))]
      BY <2>2 DEF WorkerWork
    <3>5. cpc[c] # "idle"
      BY <3>2 DEF Active
    <3>6. Abstract!Process(c)
      BY <2>1, <3>2, <3>3, <3>4, <3>5, AbstractProcess
    <3>. QED
      BY <3>2, <3>6 DEF Abstract!Next
  <2>3. CASE ~WorkerWork(w)
    <3>1. data' = data
      BY <1>3, <2>3 DEF Worker, WorkerTop, WorkerLock, WorkerClaim, WorkerNotReady, WorkerWait,
           WorkerBreak, WorkerFree, WorkerSignal, WorkerDecrement, WorkerComplete
    <3>. QED
      BY <1>2, <2>1, <3>1
  <2>. QED
    BY <2>2, <2>3
<1>4. ASSUME NEW c \in Clients, NEW n \in Sizes, Call(c, n) PROVE Abstract!Next
  BY <1>4, AbstractCall DEF Abstract!Next
<1>5. ASSUME NEW c \in Clients, DoWork(c) PROVE [Abstract!Next]_(Abstract!vars)
  <2>1. CASE CurrentThread(c)
    <3>1. /\ cpc[c] = "dispatch" /\ cpc' = [cpc EXCEPT ![c] = "return"] /\ op' = op
          /\ data' = [data EXCEPT ![c] = Transform(data[c], 1 .. op[c].units)]
      BY <2>1 DEF CurrentThread, ClientAt
    <3>2. data[c] = Untouched /\ op[c].units \in Nat /\ op[c].units <= MaxUnits
      BY <3>1, PoolAssumption DEF RInv, Transformed, Early, Locals, LocalsOf
    <3>3. \A u \in 1 .. op[c].units : u \in Units /\ data[c][u] = 0
      BY <3>2, PoolAssumption DEF Units, Untouched
    <3>4. {d \in Clients : cpc'[d] # "idle"} = {d \in Clients : cpc[d] # "idle"}
      BY <1>1, <3>1
    <3>5. Abstract!Process(c)
      BY <3>1, <3>3, <3>4, AbstractProcess
    <3>. QED
      BY <3>5 DEF Abstract!Next
  <2>2. CASE Signal(c) \/ Return(c)
    <3>1. Abstract!Return(c)
      BY <2>2, AbstractReturn DEF Signal, Return
    <3>. QED
      BY <3>1 DEF Abstract!Next
  <2>3. ASSUME ~CurrentThread(c), ~Signal(c), ~Return(c)
        PROVE  /\ data' = data /\ cpc[c] # "idle" /\ cpc'[c] # "idle" /\ op'[c].units = op[c].units
    BY <1>1, <1>5, <2>3 DEF DoWork, UsePool, EnqueueLock, FirstFree, FirstTaken,
       WaitCompleted, NextSlot, SlotTaken, Fill, Publish, EnqueueUnlock, Await, Release, ClientAt, Operation
  <2>4. \A d \in Clients : d # c => cpc'[d] = cpc[d] /\ op'[d] = op[d]
    BY <1>5, ClientAlone DEF ClientStep, RInv
  <2>. QED
    BY <1>2, <2>1, <2>2, <2>3, <2>4
<1>6. CASE Start \/ BeginStop \/ EndStop \/ UNCHANGED vars
  <2>1. cpc' = cpc /\ op' = op /\ data' = data
    BY <1>6 DEF Start, BeginStop, EndStop, vars, clientVars
  <2>. QED
    BY <1>2, <2>1
<1>. QED
  BY <1>3, <1>4, <1>5, <1>6 DEF Next

\* The pool implements ParallelTransform: however its workers and clients take
\* turns, every unit of a buffer is transformed exactly once between the call
\* and the return.
THEOREM PoolTransforms == Spec => AbstractSpec
<1>1. RInv /\ [Next]_vars => [Abstract!Next]_(Abstract!vars)
  BY AbstractStep
<1>. QED
  BY <1>1, AbstractInit, RAlways, PTL DEF Spec, AbstractSpec, Abstract!Spec
=============================================================================
