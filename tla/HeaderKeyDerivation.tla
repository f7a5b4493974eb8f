-------------------------- MODULE HeaderKeyDerivation --------------------------
(***************************************************************************)
(* Opening a volume header (ReadVolumeHeader of src/Common/Volumes.c).     *)
(*                                                                         *)
(* The header does not say which key derivation function (PRF) made its    *)
(* key, so the caller tries all of them.  When no PRF is selected and the  *)
(* thread pool has more than one thread, it has the pool derive the keys,  *)
(* at most encryptionThreadCount of them at a time, and tests each key as  *)
(* soon as it is ready; the first that opens the header aborts the others, *)
(* which the caller waits for before it frees what they use.  Otherwise it *)
(* derives the keys itself, one after the other.                           *)
(*                                                                         *)
(* The pool is abstracted to a FIFO queue with a limited number of places  *)
(* (the ring of EncryptionThreadPool) and the threads that serve it.       *)
(***************************************************************************)
EXTENDS Integers, Sequences, FiniteSets

CONSTANTS
    LastPrf,      \* LAST_PRF_ID; the PRFs are 1 .. LastPrf and Argon2 is last
    ThreadCount,  \* encryptionThreadCount
    Workers,      \* the threads of the pool
    RingSize,     \* places of the pool's ring
    Headers,      \* the headers that may be opened
    MayFail       \* whether a cipher may fail to initialise

\* A header was made with one of the PRFs, or (0) the password opens it with
\* none; it may need a newer program.
Header == [prf : 0 .. LastPrf, newer : BOOLEAN]

ASSUME HeaderAssumption ==
    /\ LastPrf \in Nat \ {0} /\ ThreadCount \in Nat /\ RingSize \in Nat \ {0}
    /\ Headers \subseteq Header /\ MayFail \in BOOLEAN

VARIABLES
    header,       \* the header being opened
    boot,         \* bBoot: Argon2 is not tried
    selected,     \* selected_pkcs5_prf, 0 if none
    keepKeys,     \* retInfo = NULL: only the header key is wanted
    enq,          \* enqPkcs5Prf
    queued,       \* queuedWorkItems
    items,        \* keyDerivationWorkItems
    caller,       \* the caller: next step, item scanned or filled, key to test
    result,       \* status of ReadVolumeHeader
    abort,        \* abortKeyDerivation
    outstanding,  \* *outstandingWorkItemCount
    keyDone,      \* keyDerivationCompletedEvent
    noneLeft,     \* noOutstandingWorkItemEvent
    ring,         \* the pool's queue: the items whose keys are to be derived
    worker        \* each thread of the pool: next step and item

inputs == <<header, boot, selected, keepKeys>>
events == <<keyDone, noneLeft>>
pool   == <<ring, worker>>
vars == <<inputs, enq, queued, items, caller, result, abort, outstanding,
          events, pool>>

Prfs == 1 .. LastPrf
Slots == 1 .. LastPrf
FreeItem == [free |-> TRUE, ready |-> FALSE, prf |-> 1, key |-> "none"]
Parallel == selected = 0 /\ ThreadCount > 1

Init ==
    /\ header \in Headers
    /\ boot \in BOOLEAN /\ selected \in 0 .. LastPrf /\ keepKeys \in BOOLEAN
    /\ enq = 1 /\ queued = 0
    /\ items = [s \in Slots |-> FreeItem]
    /\ caller = [pc |-> "loop", slot |-> 1, prf |-> 1, key |-> "none"]
    /\ result = "none"
    /\ abort = FALSE /\ outstanding = 0
    /\ keyDone = FALSE /\ noneLeft = TRUE
    /\ ring = <<>>
    /\ worker = [w \in Workers |-> [pc |-> "idle", slot |-> 1]]

-----------------------------------------------------------------------------
(* The loop over the PRFs *)

Goto(pc) == caller' = [caller EXCEPT !.pc = pc]
CallerAt(from, to) == caller.pc = from /\ Goto(to)

MorePrfs == enq <= LastPrf \/ queued > 0
Skipped == \/ selected # 0 /\ enq # selected
           \/ boot /\ enq = LastPrf
MayEnqueue == queued < ThreadCount /\ enq <= LastPrf

Skip ==
    /\ caller.pc = "loop" /\ MorePrfs /\ Skipped
    /\ enq' = enq + 1
    /\ UNCHANGED <<inputs, queued, items, caller, result, abort, outstanding,
                   events, pool>>

\* Without the pool: derive the key here.
DeriveHere ==
    /\ MorePrfs /\ ~Skipped /\ ~Parallel
    /\ caller.pc = "loop"
    /\ caller' = [caller EXCEPT !.pc = "test", !.prf = enq, !.key = "good"]
    /\ UNCHANGED <<inputs, enq, queued, items, result, abort, outstanding,
                   events, pool>>

\* Mutant of FirstFree: the next item in turn, free or not.
NextInTurn(s) == s = (queued % LastPrf) + 1

\* The first free item.  There always is one: the items that are not free are
\* for different PRFs, and not for the next one.
FirstFree(s) == items[s].free /\ \A t \in Slots : items[t].free => s <= t

\* Mutant of Enqueue: no limit on the number of items.
EnqueueAll ==
    /\ MorePrfs /\ ~Skipped /\ Parallel /\ enq <= LastPrf
    /\ caller.pc = "loop"
    /\ \E s \in Slots :
           /\ FirstFree(s)
           /\ items' = [items EXCEPT ![s] = [free |-> FALSE, ready |-> FALSE,
                                             prf |-> enq, key |-> "none"]]
           /\ caller' = [caller EXCEPT !.pc = "count", !.slot = s]
    /\ UNCHANGED <<inputs, enq, queued, result, abort, outstanding, events, pool>>

\* Prepare an item for the next PRF.
Enqueue ==
    /\ MorePrfs /\ ~Skipped /\ Parallel /\ MayEnqueue
    /\ caller.pc = "loop"
    /\ \E s \in Slots :
           /\ FirstFree(s)
           /\ items' = [items EXCEPT ![s] = [free |-> FALSE, ready |-> FALSE,
                                             prf |-> enq, key |-> "none"]]
           /\ caller' = [caller EXCEPT !.pc = "count", !.slot = s]
    /\ UNCHANGED <<inputs, enq, queued, result, abort, outstanding, events, pool>>

\* EncryptionThreadPoolBeginKeyDerivation: count the work item and clear the
\* event, and then make it ready, once the ring has a place for it.
BeginCount ==
    /\ Len(ring) + Cardinality({w \in Workers : worker[w].pc # "idle"}) < RingSize
    /\ CallerAt("count", "clear")
    /\ outstanding' = outstanding + 1
    /\ UNCHANGED <<inputs, enq, queued, items, result, abort, events, pool>>

BeginClear ==
    /\ CallerAt("clear", "push")
    /\ noneLeft' = FALSE
    /\ UNCHANGED <<inputs, enq, queued, items, result, abort, outstanding,
                   keyDone, pool>>

\* After the last PRF, wait for a key; else go on with the next PRF.
BeginPush ==
    /\ caller.pc = "push"
    /\ ring' = Append(ring, caller.slot)
    /\ queued' = queued + 1
    /\ IF enq < LastPrf
       THEN Goto("loop") /\ enq' = enq + 1
       ELSE caller' = [caller EXCEPT !.pc = "scan", !.slot = 1] /\ UNCHANGED enq
    /\ UNCHANGED <<inputs, items, result, abort, outstanding, events, worker>>

\* Mutant of Full: the PRF that found no place is not tried again.
FullSkips ==
    /\ MorePrfs /\ ~Skipped /\ Parallel /\ ~MayEnqueue
    /\ caller.pc = "loop"
    /\ caller' = [caller EXCEPT !.pc = "scan", !.slot = 1]
    /\ UNCHANGED <<inputs, enq, queued, items, result, abort, outstanding,
                   events, pool>>

\* All threads have work, or no PRF is left: wait for a key.
Full ==
    /\ MorePrfs /\ ~Skipped /\ Parallel /\ ~MayEnqueue
    /\ caller.pc = "loop"
    /\ enq' = enq - 1
    /\ caller' = [caller EXCEPT !.pc = "scan", !.slot = 1]
    /\ UNCHANGED <<inputs, queued, items, result, abort, outstanding, events, pool>>

-----------------------------------------------------------------------------
(* Waiting for a key, and testing it *)

Ready(s) == ~items[s].free /\ items[s].ready

\* The items are looked at one after the other.
ScanNext ==
    /\ caller.pc = "scan" /\ ~Ready(caller.slot)
    /\ caller' = IF caller.slot < LastPrf THEN [caller EXCEPT !.slot = @ + 1]
                 ELSE [caller EXCEPT !.pc = "wait"]
    /\ UNCHANGED <<inputs, enq, queued, items, result, abort, outstanding,
                   events, pool>>

ScanTake ==
    /\ caller.pc = "scan" /\ Ready(caller.slot)
    /\ caller' = [caller EXCEPT !.pc = "test", !.prf = items[caller.slot].prf,
                                !.key = items[caller.slot].key]
    /\ items' = [items EXCEPT ![caller.slot].free = TRUE]
    /\ queued' = queued - 1
    /\ UNCHANGED <<inputs, enq, result, abort, outstanding, events, pool>>

ScanWait ==
    /\ caller.pc = "wait" /\ keyDone
    /\ keyDone' = FALSE
    /\ caller' = [caller EXCEPT !.pc = "scan", !.slot = 1]
    /\ UNCHANGED <<inputs, enq, queued, items, result, abort, outstanding,
                   noneLeft, pool>>

\* The key is tried with all ciphers; it opens the header if it was derived,
\* to the end, with the PRF of the header.
Opens == caller.prf = header.prf /\ caller.key = "good"

TestFails ==
    /\ ~Opens
    /\ CallerAt("test", "loop")
    /\ enq' = enq + 1
    /\ UNCHANGED <<inputs, queued, items, result, abort, outstanding, events, pool>>

\* The other derivations are told to stop, but not when only the header key
\* is wanted.
TestOpens ==
    /\ Opens /\ ~header.newer
    /\ CallerAt("test", "return")
    /\ result' = "success"
    /\ abort' = (abort \/ (Parallel /\ ~keepKeys))
    /\ UNCHANGED <<inputs, enq, queued, items, outstanding, events, pool>>

\* A header that needs a newer program, or a cipher that cannot be initialised.
TestError ==
    /\ \/ Opens /\ header.newer /\ result' = "newer"
       \/ MayFail /\ result' = "error"
    /\ CallerAt("test", "abort")
    /\ UNCHANGED <<inputs, enq, queued, items, abort, outstanding, events, pool>>

NothingOpens ==
    /\ ~MorePrfs
    /\ CallerAt("loop", "abort")
    /\ result' = "wrong"
    /\ UNCHANGED <<inputs, enq, queued, items, abort, outstanding, events, pool>>

Abort ==
    /\ CallerAt("abort", "return")
    /\ abort' = TRUE
    /\ UNCHANGED <<inputs, enq, queued, items, result, outstanding, events, pool>>

\* Wait for noOutstandingWorkItemEvent; then everything is freed.
AwaitNone ==
    /\ caller.pc = "return" /\ (Parallel => noneLeft)
    /\ Goto("free")
    /\ noneLeft' = IF Parallel THEN FALSE ELSE noneLeft
    /\ UNCHANGED <<inputs, enq, queued, items, result, abort, outstanding,
                   keyDone, pool>>

Free ==
    /\ CallerAt("free", "returned")
    /\ UNCHANGED <<inputs, enq, queued, items, result, abort, outstanding,
                   events, pool>>

-----------------------------------------------------------------------------
(* DeriveKeyWork, on a thread of the pool *)

callerState == <<enq, queued, caller, result, abort>>
WorkerAt(w, from, to) ==
    worker[w].pc = from /\ worker' = [worker EXCEPT ![w].pc = to]

Take(w) ==
    /\ worker[w].pc = "idle" /\ ring # <<>>
    /\ worker' = [worker EXCEPT ![w] = [pc |-> "derive", slot |-> Head(ring)]]
    /\ ring' = Tail(ring)
    /\ UNCHANGED <<inputs, callerState, items, outstanding, events>>

\* A derivation that sees the abort flag ends without a key.
Derive(w) ==
    /\ WorkerAt(w, "derive", "flag")
    /\ \E key \in {"good"} \cup (IF abort THEN {"none"} ELSE {}) :
           items' = [items EXCEPT ![worker[w].slot].key = key]
    /\ UNCHANGED <<inputs, callerState, outstanding, events, ring>>

SetFlag(w) ==
    /\ WorkerAt(w, "flag", "signal")
    /\ items' = [items EXCEPT ![worker[w].slot].ready = TRUE]
    /\ UNCHANGED <<inputs, callerState, outstanding, events, ring>>

SignalDone(w) ==
    /\ WorkerAt(w, "signal", "uncount")
    /\ keyDone' = TRUE
    /\ UNCHANGED <<inputs, callerState, items, outstanding, noneLeft, ring>>

Uncount(w) ==
    /\ WorkerAt(w, "uncount", IF outstanding = 1 THEN "signalNone" ELSE "idle")
    /\ outstanding' = outstanding - 1
    /\ UNCHANGED <<inputs, callerState, items, events, ring>>

\* Mutant of SignalNone: the caller is not told.
SignalNobody(w) ==
    /\ WorkerAt(w, "signalNone", "idle")
    /\ UNCHANGED <<inputs, callerState, items, outstanding, events, ring>>

SignalNone(w) ==
    /\ WorkerAt(w, "signalNone", "idle")
    /\ noneLeft' = TRUE
    /\ UNCHANGED <<inputs, callerState, items, outstanding, keyDone, ring>>

-----------------------------------------------------------------------------

Caller == \/ Skip \/ DeriveHere \/ Enqueue \/ BeginCount \/ BeginClear \/ BeginPush
          \/ Full \/ ScanNext \/ ScanTake \/ ScanWait \/ TestFails \/ TestOpens
          \/ TestError \/ NothingOpens \/ Abort \/ AwaitNone \/ Free

Worker(w) == \/ Take(w) \/ Derive(w) \/ SetFlag(w) \/ SignalDone(w) \/ Uncount(w)
             \/ SignalNone(w)

\* ReadVolumeHeader has returned and the pool is idle.
Returned == /\ caller.pc = "returned" /\ ring = <<>>
            /\ \A w \in Workers : worker[w].pc = "idle"
            /\ UNCHANGED vars

Next == Caller \/ (\E w \in Workers : Worker(w)) \/ Returned

Spec == Init /\ [][Next]_vars

\* The caller and the threads of the pool are scheduled fairly.
FairSpec == Spec /\ WF_vars(Caller) /\ \A w \in Workers : WF_vars(Worker(w))

-----------------------------------------------------------------------------
(* Properties *)

CallerSteps == {"loop", "count", "clear", "push", "scan", "wait", "test", "abort",
                "return", "free", "returned"}
WorkerSteps == {"idle", "derive", "flag", "signal", "uncount", "signalNone"}
Item == [free : BOOLEAN, ready : BOOLEAN, prf : Prfs, key : {"none", "good"}]

\* Every variable keeps its type; at most one derivation for each thread of
\* the pool is under way.
TypeOK ==
    /\ header \in Header /\ boot \in BOOLEAN /\ selected \in 0 .. LastPrf
    /\ keepKeys \in BOOLEAN
    /\ enq \in 0 .. LastPrf + 1
    /\ queued \in Nat /\ (queued <= ThreadCount \/ ~Parallel)
    /\ items \in [Slots -> Item]
    /\ caller \in [pc : CallerSteps, slot : Slots, prf : Prfs, key : {"none", "good"}]
    /\ result \in {"none", "success", "wrong", "newer", "error"}
    /\ abort \in BOOLEAN /\ outstanding \in Int
    /\ keyDone \in BOOLEAN /\ noneLeft \in BOOLEAN
    /\ ring \in Seq(Slots)
    /\ worker \in [Workers -> [pc : WorkerSteps, slot : Slots]]

\* What the sequential search promises, the parallel one does: the password
\* is called wrong only if no PRF that may be tried opens the header, and a
\* header is opened only with its own PRF.
Admissible == {p \in Prfs : /\ selected = 0 \/ p = selected
                            /\ ~(boot /\ p = LastPrf)}
ResultRight ==
    /\ result = "wrong" => header.prf \notin Admissible
    /\ result \in {"success", "newer"} =>
           /\ header.prf \in Admissible /\ caller.prf = header.prf
           /\ header.newer = (result = "newer")

\* The buffer of a key that is still to be derived, or being derived, belongs
\* to that derivation: its item is neither free nor ready, and nobody else
\* has it.
Deriving == {w \in Workers : worker[w].pc \in {"derive", "flag"}}
Filling == caller.pc \in {"count", "clear", "push"}
SlotExclusive ==
    /\ \A n \in DOMAIN ring :
           /\ ~items[ring[n]].free /\ ~items[ring[n]].ready
           /\ \A m \in DOMAIN ring : ring[m] = ring[n] => m = n
           /\ \A w \in Deriving : ring[n] # worker[w].slot
    /\ \A w \in Deriving :
           /\ ~items[worker[w].slot].free /\ ~items[worker[w].slot].ready
           /\ \A v \in Deriving : worker[v].slot = worker[w].slot => v = w
    /\ Filling => /\ \A n \in DOMAIN ring : ring[n] # caller.slot
                  /\ \A w \in Deriving : worker[w].slot # caller.slot

\* queuedWorkItems counts the items that are not free, but for the one being
\* prepared.
ItemsCounted ==
    queued = Cardinality({s \in Slots : ~items[s].free}) - (IF Filling THEN 1 ELSE 0)

\* "Cleanup is now synchronous because we already waited for all threads to
\* stop" (Volumes.c, line 654): when the caller frees the items and the
\* events, no thread of the pool uses them.
CleanupAlone ==
    caller.pc = "free" =>
        ring = <<>> /\ \A w \in Workers : worker[w].pc = "idle"

\* ReadVolumeHeader returns.
Returns == <>(caller.pc = "returned")
================================================================================
