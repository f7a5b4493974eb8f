---------------------- MODULE EncryptedIoQueue_proofs ----------------------
(***************************************************************************)
(* Theorems about EncryptedIoQueue, for all numbers of requests, sectors,  *)
(* buffers and work items that QueueAssumption allows.                     *)
(*                                                                         *)
(* The argument: the fragments of the requests pass through the lists and  *)
(* the threads in the order in which AddIrp accepted the requests, and     *)
(* those of one request in the order of their sectors (Queued, Entered,    *)
(* Ordered); so whoever finishes the last fragment of a request knows that *)
(* nothing of it is left behind, and OutstandingIoCount counts what is     *)
(* left of any (Balanced).  When it has come to zero while the queue is    *)
(* suspended, or being stopped, nothing is on the way (Settled, Stopping). *)
(* With that known, the second part follows the data: nothing on the       *)
(* device is later than what has yet to be written, and a write is         *)
(* pending or has landed (Delivering); what a read has is at every stage   *)
(* the latest of what had been written when it was accepted (Returning).   *)
(***************************************************************************)
EXTENDS EncryptedIoQueue, FiniteSetTheorems, TLAPS

Events == Buffers \cup {"MainQueue", "IoQueue", "CompletionQueue", "NoOutstandingIo",
                        "NoActiveWorkItems", "PoolBufferFree", "QueueResumed"}
Content == [writer : Irps \cup {NoIrp}, encrypted : BOOLEAN]
Piece == [irp : Irps, sector : Sectors, buffer : Buffers, last : BOOLEAN, encrypted : BOOLEAN]

\* Where a request can be, and where one is that has been accepted or completed.
AtAccepted  == {"queued", "completed", "done"} \cup Working
AtCompleted == {"completed", "done"} \cup (Working \ {"handed"})
Places      == {"new", "counted", "admitted", "refusing", "refusalSignal", "refused"} \cup AtAccepted

MainSteps == {"wait", "pop", "popped", "held", "item", "itemWait", "dispatch", "direct",
              "uncount", "signal", "freeItem", "fragment", "request", "requestWait",
              "acquire", "push", "exited"}
IoSteps == {"wait", "pop", "access", "accessed", "deliver", "ahead", "aheadDone",
            "aheadSignal", "complete", "hand", "free", "exited"}
CompletionSteps == {"wait", "pop", "decrypt", "complete", "hand", "free", "exited"}
HoldSteps == {"idle", "test", "wait", "recheck", "clear", "suspend", "confirm", "invalidate",
              "undo", "undone", "held", "encrypted", "decrypted", "resume", "resumed"}
StopSteps == {"idle", "test", "wait", "exit", "joinMain", "joinIo", "joinCompletion",
              "drain", "drainWait", "free", "stopped"}

FlagTypes ==
    /\ signalled \subseteq Events
    /\ suspended \in BOOLEAN /\ suspendPending \in BOOLEAN /\ stopPending \in BOOLEAN
    /\ exitRequested \in BOOLEAN /\ protectionAction \in BOOLEAN
NumberTypes ==
    /\ outstanding \in Int /\ pendingRequests \in Int /\ activeWorkItems \in Int
    /\ permits \in Int /\ itemsInUse \in Int /\ requestsInUse \in Int
ListTypes ==
    mainQueue \in Seq(Irps) /\ ioQueue \in Seq(Piece) /\ completionQueue \in Seq(Piece)
DeviceTypes ==
    /\ disk \in [Sectors -> Content] /\ encryptedEnd \in -1 .. SectorCount - 1
    /\ readAhead \in [valid : BOOLEAN, sector : Sectors, data : Content]
    /\ lastRead \in Sectors
MainType ==
    main \in [pc : MainSteps, irp : Irps, sector : Sectors, buffer : Buffers, encrypted : BOOLEAN]
IoType == io \in [pc : IoSteps, request : Piece, ahead : BOOLEAN]
CompletionType == completion \in [pc : CompletionSteps, request : Piece]
CallerTypes ==
    hold \in [pc : HoldSteps, timed : BOOLEAN] /\ holds \in Nat /\ stop \in StopSteps
IrpType ==
    irp \in [Irps -> [op : Ops \cup {SomeOp}, at : Places, status : {"success", "error", "denied"}]]
DataTypes ==
    /\ fragment \in [Buffers -> Content] /\ got \in [Irps -> [Sectors -> Content]]
    /\ log \in Seq({"accepted", "completed"} \X Irps)
Types == FlagTypes /\ NumberTypes /\ ListTypes /\ DeviceTypes /\ MainType /\ IoType
         /\ CompletionType /\ CallerTypes /\ IrpType /\ DataTypes

\* The main thread has a request, cuts one into fragments, has completed one itself;
\* the other threads have a fragment.
Popping == main.pc \in {"popped", "held", "item", "itemWait", "dispatch", "direct"}
Cutting == main.pc \in {"fragment", "request", "requestWait", "acquire", "push"}
Ending  == main.pc \in {"uncount", "signal", "freeItem"}
IoBusy  == io.pc \in {"access", "accessed", "deliver", "complete", "hand"}
CompletionBusy == completion.pc \in {"decrypt", "complete", "hand"}

\* By the records f of the requests, r is a fragment of one not yet completed.
Sound(f, r) ==
    /\ f[r.irp].at = "queued"
    /\ r.sector \in f[r.irp].op.first .. f[r.irp].op.last
    /\ r.last <=> r.sector = f[r.irp].op.last

MainHas ==
    /\ Popping \/ Cutting => irp[main.irp].at = "queued"
    /\ Ending => irp[main.irp].at = "completed"
    /\ main.pc = "direct" => ~Writes(main.irp)
    /\ Cutting => main.sector \in SectorsOf(main.irp)
    /\ \A n \in DOMAIN mainQueue : irp[mainQueue[n]].at = "queued"

IoHas ==
    /\ IoBusy => Sound(irp, io.request)
    /\ \A n \in DOMAIN ioQueue : Sound(irp, ioQueue[n])
    /\ io.pc \in {"complete", "hand"} => io.request.last /\ Writes(io.request.irp)
    /\ io.pc = "deliver" => ~Writes(io.request.irp)
    /\ io.ahead => io.pc = "deliver"

CompletionHas ==
    /\ CompletionBusy => Sound(irp, completion.request) /\ ~Writes(completion.request.irp)
    /\ completion.pc \in {"complete", "hand"} => completion.request.last
    /\ \A n \in DOMAIN completionQueue :
           Sound(irp, completionQueue[n]) /\ ~Writes(completionQueue[n].irp)

\* Event e is in the log l.
Logs(l, e) == \E n \in DOMAIN l : l[n] = e

\* The log has each event once, and a request's are those that its place tells.
Logged ==
    /\ \A m, n \in DOMAIN log : log[m] = log[n] => m = n
    /\ \A i \in Irps : /\ Logs(log, <<"accepted", i>>) <=> irp[i].at \in AtAccepted
                       /\ Logs(log, <<"completed", i>>) <=> irp[i].at \in AtCompleted

\* By the log l, i has been accepted before j; fragment r comes before fragment t.
Sooner(l, i, j) ==
    \E n, k \in DOMAIN l : n < k /\ l[n] = <<"accepted", i>> /\ l[k] = <<"accepted", j>>
Precedes(l, r, t) == IF r.irp = t.irp THEN r.sector < t.sector ELSE Sooner(l, r.irp, t.irp)

\* The fragments on the way, stage by stage.
InIoQueue         == {ioQueue[n] : n \in DOMAIN ioQueue}
InIo              == IF IoBusy THEN {io.request} ELSE {}
InCompletionQueue == {completionQueue[n] : n \in DOMAIN completionQueue}
InCompletion      == IF CompletionBusy THEN {completion.request} ELSE {}
Pipe == InCompletion \cup InCompletionQueue \cup InIo \cup InIoQueue

\* Requests wait in the order of their acceptance, after all that is on the way.
Queued ==
    /\ \A m, n \in DOMAIN mainQueue : m < n => Sooner(log, mainQueue[m], mainQueue[n])
    /\ Popping \/ Cutting => \A n \in DOMAIN mainQueue : Sooner(log, main.irp, mainQueue[n])
    /\ \A r \in Pipe, n \in DOMAIN mainQueue : Sooner(log, r.irp, mainQueue[n])

\* What the main thread has comes after all that is on the way.
Entered ==
    /\ Popping => \A r \in Pipe : Sooner(log, r.irp, main.irp)
    /\ Cutting => \A r \in Pipe : Precedes(log, r, main)

\* The fragments on the way are in order.
Order(l, S, T) == \A r \in S, t \in T : Precedes(l, r, t)
Ordered ==
    /\ \A m, n \in DOMAIN ioQueue : m < n => Precedes(log, ioQueue[m], ioQueue[n])
    /\ \A m, n \in DOMAIN completionQueue :
           m < n => Precedes(log, completionQueue[m], completionQueue[n])
    /\ Order(log, InIo, InIoQueue)
    /\ Order(log, InCompletionQueue, InIo \cup InIoQueue)
    /\ Order(log, InCompletion, InCompletionQueue \cup InIo \cup InIoQueue)

\* The number of requests at a place of Z, by the records f of the requests.
Count(f, Z) == Cardinality({i \in Irps : f[i].at \in Z})

\* Where a request is outstanding, has a work item, has an active one, and has an
\* item and is not merely queued.
OpenAt   == {"counted", "admitted", "queued", "refusing", "handed", "delivered"}
PermitAt == {"handed", "delivered", "signal", "uncounted", "inactive", "returning"}
ActiveAt == {"handed", "delivered", "signal", "uncounted"}
TakenAt  == {"handed", "delivered", "signal", "uncounted", "inactive", "returning", "returned",
             "completed"}
Made     == {i \in Irps : irp[i].at # "new"}

\* What the threads themselves count for.
One(P) == IF P THEN 1 ELSE 0
MainCounted == One(main.pc = "uncount")
MainWaits   == One(main.pc \in {"popped", "held", "item", "itemWait"})
IoCounted   == One(io.pc \in {"ahead", "aheadDone"} \/ (io.pc = "deliver" /\ io.ahead))
IoPermit    == One(io.pc = "hand")
CompletionPermit == One(completion.pc = "hand")
MainRequest == One(main.pc \in {"acquire", "push"})
IoRequest   == One(io.pc \in {"access", "accessed", "deliver", "complete", "hand", "free"})
CompletionRequest == One(completion.pc \in {"decrypt", "complete", "hand", "free"})

\* Balanced, and what the items and the active work items are in use for: an item
\* for each request that has been taken off the main list and is not done.
OutstandingCounted == outstanding = Count(irp, OpenAt) + MainCounted + IoCounted
PermitsCounted     == permits = WorkItems - Count(irp, PermitAt) - IoPermit - CompletionPermit
ActiveCounted      == activeWorkItems = Count(irp, ActiveAt)
ItemsCounted       == itemsInUse = Count(irp, TakenAt) + Count(irp, {"queued"})
                                   - Len(mainQueue) - MainWaits
RequestsCounted    == requestsInUse = Len(ioQueue) + Len(completionQueue)
                                      + MainRequest + IoRequest + CompletionRequest
Counted == IsFiniteSet(Made) /\ OutstandingCounted /\ PermitsCounted /\ ActiveCounted
           /\ ItemsCounted /\ RequestsCounted
Bounded == permits >= 0 /\ itemsInUse <= Items /\ requestsInUse <= Requests

\* FragmentExclusive, user by user.
Exclusive ==
    LET InMain == main.pc = "push"
        InAccess == io.pc \in {"access", "accessed"}
    IN  /\ \A m, n \in DOMAIN ioQueue : m # n => ioQueue[m].buffer # ioQueue[n].buffer
        /\ \A n \in DOMAIN ioQueue : /\ ioQueue[n].buffer \notin signalled
                                     /\ InMain => main.buffer # ioQueue[n].buffer
                                     /\ InAccess => io.request.buffer # ioQueue[n].buffer
        /\ InMain => main.buffer \notin signalled
        /\ InAccess => io.request.buffer \notin signalled
        /\ InMain /\ InAccess => main.buffer # io.request.buffer

\* What each step of Stop may rely on.
Exiting == {"joinMain", "joinIo", "joinCompletion", "drain", "drainWait", "free", "stopped"}
Stopping ==
    /\ stopPending <=> stop # "idle"
    /\ exitRequested <=> stop \in Exiting
    /\ stop # "idle" => hold.pc = "idle"
    /\ stop \in Exiting \cup {"exit"} =>
           /\ \A i \in Irps : irp[i].at \notin {"admitted", "queued", "handed", "delivered"}
           /\ main.pc # "uncount" /\ io.pc \notin {"ahead", "aheadDone"}
    /\ stop \in Exiting \ {"joinMain"} => main.pc = "exited"
    /\ stop \in Exiting \ {"joinMain", "joinIo"} => io.pc = "exited"
    /\ stop \in {"drain", "drainWait", "free", "stopped"} => completion.pc = "exited"
    /\ stop \in {"free", "stopped"} => activeWorkItems = 0

\* While the queue is suspended, and once it is known to be idle.
Suspending ==
    /\ suspended <=> hold.pc \in {"confirm", "undo", "invalidate", "held", "encrypted",
                                  "decrypted", "resume"}
    /\ hold.pc \in {"suspend", "confirm", "undo", "undone", "invalidate", "held",
                    "encrypted", "decrypted", "resume", "resumed"}
           => "QueueResumed" \notin signalled

Settled ==
    /\ hold.pc = "invalidate" \/ Holding =>
           /\ main.pc \in {"wait", "pop", "popped", "held", "signal", "freeItem", "exited"}
           /\ io.pc \in {"wait", "pop", "free", "aheadSignal", "exited"}
           /\ ioQueue = <<>> /\ completionQueue = <<>> /\ ~CompletionBusy
    /\ Holding => ~readAhead.valid

\* A fragment buffer holds what the main thread has encrypted for a write.
Filled(b, r) == fragment[b] = [writer |-> r.irp, encrypted |-> r.encrypted]
Encrypting ==
    /\ DriveConsistent
    /\ hold.pc = "encrypted" => encryptedEnd + 1 < SectorCount /\ disk[encryptedEnd + 1].encrypted
    /\ hold.pc = "decrypted" => encryptedEnd >= 0 /\ ~disk[encryptedEnd].encrypted
    /\ \A r \in Pipe : r.encrypted = InEncryptedArea(r.sector)
    /\ main.pc \in {"acquire", "push"} => main.encrypted = InEncryptedArea(main.sector)

Encrypted ==
    /\ main.pc = "push" /\ Writes(main.irp) => Filled(main.buffer, main)
    /\ \A n \in DOMAIN ioQueue : Writes(ioQueue[n].irp) => Filled(ioQueue[n].buffer, ioQueue[n])
    /\ io.pc \in {"access", "accessed"} /\ Writes(io.request.irp)
           => Filled(io.request.buffer, io.request)

\* Only the drive is held, and a request in use is one of Ops.
Requested ==
    /\ hold.pc # "idle" => IsFilterDevice
    /\ \A i \in Irps : irp[i].at # "new" => irp[i].op \in Ops

\* The inductive invariant.
IInv == Types /\ Requested /\ MainHas /\ IoHas /\ CompletionHas /\ Logged /\ Queued /\ Entered
        /\ Ordered /\ Counted /\ Bounded /\ Exclusive /\ Stopping /\ Suspending /\ Settled
        /\ Encrypting /\ Encrypted

-----------------------------------------------------------------------------
(* What each part of the code leaves alone *)

USE DEF workItems, pools, queues, flags, device, threads, callers, requests, addFrame,
        mainFrame, mainRest, ioFrame, ioRest, completionFrame, completionRest, workFrame,
        holdFrame, holdRest, stopFrame

\* None of the five steps of AddIrp touches the variables of addFrame.
LEMMA AddFrame == ASSUME NEW i \in Irps, AddIrp(i) PROVE UNCHANGED addFrame
BY DEF AddIrp, AddCount, AddTest, AddQueue, AddRefuse, AddRefuseSignal

\* The main thread leaves mainFrame alone.
LEMMA MainFrame == Main => UNCHANGED mainFrame
BY DEF Main, MainEmpty, MainWait, MainPop, MainTestSuspended, MainHeld, MainGetItem, MainWaitPool,
       MainRefuse, MainFail, MainRead, MainReadDone, MainUncount, MainSignal, MainFreeItem,
       MainAccept, MainFragment, MainGetRequest, MainAcquire, MainPush

\* The I/O thread leaves ioFrame alone.
LEMMA IoFrame == Io => UNCHANGED ioFrame
BY DEF Io, IoWait, IoEmpty, IoPop, IoSkip, IoFail, IoWrite, IoRead, IoWritten, IoReadDone,
       IoDeliver, IoReadAhead, IoUncount, IoSignal, IoFreeRequest, IoTakeWorkItem, IoHand

\* The completion thread leaves completionFrame alone.
LEMMA CompletionFrame == Completion => UNCHANGED completionFrame
BY DEF Completion, CompletionWait, CompletionEmpty, CompletionPop, CompletionDecrypt,
       CompletionTakeWorkItem, CompletionHand, CompletionFreeRequest

\* A work item leaves workFrame alone.
LEMMA WorkFrame == ASSUME NEW i \in Irps, Work(i) PROVE UNCHANGED workFrame
BY DEF Work, WorkComplete, WorkUncount, WorkSignal, WorkInactive, WorkSignalInactive,
       WorkReturn, WorkFreeItem

\* A holder leaves holdFrame alone.
LEMMA HoldFrame == Hold => UNCHANGED holdFrame
BY DEF Hold, HoldBegin, HoldTest, HoldWait, HoldFail, HoldIdle, HoldClear, HoldSuspend,
       HoldConfirm, HoldUndo, HoldUndone, HoldDone, SetupWrite, SetupMoveEnd, Resume, ResumeSignal

\* Stop leaves stopFrame alone.
LEMMA StopFrame == Stop => UNCHANGED stopFrame
BY DEF Stop, StopBegin, StopTest, StopWait, StopExit, StopJoin, StopDrain, StopFree

-----------------------------------------------------------------------------
(* Types *)

\* What a request may ask for.
LEMMA OpType ==
    ASSUME IrpType, NEW i \in Irps
    PROVE  /\ irp[i].op \in Operation /\ irp[i].op.first <= irp[i].op.last
           /\ irp[i].op.first \in Sectors /\ irp[i].op.last \in Sectors
           /\ irp[i].op.write \in BOOLEAN
           /\ irp[i].op.misaligned => ~irp[i].op.write
           /\ SectorsOf(i) \subseteq Sectors
<1>1. irp[i].op \in Ops \cup {SomeOp}
  BY DEF IrpType
<1>2. 0 \in Sectors
  BY QueueAssumption DEF Sectors
<1>3. SomeOp \in Operation /\ SomeOp.first <= SomeOp.last /\ ~SomeOp.misaligned
  BY <1>2 DEF SomeOp, Operation
<1>4. /\ irp[i].op \in Operation /\ irp[i].op.first <= irp[i].op.last
      /\ irp[i].op.misaligned => ~irp[i].op.write
  BY <1>1, <1>3, QueueAssumption
<1>. QED
  BY <1>4, QueueAssumption DEF Operation, SectorsOf, Sectors

\* The head and the tail of a list.
LEMMA HeadTail ==
    ASSUME NEW S, NEW q \in Seq(S), q # <<>>
    PROVE  /\ Head(q) \in S /\ Tail(q) \in Seq(S) /\ Head(q) = q[1] /\ 1 \in DOMAIN q
           /\ Len(q) \in Nat /\ Len(q) >= 1 /\ Len(Tail(q)) = Len(q) - 1
           /\ \A n \in DOMAIN Tail(q) : n + 1 \in DOMAIN q /\ Tail(q)[n] = q[n + 1]
           /\ DOMAIN q = 1 .. Len(q) /\ DOMAIN Tail(q) = 1 .. Len(q) - 1
OBVIOUS

\* What Append adds is at the end, and the rest is where it was.
LEMMA Appended ==
    ASSUME NEW S, NEW q \in Seq(S), NEW x \in S
    PROVE  /\ Append(q, x) \in Seq(S) /\ Len(Append(q, x)) = Len(q) + 1
           /\ Append(q, x)[Len(q) + 1] = x /\ Len(q) + 1 \in DOMAIN Append(q, x)
           /\ \A n \in DOMAIN q : Append(q, x)[n] = q[n] /\ n \in DOMAIN Append(q, x)
           /\ DOMAIN q = 1 .. Len(q) /\ DOMAIN Append(q, x) = 1 .. Len(q) + 1
           /\ Len(q) \in Nat
OBVIOUS

\* Transforming a sector keeps who wrote it.
LEMMA DecryptedType ==
    ASSUME NEW c \in Content
    PROVE  /\ Decrypted(c) \in Content /\ Decrypted(c).writer = c.writer
           /\ Decrypted(c).encrypted = ~c.encrypted
BY DEF Decrypted, Content

\* A read-ahead reads the sector after the last one, which the device has.
LEMMA ReadAheadType == DeviceTypes /\ IoReadAhead => DeviceTypes'
<1>. SUFFICES ASSUME DeviceTypes, IoReadAhead PROVE DeviceTypes'
  OBVIOUS
<1>1. UNCHANGED <<disk, encryptedEnd, lastRead>>
  BY DEF IoReadAhead, ioFrame
<1>2. NoReadAhead \in [valid : BOOLEAN, sector : Sectors, data : Content]
  BY QueueAssumption DEF NoReadAhead, Blank, Content, Sectors
<1>3. lastRead + 1 < SectorCount => lastRead + 1 \in Sectors /\ disk[lastRead + 1] \in Content
  BY QueueAssumption DEF DeviceTypes, Sectors
<1>4. \/ readAhead' = NoReadAhead
      \/ /\ lastRead + 1 < SectorCount
         /\ readAhead' = [valid |-> TRUE, sector |-> lastRead + 1, data |-> disk[lastRead + 1]]
  BY DEF IoReadAhead
<1>5. readAhead' \in [valid : BOOLEAN, sector : Sectors, data : Content]
  <2>1. CASE readAhead' = NoReadAhead
    BY <1>2, <2>1
  <2>2. CASE lastRead + 1 < SectorCount /\
             readAhead' = [valid |-> TRUE, sector |-> lastRead + 1, data |-> disk[lastRead + 1]]
    BY <1>3, <2>2
  <2>. QED
    BY <1>4, <2>1, <2>2
<1>. QED
  BY <1>1, <1>5 DEF DeviceTypes

-----------------------------------------------------------------------------
(* The log and the order of acceptance *)

\* The log only grows.
LEMMA LogGrows ==
    ASSUME MainType, [Next]_vars
    PROVE  \/ log' = log
           \/ \E e \in {"accepted", "completed"} \X Irps : log' = Append(log, e)
<1>1. CASE UNCHANGED vars
  BY <1>1 DEF vars
<1>2. ASSUME NEW i \in Irps, AddIrp(i) \/ Work(i)
      PROVE  log' = log \/ \E e \in {"accepted", "completed"} \X Irps : log' = Append(log, e)
  BY <1>2 DEF AddIrp, AddCount, AddTest, AddQueue, AddRefuse, AddRefuseSignal, Work, WorkComplete,
              WorkUncount, WorkSignal, WorkInactive, WorkSignalInactive, WorkReturn, WorkFreeItem
<1>3. CASE Main
  BY <1>3 DEF MainType, Main, MainEmpty, MainWait, MainPop, MainTestSuspended, MainHeld, MainGetItem,
       MainWaitPool, MainRefuse, MainFail, MainRead, MainReadDone, MainUncount, MainSignal,
       MainFreeItem, MainAccept, MainFragment, MainGetRequest, MainAcquire, MainPush, Complete
<1>4. CASE Io \/ Completion \/ Hold \/ Stop
  BY <1>4, IoFrame, CompletionFrame, HoldFrame, StopFrame
<1>. QED
  BY <1>1, <1>2, <1>3, <1>4 DEF Next

\* What was accepted sooner remains so.
LEMMA SoonerStays ==
    ASSUME DataTypes, NEW l, l = log \/ \E e \in {"accepted", "completed"} \X Irps : l = Append(log, e),
           NEW i, NEW j, Sooner(log, i, j)
    PROVE  Sooner(l, i, j)
<1>1. PICK n, k \in DOMAIN log : n < k /\ log[n] = <<"accepted", i>> /\ log[k] = <<"accepted", j>>
  BY DEF Sooner
<1>2. n \in DOMAIN l /\ k \in DOMAIN l /\ l[n] = log[n] /\ l[k] = log[k]
  <2>1. ASSUME NEW e \in {"accepted", "completed"} \X Irps, l = Append(log, e)
        PROVE  n \in DOMAIN l /\ k \in DOMAIN l /\ l[n] = log[n] /\ l[k] = log[k]
    BY <1>1, <2>1, Appended DEF DataTypes
  <2>. QED
    BY <1>1, <2>1
<1>. QED
  BY <1>1, <1>2 DEF Sooner

\* Acceptance is a strict order.
LEMMA SoonerStrict ==
    ASSUME Logged, DataTypes, NEW i, NEW j, Sooner(log, i, j)
    PROVE  i # j /\ ~Sooner(log, j, i)
<1>1. PICK n, k \in DOMAIN log : n < k /\ log[n] = <<"accepted", i>> /\ log[k] = <<"accepted", j>>
  BY DEF Sooner
<1>2. n \in Int /\ k \in Int
  BY DEF DataTypes
<1>3. i # j
  BY <1>1, <1>2 DEF Logged
<1>4. ASSUME Sooner(log, j, i) PROVE FALSE
  <2>1. PICK m, h \in DOMAIN log : m < h /\ log[m] = <<"accepted", j>> /\ log[h] = <<"accepted", i>>
    BY <1>4 DEF Sooner
  <2>2. m = k /\ h = n
    BY <1>1, <2>1 DEF Logged
  <2>. QED
    BY <1>1, <1>2, <2>1, <2>2
<1>. QED
  BY <1>3, <1>4

\* What is accepted last is not sooner than anything, and later than all before.
LEMMA SoonerAppend ==
    ASSUME DataTypes, NEW i \in Irps, NEW j \in Irps, Logs(log, <<"accepted", i>>)
    PROVE  Sooner(Append(log, <<"accepted", j>>), i, j)
<1>1. PICK n \in DOMAIN log : log[n] = <<"accepted", i>>
  BY DEF Logs
<1>2. LET l == Append(log, <<"accepted", j>>)
      IN  /\ n \in DOMAIN l /\ Len(log) + 1 \in DOMAIN l /\ n < Len(log) + 1
          /\ l[n] = log[n] /\ l[Len(log) + 1] = <<"accepted", j>>
  BY <1>1 DEF DataTypes
<1>. QED
  BY <1>1, <1>2 DEF Sooner

\* The requests keep their part of the log, or one event is added to it.
LEMMA LoggedStays ==
    ASSUME Logged, log' = log,
           \A i \in Irps : /\ irp'[i].at \in AtAccepted <=> irp[i].at \in AtAccepted
                           /\ irp'[i].at \in AtCompleted <=> irp[i].at \in AtCompleted
    PROVE  Logged'
BY DEF Logged

\* One event is added that the log does not have yet.
LEMMA LoggedAppend ==
    ASSUME Logged, DataTypes, NEW e \in {"accepted", "completed"} \X Irps, log' = Append(log, e),
           ~Logs(log, e),
           \A i \in Irps :
               /\ irp'[i].at \in AtAccepted <=> irp[i].at \in AtAccepted \/ e = <<"accepted", i>>
               /\ irp'[i].at \in AtCompleted <=> irp[i].at \in AtCompleted \/ e = <<"completed", i>>
    PROVE  Logged'
<1>1. /\ DOMAIN log' = 1 .. Len(log) + 1 /\ DOMAIN log = 1 .. Len(log) /\ Len(log) \in Nat
      /\ \A n \in DOMAIN log : log'[n] = log[n]
      /\ log'[Len(log) + 1] = e
  BY Appended DEF DataTypes
<1>2. \A f : Logs(log', f) <=> Logs(log, f) \/ f = e
  BY <1>1 DEF Logs
<1>3. \A m, n \in DOMAIN log' : log'[m] = log'[n] => m = n
  <2>1. SUFFICES ASSUME NEW m \in DOMAIN log', NEW n \in DOMAIN log', log'[m] = log'[n], m # n
                 PROVE  FALSE
    OBVIOUS
  <2>2. CASE m \in DOMAIN log /\ n \in DOMAIN log
    BY <1>1, <2>1, <2>2 DEF Logged
  <2>3. CASE m \notin DOMAIN log \/ n \notin DOMAIN log
    BY <1>1, <2>1, <2>3 DEF Logs
  <2>. QED
    BY <2>2, <2>3
<1>. QED
  BY <1>2, <1>3 DEF Logged

\* The last fragment of a request has no other fragment of it behind it.
LEMMA LastAlone ==
    ASSUME Types, NEW r, NEW t, r.irp \in Irps, Sound(irp, r), Sound(irp, t), r.last,
           Precedes(log, r, t)
    PROVE  r.irp # t.irp
BY OpType, QueueAssumption DEF Types, Sound, Precedes, SectorsOf, Sectors

\* Events and flags keep their types.
LEMMA FlagTypesStep == ASSUME IInv, [Next]_vars PROVE FlagTypes'
<1>1. CASE UNCHANGED vars
  BY <1>1 DEF IInv, vars, Types, FlagTypes, Events, Buffers, MainType, IoType, Piece
<1>2. ASSUME NEW i \in Irps, AddIrp(i) PROVE FlagTypes'
  BY <1>2 DEF IInv, AddIrp, AddCount, AddTest, At, AddQueue, Set, AddRefuse, Uncount,
     LastOutstanding, AddRefuseSignal, SignalNoOutstanding, Types, FlagTypes, Events, Buffers,
     MainType, IoType, Piece
<1>3. ASSUME NEW i \in Irps, Work(i) PROVE FlagTypes'
  BY <1>3 DEF IInv, Work, WorkComplete, WorkUncount, At, Uncount, LastOutstanding, WorkSignal,
     SignalNoOutstanding, WorkInactive, WorkSignalInactive, Set, WorkReturn, WorkFreeItem,
     Types, FlagTypes, Events, Buffers, MainType, IoType, Piece
<1>4. CASE Main
  <2>1. CASE MainEmpty
    BY <2>1 DEF IInv, MainEmpty, MainAt, Types, FlagTypes, Events, Buffers, MainType, IoType,
       Piece
  <2>2. CASE MainWait
    BY <2>2 DEF IInv, MainWait, MainAt, Wait, Types, FlagTypes, Events, Buffers, MainType,
       IoType, Piece
  <2>3. CASE MainPop
    BY <2>3 DEF IInv, MainPop, Types, FlagTypes, Events, Buffers, MainType, IoType, Piece
  <2>4. CASE MainTestSuspended
    BY <2>4 DEF IInv, MainTestSuspended, MainAt, Types, FlagTypes, Events, Buffers, MainType,
       IoType, Piece
  <2>5. CASE MainHeld
    BY <2>5 DEF IInv, MainHeld, MainAt, Wait, Types, FlagTypes, Events, Buffers, MainType,
       IoType, Piece
  <2>6. CASE MainGetItem
    BY <2>6 DEF IInv, MainGetItem, MainAt, Types, FlagTypes, Events, Buffers, MainType, IoType,
       Piece
  <2>7. CASE MainWaitPool
    BY <2>7 DEF IInv, MainWaitPool, MainAt, Wait, Types, FlagTypes, Events, Buffers, MainType,
       IoType, Piece
  <2>8. CASE MainRefuse
    BY <2>8 DEF IInv, MainRefuse, MainAt, Complete, Refused, Types, FlagTypes, Events, Buffers,
       MainType, IoType, Piece
  <2>9. CASE MainFail
    BY <2>9 DEF IInv, MainFail, MainAt, Complete, Types, FlagTypes, Events, Buffers, MainType,
       IoType, Piece
  <2>10. CASE MainRead
    BY <2>10 DEF IInv, MainRead, MainAt, Types, FlagTypes, Events, Buffers, MainType, IoType,
       Piece
  <2>11. CASE MainReadDone
    BY <2>11 DEF IInv, MainReadDone, MainAt, Complete, Types, FlagTypes, Events, Buffers,
       MainType, IoType, Piece
  <2>12. CASE MainUncount
    BY <2>12 DEF IInv, MainUncount, MainAt, Uncount, LastOutstanding, Types, FlagTypes, Events,
       Buffers, MainType, IoType, Piece
  <2>13. CASE MainSignal
    BY <2>13 DEF IInv, MainSignal, MainAt, SignalNoOutstanding, Types, FlagTypes, Events,
       Buffers, MainType, IoType, Piece
  <2>14. CASE MainFreeItem
    BY <2>14 DEF IInv, MainFreeItem, MainAt, Set, Types, FlagTypes, Events, Buffers, MainType,
       IoType, Piece
  <2>15. CASE MainAccept
    BY <2>15 DEF IInv, MainAccept, Refused, Types, FlagTypes, Events, Buffers, MainType,
       IoType, Piece
  <2>16. CASE MainFragment
    BY <2>16 DEF IInv, MainFragment, Types, FlagTypes, Events, Buffers, MainType, IoType, Piece
  <2>17. CASE MainGetRequest
    BY <2>17 DEF IInv, MainGetRequest, Types, FlagTypes, Events, Buffers, MainType, IoType,
       Piece
  <2>18. CASE MainAcquire
    BY <2>18 DEF IInv, MainAcquire, MainAt, Wait, Encrypt, Types, FlagTypes, Events, Buffers,
       MainType, IoType, Piece
  <2>19. CASE MainPush
    BY <2>19 DEF IInv, MainPush, Set, Types, FlagTypes, Events, Buffers, MainType, IoType,
       Piece
  <2>. QED
    BY <1>4, <2>1, <2>2, <2>3, <2>4, <2>5, <2>6, <2>7, <2>8, <2>9, <2>10, <2>11, <2>12, <2>13,
       <2>14, <2>15, <2>16, <2>17, <2>18, <2>19 DEF Main
<1>5. CASE Io
  <2>1. CASE IoWait
    BY <2>1 DEF IInv, IoWait, IoAt, Wait, Types, FlagTypes, Events, Buffers, MainType, IoType,
       Piece
  <2>2. CASE IoEmpty
    BY <2>2 DEF IInv, IoEmpty, IoAt, Types, FlagTypes, Events, Buffers, MainType, IoType, Piece
  <2>3. CASE IoPop
    BY <2>3 DEF IInv, IoPop, Types, FlagTypes, Events, Buffers, MainType, IoType, Piece
  <2>4. CASE IoSkip
    BY <2>4 DEF IInv, IoSkip, IoAt, Current, Types, FlagTypes, Events, Buffers, MainType,
       IoType, Piece
  <2>5. CASE IoFail
    BY <2>5 DEF IInv, IoFail, IoAt, Current, Types, FlagTypes, Events, Buffers, MainType,
       IoType, Piece
  <2>6. CASE IoWrite
    BY <2>6 DEF IInv, IoWrite, IoAt, Current, Types, FlagTypes, Events, Buffers, MainType,
       IoType, Piece
  <2>7. CASE IoRead
    BY <2>7 DEF IInv, IoRead, IoAt, Current, Types, FlagTypes, Events, Buffers, MainType,
       IoType, Piece
  <2>8. CASE IoWritten
    BY <2>8 DEF IInv, IoWritten, IoAt, Set, Current, Types, FlagTypes, Events, Buffers,
       MainType, IoType, Piece
  <2>9. CASE IoReadDone
    BY <2>9 DEF IInv, IoReadDone, Set, Current, Received, ReadsAhead, Types, FlagTypes, Events,
       Buffers, MainType, IoType, Piece
  <2>10. CASE IoDeliver
    BY <2>10 DEF IInv, IoDeliver, Set, Current, Types, FlagTypes, Events, Buffers, MainType,
       IoType, Piece
  <2>11. CASE IoReadAhead
    BY <2>11 DEF IInv, IoReadAhead, IoAt, Types, FlagTypes, Events, Buffers, MainType, IoType,
       Piece
  <2>12. CASE IoUncount
    BY <2>12 DEF IInv, IoUncount, IoAt, Uncount, LastOutstanding, Types, FlagTypes, Events,
       Buffers, MainType, IoType, Piece
  <2>13. CASE IoSignal
    BY <2>13 DEF IInv, IoSignal, IoAt, SignalNoOutstanding, Types, FlagTypes, Events, Buffers,
       MainType, IoType, Piece
  <2>14. CASE IoFreeRequest
    BY <2>14 DEF IInv, IoFreeRequest, IoAt, Set, Types, FlagTypes, Events, Buffers, MainType,
       IoType, Piece
  <2>15. CASE IoTakeWorkItem
    BY <2>15 DEF IInv, IoTakeWorkItem, IoAt, TakeWorkItem, Types, FlagTypes, Events, Buffers,
       MainType, IoType, Piece
  <2>16. CASE IoHand
    BY <2>16 DEF IInv, IoHand, IoAt, Hand, Current, Types, FlagTypes, Events, Buffers,
       MainType, IoType, Piece
  <2>. QED
    BY <1>5, <2>1, <2>2, <2>3, <2>4, <2>5, <2>6, <2>7, <2>8, <2>9, <2>10, <2>11, <2>12, <2>13,
       <2>14, <2>15, <2>16 DEF Io
<1>6. CASE Completion
  BY <1>6 DEF IInv, Completion, CompletionWait, CompletionAt, Wait, CompletionEmpty,
     CompletionPop, CompletionDecrypt, Finishing, CompletionTakeWorkItem, TakeWorkItem,
     CompletionHand, Hand, CompletionFreeRequest, Set, Types, FlagTypes, Events, Buffers,
     MainType, IoType, Piece
<1>7. CASE Hold
  BY <1>7 DEF IInv, Hold, HoldBegin, HoldTest, HoldAt, HoldWait, Wait, HoldFail, HoldIdle,
     HoldClear, HoldSuspend, HoldConfirm, HoldUndo, HoldUndone, Set, HoldDone, SetupWrite,
     SetupMoveEnd, Resume, ResumeSignal, Types, FlagTypes, Events, Buffers, MainType, IoType,
     Piece
<1>8. CASE Stop
  BY <1>8 DEF IInv, Stop, StopBegin, StopAt, StopTest, StopWait, Wait, StopExit, Set, StopJoin,
     StopDrain, StopFree, Types, FlagTypes, Events, Buffers, MainType, IoType, Piece
<1>. QED
  BY <1>1, <1>2, <1>3, <1>4, <1>5, <1>6, <1>7, <1>8 DEF Next

\* Counts remain integers.
LEMMA NumberTypesStep == ASSUME IInv, [Next]_vars PROVE NumberTypes'
<1>1. CASE UNCHANGED vars
  BY <1>1 DEF IInv, vars, Types, NumberTypes
<1>2. ASSUME NEW i \in Irps, AddIrp(i) PROVE NumberTypes'
  BY <1>2 DEF IInv, AddIrp, AddCount, AddTest, At, AddQueue, Set, AddRefuse, Uncount,
     LastOutstanding, AddRefuseSignal, SignalNoOutstanding, Types, NumberTypes
<1>3. ASSUME NEW i \in Irps, Work(i) PROVE NumberTypes'
  BY <1>3 DEF IInv, Work, WorkComplete, WorkUncount, At, Uncount, LastOutstanding, WorkSignal,
     SignalNoOutstanding, WorkInactive, WorkSignalInactive, Set, WorkReturn, WorkFreeItem,
     Types, NumberTypes
<1>4. CASE Main
  BY <1>4 DEF IInv, Main, MainEmpty, MainAt, MainWait, Wait, MainPop, MainTestSuspended,
     MainHeld, MainGetItem, MainWaitPool, MainRefuse, Complete, Refused, MainFail, MainRead,
     MainReadDone, MainUncount, Uncount, LastOutstanding, MainSignal, SignalNoOutstanding,
     MainFreeItem, Set, MainAccept, MainFragment, MainGetRequest, MainAcquire, Encrypt,
     MainPush, Types, NumberTypes
<1>5. CASE Io
  <2>1. CASE IoWait
    BY <2>1 DEF IInv, IoWait, IoAt, Wait, Types, NumberTypes
  <2>2. CASE IoEmpty
    BY <2>2 DEF IInv, IoEmpty, IoAt, Types, NumberTypes
  <2>3. CASE IoPop
    BY <2>3 DEF IInv, IoPop, Types, NumberTypes
  <2>4. CASE IoSkip
    BY <2>4 DEF IInv, IoSkip, IoAt, Current, Types, NumberTypes
  <2>5. CASE IoFail
    BY <2>5 DEF IInv, IoFail, IoAt, Current, Types, NumberTypes
  <2>6. CASE IoWrite
    BY <2>6 DEF IInv, IoWrite, IoAt, Current, Types, NumberTypes
  <2>7. CASE IoRead
    BY <2>7 DEF IInv, IoRead, IoAt, Current, Types, NumberTypes
  <2>8. CASE IoWritten
    BY <2>8 DEF IInv, IoWritten, IoAt, Set, Current, Types, NumberTypes
  <2>9. CASE IoReadDone
    BY <2>9 DEF IInv, IoReadDone, Set, Current, Received, ReadsAhead, Types, NumberTypes
  <2>10. CASE IoDeliver
    BY <2>10 DEF IInv, IoDeliver, Set, Current, Types, NumberTypes
  <2>11. CASE IoReadAhead
    BY <2>11 DEF IInv, IoReadAhead, IoAt, Types, NumberTypes
  <2>12. CASE IoUncount
    BY <2>12 DEF IInv, IoUncount, IoAt, Uncount, LastOutstanding, Types, NumberTypes
  <2>13. CASE IoSignal
    BY <2>13 DEF IInv, IoSignal, IoAt, SignalNoOutstanding, Types, NumberTypes
  <2>14. CASE IoFreeRequest
    BY <2>14 DEF IInv, IoFreeRequest, IoAt, Set, Types, NumberTypes
  <2>15. CASE IoTakeWorkItem
    BY <2>15 DEF IInv, IoTakeWorkItem, IoAt, TakeWorkItem, Types, NumberTypes
  <2>16. CASE IoHand
    BY <2>16 DEF IInv, IoHand, IoAt, Hand, Current, Types, NumberTypes
  <2>. QED
    BY <1>5, <2>1, <2>2, <2>3, <2>4, <2>5, <2>6, <2>7, <2>8, <2>9, <2>10, <2>11, <2>12, <2>13,
       <2>14, <2>15, <2>16 DEF Io
<1>6. CASE Completion
  BY <1>6 DEF IInv, Completion, CompletionWait, CompletionAt, Wait, CompletionEmpty,
     CompletionPop, CompletionDecrypt, Finishing, CompletionTakeWorkItem, TakeWorkItem,
     CompletionHand, Hand, CompletionFreeRequest, Set, Types, NumberTypes
<1>7. CASE Hold
  BY <1>7 DEF IInv, Hold, HoldBegin, HoldTest, HoldAt, HoldWait, Wait, HoldFail, HoldIdle,
     HoldClear, HoldSuspend, HoldConfirm, HoldUndo, HoldUndone, Set, HoldDone, SetupWrite,
     SetupMoveEnd, Resume, ResumeSignal, Types, NumberTypes
<1>8. CASE Stop
  BY <1>8, StopFrame DEF IInv, Types, NumberTypes
<1>. QED
  BY <1>1, <1>2, <1>3, <1>4, <1>5, <1>6, <1>7, <1>8 DEF Next

\* The lists contain requests, and fragments.
LEMMA ListTypesStep == ASSUME IInv, [Next]_vars PROVE ListTypes'
<1>1. CASE UNCHANGED vars
  BY <1>1 DEF IInv, vars, Types, ListTypes
<1>2. ASSUME NEW i \in Irps, AddIrp(i) PROVE ListTypes'
  <2>1. CASE AddQueue(i)
    BY <2>1 DEF IInv, AddQueue, At, Set, Types, ListTypes
  <2>2. CASE AddCount(i) \/ AddTest(i) \/ AddRefuse(i) \/ AddRefuseSignal(i)
    BY <2>2 DEF IInv, AddCount, AddTest, At, AddRefuse, Uncount, LastOutstanding,
       AddRefuseSignal, SignalNoOutstanding, Types, ListTypes
  <2>. QED
    BY <1>2, <2>1, <2>2 DEF AddIrp
<1>3. ASSUME NEW i \in Irps, Work(i) PROVE ListTypes'
  BY <1>3, WorkFrame DEF IInv, Types, ListTypes
<1>4. CASE Main
  <2>1. CASE MainPop
    BY <2>1, HeadTail DEF IInv, MainPop, Types, ListTypes
  <2>2. CASE MainPush
    BY <2>2 DEF IInv, MainPush, Set, Types, ListTypes, MainType, Piece
  <2>3. CASE MainEmpty \/ MainWait \/ MainTestSuspended \/ MainHeld \/ MainGetItem
             \/ MainWaitPool \/ MainRefuse \/ MainFail \/ MainRead \/ MainReadDone
             \/ MainUncount \/ MainSignal \/ MainFreeItem \/ MainAccept \/ MainFragment
             \/ MainGetRequest \/ MainAcquire
    BY <2>3 DEF IInv, MainEmpty, MainAt, MainWait, Wait, MainTestSuspended, MainHeld,
       MainGetItem, MainWaitPool, MainRefuse, Complete, Refused, MainFail, MainRead,
       MainReadDone, MainUncount, Uncount, LastOutstanding, MainSignal, SignalNoOutstanding,
       MainFreeItem, Set, MainAccept, MainFragment, MainGetRequest, MainAcquire, Encrypt,
       Types, ListTypes
  <2>. QED
    BY <1>4, <2>1, <2>2, <2>3 DEF Main
<1>5. CASE Io
  <2>1. CASE IoPop
    BY <2>1, HeadTail DEF IInv, IoPop, Types, ListTypes
  <2>2. CASE IoDeliver
    BY <2>2 DEF IInv, IoDeliver, Set, Current, Types, ListTypes, IoType
  <2>3. CASE IoWait \/ IoEmpty \/ IoSkip \/ IoFail \/ IoWrite \/ IoRead \/ IoWritten
             \/ IoReadDone \/ IoReadAhead \/ IoUncount \/ IoSignal \/ IoFreeRequest
             \/ IoTakeWorkItem \/ IoHand
    BY <2>3 DEF IInv, IoWait, IoAt, Wait, IoEmpty, IoSkip, Current, IoFail, IoWrite, IoRead,
       IoWritten, Set, IoReadDone, Received, ReadsAhead, IoReadAhead, IoUncount, Uncount,
       LastOutstanding, IoSignal, SignalNoOutstanding, IoFreeRequest, IoTakeWorkItem,
       TakeWorkItem, IoHand, Hand, Types, ListTypes
  <2>. QED
    BY <1>5, <2>1, <2>2, <2>3 DEF Io
<1>6. CASE Completion
  <2>1. CASE CompletionPop
    BY <2>1, HeadTail DEF IInv, CompletionPop, Types, ListTypes
  <2>2. CASE CompletionWait \/ CompletionEmpty \/ CompletionDecrypt \/ CompletionTakeWorkItem
             \/ CompletionHand \/ CompletionFreeRequest
    BY <2>2 DEF IInv, CompletionWait, CompletionAt, Wait, CompletionEmpty, CompletionDecrypt,
       Finishing, CompletionTakeWorkItem, TakeWorkItem, CompletionHand, Hand,
       CompletionFreeRequest, Set, Types, ListTypes
  <2>. QED
    BY <1>6, <2>1, <2>2 DEF Completion
<1>7. CASE Hold
  BY <1>7, HoldFrame DEF IInv, Types, ListTypes
<1>8. CASE Stop
  BY <1>8, StopFrame DEF IInv, Types, ListTypes
<1>. QED
  BY <1>1, <1>2, <1>3, <1>4, <1>5, <1>6, <1>7, <1>8 DEF Next

\* The main thread's locals keep their types: it cuts no sector outside of the device.
LEMMA MainTypeStep == ASSUME IInv, [Next]_vars PROVE MainType'
<1>1. CASE UNCHANGED vars
  BY <1>1, QueueAssumption DEF IInv, vars, Types, MainType, MainSteps
<1>2. ASSUME NEW i \in Irps, AddIrp(i) PROVE MainType'
  BY <1>2, AddFrame, QueueAssumption DEF IInv, Types, MainType, MainSteps
<1>3. ASSUME NEW i \in Irps, Work(i) PROVE MainType'
  BY <1>3, WorkFrame, QueueAssumption DEF IInv, Types, MainType, MainSteps
<1>4. CASE Main
  <2>1. CASE MainEmpty
    BY <2>1, QueueAssumption DEF IInv, MainEmpty, MainAt, Types, MainType, MainSteps
  <2>2. CASE MainWait
    BY <2>2, QueueAssumption DEF IInv, MainWait, MainAt, Wait, Types, MainType, MainSteps
  <2>3. CASE MainPop
    BY <2>3, QueueAssumption, HeadTail DEF IInv, MainPop, Types, MainType, MainSteps, ListTypes
  <2>4. CASE MainTestSuspended
    BY <2>4, QueueAssumption DEF IInv, MainTestSuspended, MainAt, Types, MainType, MainSteps
  <2>5. CASE MainHeld
    BY <2>5, QueueAssumption DEF IInv, MainHeld, MainAt, Wait, Types, MainType, MainSteps
  <2>6. CASE MainGetItem
    BY <2>6, QueueAssumption DEF IInv, MainGetItem, MainAt, Types, MainType, MainSteps
  <2>7. CASE MainWaitPool
    BY <2>7, QueueAssumption DEF IInv, MainWaitPool, MainAt, Wait, Types, MainType, MainSteps
  <2>8. CASE MainRefuse
    BY <2>8, QueueAssumption DEF IInv, MainRefuse, MainAt, Complete, Refused, Types, MainType,
       MainSteps
  <2>9. CASE MainFail
    BY <2>9, QueueAssumption DEF IInv, MainFail, MainAt, Complete, Types, MainType, MainSteps
  <2>10. CASE MainRead
    BY <2>10, QueueAssumption DEF IInv, MainRead, MainAt, Types, MainType, MainSteps
  <2>11. CASE MainReadDone
    BY <2>11, QueueAssumption DEF IInv, MainReadDone, MainAt, Complete, Types, MainType,
       MainSteps
  <2>12. CASE MainUncount
    BY <2>12, QueueAssumption DEF IInv, MainUncount, MainAt, Uncount, LastOutstanding, Types,
       MainType, MainSteps
  <2>13. CASE MainSignal
    BY <2>13, QueueAssumption DEF IInv, MainSignal, MainAt, SignalNoOutstanding, Types,
       MainType, MainSteps
  <2>14. CASE MainFreeItem
    BY <2>14, QueueAssumption DEF IInv, MainFreeItem, MainAt, Set, Types, MainType, MainSteps
  <2>15. CASE MainAccept
    BY <2>15, QueueAssumption, OpType DEF IInv, MainAccept, Refused, Types, MainType, MainSteps
  <2>16. CASE MainFragment
    BY <2>16, QueueAssumption DEF IInv, MainFragment, Types, MainType, MainSteps, Other,
       Buffers
  <2>17. CASE MainGetRequest
    BY <2>17, QueueAssumption DEF IInv, MainGetRequest, Types, MainType, MainSteps,
       InEncryptedArea
  <2>18. CASE MainAcquire
    BY <2>18, QueueAssumption DEF IInv, MainAcquire, MainAt, Wait, Encrypt, Types, MainType,
       MainSteps
  <2>19. CASE MainPush
    <3>1. main.pc = "push" /\ irp[main.irp].op.last \in Sectors /\ main.sector \in SectorsOf(main.irp)
      BY <2>19, OpType DEF IInv, Types, MainType, MainPush, MainHas, Cutting
    <3>2. main.sector # irp[main.irp].op.last => main.sector + 1 \in Sectors
      BY <3>1, QueueAssumption DEF SectorsOf, Sectors, IInv, Types, MainType
    <3>. QED
      BY <2>19, <3>1, <3>2 DEF IInv, Types, MainType, MainPush, MainSteps
  <2>. QED
    BY <1>4, <2>1, <2>2, <2>3, <2>4, <2>5, <2>6, <2>7, <2>8, <2>9, <2>10, <2>11, <2>12, <2>13,
       <2>14, <2>15, <2>16, <2>17, <2>18, <2>19 DEF Main
<1>5. CASE Io
  BY <1>5, IoFrame, QueueAssumption DEF IInv, Types, MainType, MainSteps
<1>6. CASE Completion
  BY <1>6, CompletionFrame, QueueAssumption DEF IInv, Types, MainType, MainSteps
<1>7. CASE Hold
  BY <1>7, HoldFrame, QueueAssumption DEF IInv, Types, MainType, MainSteps
<1>8. CASE Stop
  BY <1>8, StopFrame, QueueAssumption DEF IInv, Types, MainType, MainSteps
<1>. QED
  BY <1>1, <1>2, <1>3, <1>4, <1>5, <1>6, <1>7, <1>8 DEF Next

\* The I/O thread has a fragment it has taken from its list.
LEMMA IoTypeStep == ASSUME IInv, [Next]_vars PROVE IoType'
<1>1. CASE UNCHANGED vars
  BY <1>1 DEF IInv, vars, Types, IoType, IoSteps
<1>2. ASSUME NEW i \in Irps, AddIrp(i) PROVE IoType'
  BY <1>2, AddFrame DEF IInv, Types, IoType, IoSteps
<1>3. ASSUME NEW i \in Irps, Work(i) PROVE IoType'
  BY <1>3, WorkFrame DEF IInv, Types, IoType, IoSteps
<1>4. CASE Main
  BY <1>4, MainFrame DEF IInv, Types, IoType, IoSteps
<1>5. CASE Io
  <2>1. CASE IoWait
    BY <2>1 DEF IInv, IoWait, IoAt, Wait, Types, IoType, IoSteps
  <2>2. CASE IoEmpty
    BY <2>2 DEF IInv, IoEmpty, IoAt, Types, IoType, IoSteps
  <2>3. CASE IoPop
    BY <2>3, HeadTail DEF IInv, IoPop, Types, IoType, IoSteps, ListTypes
  <2>4. CASE IoSkip
    BY <2>4 DEF IInv, IoSkip, IoAt, Current, Types, IoType, IoSteps
  <2>5. CASE IoFail
    BY <2>5 DEF IInv, IoFail, IoAt, Current, Types, IoType, IoSteps
  <2>6. CASE IoWrite
    BY <2>6 DEF IInv, IoWrite, IoAt, Current, Types, IoType, IoSteps
  <2>7. CASE IoRead
    BY <2>7 DEF IInv, IoRead, IoAt, Current, Types, IoType, IoSteps
  <2>8. CASE IoWritten
    BY <2>8 DEF IInv, IoWritten, IoAt, Set, Current, Types, IoType, IoSteps
  <2>9. CASE IoReadDone
    BY <2>9 DEF IInv, IoReadDone, Set, Current, Received, ReadsAhead, Types, IoType, IoSteps
  <2>10. CASE IoDeliver
    BY <2>10 DEF IInv, IoDeliver, Set, Current, Types, IoType, IoSteps
  <2>11. CASE IoReadAhead
    BY <2>11 DEF IInv, IoReadAhead, IoAt, Types, IoType, IoSteps
  <2>12. CASE IoUncount
    BY <2>12 DEF IInv, IoUncount, IoAt, Uncount, LastOutstanding, Types, IoType, IoSteps
  <2>13. CASE IoSignal
    BY <2>13 DEF IInv, IoSignal, IoAt, SignalNoOutstanding, Types, IoType, IoSteps
  <2>14. CASE IoFreeRequest
    BY <2>14 DEF IInv, IoFreeRequest, IoAt, Set, Types, IoType, IoSteps
  <2>15. CASE IoTakeWorkItem
    BY <2>15 DEF IInv, IoTakeWorkItem, IoAt, TakeWorkItem, Types, IoType, IoSteps
  <2>16. CASE IoHand
    BY <2>16 DEF IInv, IoHand, IoAt, Hand, Current, Types, IoType, IoSteps
  <2>. QED
    BY <1>5, <2>1, <2>2, <2>3, <2>4, <2>5, <2>6, <2>7, <2>8, <2>9, <2>10, <2>11, <2>12, <2>13,
       <2>14, <2>15, <2>16 DEF Io
<1>6. CASE Completion
  BY <1>6, CompletionFrame DEF IInv, Types, IoType, IoSteps
<1>7. CASE Hold
  BY <1>7, HoldFrame DEF IInv, Types, IoType, IoSteps
<1>8. CASE Stop
  BY <1>8, StopFrame DEF IInv, Types, IoType, IoSteps
<1>. QED
  BY <1>1, <1>2, <1>3, <1>4, <1>5, <1>6, <1>7, <1>8 DEF Next

\* The completion thread has a fragment it has taken from its list.
LEMMA CompletionTypeStep == ASSUME IInv, [Next]_vars PROVE CompletionType'
<1>1. CASE UNCHANGED vars
  BY <1>1 DEF IInv, vars, Types, CompletionType, CompletionSteps
<1>2. ASSUME NEW i \in Irps, AddIrp(i) PROVE CompletionType'
  BY <1>2, AddFrame DEF IInv, Types, CompletionType, CompletionSteps
<1>3. ASSUME NEW i \in Irps, Work(i) PROVE CompletionType'
  BY <1>3, WorkFrame DEF IInv, Types, CompletionType, CompletionSteps
<1>4. CASE Main
  BY <1>4, MainFrame DEF IInv, Types, CompletionType, CompletionSteps
<1>5. CASE Io
  BY <1>5, IoFrame DEF IInv, Types, CompletionType, CompletionSteps
<1>6. CASE Completion
  <2>1. CASE CompletionWait
    BY <2>1 DEF IInv, CompletionWait, CompletionAt, Wait, Types, CompletionType,
       CompletionSteps
  <2>2. CASE CompletionEmpty
    BY <2>2 DEF IInv, CompletionEmpty, CompletionAt, Types, CompletionType, CompletionSteps
  <2>3. CASE CompletionPop
    BY <2>3, HeadTail DEF IInv, CompletionPop, Types, CompletionType, CompletionSteps,
       ListTypes
  <2>4. CASE CompletionDecrypt
    BY <2>4 DEF IInv, CompletionDecrypt, CompletionAt, Finishing, Types, CompletionType,
       CompletionSteps
  <2>5. CASE CompletionTakeWorkItem
    BY <2>5 DEF IInv, CompletionTakeWorkItem, CompletionAt, TakeWorkItem, Types,
       CompletionType, CompletionSteps
  <2>6. CASE CompletionHand
    BY <2>6 DEF IInv, CompletionHand, CompletionAt, Hand, Finishing, Types, CompletionType,
       CompletionSteps
  <2>7. CASE CompletionFreeRequest
    BY <2>7 DEF IInv, CompletionFreeRequest, CompletionAt, Set, Types, CompletionType,
       CompletionSteps
  <2>. QED
    BY <1>6, <2>1, <2>2, <2>3, <2>4, <2>5, <2>6, <2>7 DEF Completion
<1>7. CASE Hold
  BY <1>7, HoldFrame DEF IInv, Types, CompletionType, CompletionSteps
<1>8. CASE Stop
  BY <1>8, StopFrame DEF IInv, Types, CompletionType, CompletionSteps
<1>. QED
  BY <1>1, <1>2, <1>3, <1>4, <1>5, <1>6, <1>7, <1>8 DEF Next

\* A holder and Stop are at one of their steps.
LEMMA CallerTypesStep == ASSUME IInv, [Next]_vars PROVE CallerTypes'
<1>1. CASE UNCHANGED vars
  BY <1>1 DEF IInv, vars, Types, CallerTypes, HoldSteps, StopSteps
<1>2. ASSUME NEW i \in Irps, AddIrp(i) PROVE CallerTypes'
  BY <1>2, AddFrame DEF IInv, Types, CallerTypes, HoldSteps, StopSteps
<1>3. ASSUME NEW i \in Irps, Work(i) PROVE CallerTypes'
  BY <1>3, WorkFrame DEF IInv, Types, CallerTypes, HoldSteps, StopSteps
<1>4. CASE Main
  BY <1>4, MainFrame DEF IInv, Types, CallerTypes, HoldSteps, StopSteps
<1>5. CASE Io
  BY <1>5, IoFrame DEF IInv, Types, CallerTypes, HoldSteps, StopSteps
<1>6. CASE Completion
  BY <1>6, CompletionFrame DEF IInv, Types, CallerTypes, HoldSteps, StopSteps
<1>7. CASE Hold
  BY <1>7 DEF IInv, Hold, HoldBegin, HoldTest, HoldAt, HoldWait, Wait, HoldFail, HoldIdle,
     HoldClear, HoldSuspend, HoldConfirm, HoldUndo, HoldUndone, Set, HoldDone, SetupWrite,
     SetupMoveEnd, Resume, ResumeSignal, Types, CallerTypes, HoldSteps, StopSteps
<1>8. CASE Stop
  BY <1>8 DEF IInv, Stop, StopBegin, StopAt, StopTest, StopWait, Wait, StopExit, Set, StopJoin,
     StopDrain, StopFree, Types, CallerTypes, HoldSteps, StopSteps
<1>. QED
  BY <1>1, <1>2, <1>3, <1>4, <1>5, <1>6, <1>7, <1>8 DEF Next

\* A request keeps an operation of Ops and is at one of its places.
LEMMA IrpTypeStep == ASSUME IInv, [Next]_vars PROVE IrpType'
<1>1. CASE UNCHANGED vars
  BY <1>1 DEF IInv, vars, Types, IrpType, Places, AtAccepted, Working
<1>2. ASSUME NEW i \in Irps, AddIrp(i) PROVE IrpType'
  <2>1. CASE AddCount(i)
    BY <2>1 DEF IInv, AddCount, Types, IrpType, Places, AtAccepted, Working
  <2>2. CASE AddTest(i)
    BY <2>2 DEF IInv, AddTest, At, Types, IrpType, Places, AtAccepted, Working
  <2>3. CASE AddQueue(i)
    BY <2>3 DEF IInv, AddQueue, At, Set, Types, IrpType, Places, AtAccepted, Working
  <2>4. CASE AddRefuse(i)
    BY <2>4 DEF IInv, AddRefuse, At, Uncount, LastOutstanding, Types, IrpType, Places,
       AtAccepted, Working
  <2>5. CASE AddRefuseSignal(i)
    BY <2>5 DEF IInv, AddRefuseSignal, At, SignalNoOutstanding, Types, IrpType, Places,
       AtAccepted, Working
  <2>. QED
    BY <1>2, <2>1, <2>2, <2>3, <2>4, <2>5 DEF AddIrp
<1>3. ASSUME NEW i \in Irps, Work(i) PROVE IrpType'
  <2>1. CASE WorkComplete(i)
    BY <2>1 DEF IInv, WorkComplete, Types, IrpType, Places, AtAccepted, Working
  <2>2. CASE WorkUncount(i)
    BY <2>2 DEF IInv, WorkUncount, At, Uncount, LastOutstanding, Types, IrpType, Places,
       AtAccepted, Working
  <2>3. CASE WorkSignal(i)
    BY <2>3 DEF IInv, WorkSignal, At, SignalNoOutstanding, Types, IrpType, Places, AtAccepted,
       Working
  <2>4. CASE WorkInactive(i)
    BY <2>4 DEF IInv, WorkInactive, At, Types, IrpType, Places, AtAccepted, Working
  <2>5. CASE WorkSignalInactive(i)
    BY <2>5 DEF IInv, WorkSignalInactive, At, Set, Types, IrpType, Places, AtAccepted, Working
  <2>6. CASE WorkReturn(i)
    BY <2>6 DEF IInv, WorkReturn, At, Types, IrpType, Places, AtAccepted, Working
  <2>7. CASE WorkFreeItem(i)
    BY <2>7 DEF IInv, WorkFreeItem, At, Set, Types, IrpType, Places, AtAccepted, Working
  <2>. QED
    BY <1>3, <2>1, <2>2, <2>3, <2>4, <2>5, <2>6, <2>7 DEF Work
<1>4. CASE Main
  <2>1. CASE MainRefuse
    BY <2>1 DEF IInv, MainRefuse, MainAt, Complete, Refused, Types, IrpType, Places,
       AtAccepted, Working
  <2>2. CASE MainFail
    BY <2>2 DEF IInv, MainFail, MainAt, Complete, Types, IrpType, Places, AtAccepted, Working
  <2>3. CASE MainReadDone
    BY <2>3 DEF IInv, MainReadDone, MainAt, Complete, Types, IrpType, Places, AtAccepted,
       Working
  <2>4. CASE MainFreeItem
    BY <2>4 DEF IInv, MainFreeItem, MainAt, Set, Types, IrpType, Places, AtAccepted, Working
  <2>5. CASE MainEmpty \/ MainWait \/ MainPop \/ MainTestSuspended \/ MainHeld \/ MainGetItem
             \/ MainWaitPool \/ MainRead \/ MainUncount \/ MainSignal \/ MainAccept
             \/ MainFragment \/ MainGetRequest \/ MainAcquire \/ MainPush
    BY <2>5 DEF IInv, MainEmpty, MainAt, MainWait, Wait, MainPop, MainTestSuspended, MainHeld,
       MainGetItem, MainWaitPool, MainRead, MainUncount, Uncount, LastOutstanding, MainSignal,
       SignalNoOutstanding, MainAccept, Refused, MainFragment, MainGetRequest, MainAcquire,
       Encrypt, MainPush, Set, Types, IrpType, Places, AtAccepted, Working
  <2>. QED
    BY <1>4, <2>1, <2>2, <2>3, <2>4, <2>5 DEF Main
<1>5. CASE Io
  <2>1. CASE IoFail
    BY <2>1 DEF IInv, IoFail, IoAt, Current, Types, IrpType, Places, AtAccepted, Working
  <2>2. CASE IoHand
    BY <2>2 DEF IInv, IoHand, IoAt, Hand, Current, Types, IrpType, Places, AtAccepted, Working
  <2>3. CASE IoWait \/ IoEmpty \/ IoPop \/ IoSkip \/ IoWrite \/ IoRead \/ IoWritten
             \/ IoReadDone \/ IoDeliver \/ IoReadAhead \/ IoUncount \/ IoSignal \/ IoFreeRequest
             \/ IoTakeWorkItem
    BY <2>3 DEF IInv, IoWait, IoAt, Wait, IoEmpty, IoPop, IoSkip, Current, IoWrite, IoRead,
       IoWritten, Set, IoReadDone, Received, ReadsAhead, IoDeliver, IoReadAhead, IoUncount,
       Uncount, LastOutstanding, IoSignal, SignalNoOutstanding, IoFreeRequest, IoTakeWorkItem,
       TakeWorkItem, Types, IrpType, Places, AtAccepted, Working
  <2>. QED
    BY <1>5, <2>1, <2>2, <2>3 DEF Io
<1>6. CASE Completion
  <2>1. CASE CompletionHand
    BY <2>1 DEF IInv, CompletionHand, CompletionAt, Hand, Finishing, Types, IrpType, Places,
       AtAccepted, Working
  <2>2. CASE CompletionWait \/ CompletionEmpty \/ CompletionPop \/ CompletionDecrypt
             \/ CompletionTakeWorkItem \/ CompletionFreeRequest
    BY <2>2 DEF IInv, CompletionWait, CompletionAt, Wait, CompletionEmpty, CompletionPop,
       CompletionDecrypt, Finishing, CompletionTakeWorkItem, TakeWorkItem,
       CompletionFreeRequest, Set, Types, IrpType, Places, AtAccepted, Working
  <2>. QED
    BY <1>6, <2>1, <2>2 DEF Completion
<1>7. CASE Hold
  BY <1>7, HoldFrame DEF IInv, Types, IrpType, Places, AtAccepted, Working
<1>8. CASE Stop
  BY <1>8, StopFrame DEF IInv, Types, IrpType, Places, AtAccepted, Working
<1>. QED
  BY <1>1, <1>2, <1>3, <1>4, <1>5, <1>6, <1>7, <1>8 DEF Next

\* The device, EncryptedAreaEnd and the read-ahead stay within the sectors.
LEMMA DeviceTypesStep == ASSUME IInv, [Next]_vars PROVE DeviceTypes'
<1>1. CASE UNCHANGED vars
  BY <1>1, QueueAssumption DEF IInv, vars, Types, DeviceTypes
<1>2. ASSUME NEW i \in Irps, AddIrp(i) PROVE DeviceTypes'
  BY <1>2, AddFrame, QueueAssumption DEF IInv, Types, DeviceTypes
<1>3. ASSUME NEW i \in Irps, Work(i) PROVE DeviceTypes'
  BY <1>3, WorkFrame, QueueAssumption DEF IInv, Types, DeviceTypes
<1>4. CASE Main
  BY <1>4, MainFrame, QueueAssumption DEF IInv, Types, DeviceTypes
<1>5. CASE Io
  <2>1. CASE IoWrite
    BY <2>1, QueueAssumption DEF IInv, IoWrite, IoAt, Current, Types, DeviceTypes, IoType,
       Piece, DataTypes
  <2>2. CASE IoRead
    BY <2>2, QueueAssumption DEF IInv, IoRead, IoAt, Current, Types, DeviceTypes, IoType, Piece
  <2>3. CASE IoWritten
    BY <2>3, QueueAssumption DEF IInv, IoWritten, IoAt, Set, Current, Types, DeviceTypes,
       NoReadAhead, Blank, Content, Sectors
  <2>4. CASE IoReadAhead
    BY <2>4, QueueAssumption, ReadAheadType DEF IInv, IoReadAhead, IoAt, Types, DeviceTypes
  <2>5. CASE IoWait \/ IoEmpty \/ IoPop \/ IoSkip \/ IoFail \/ IoReadDone \/ IoDeliver
             \/ IoUncount \/ IoSignal \/ IoFreeRequest \/ IoTakeWorkItem \/ IoHand
    BY <2>5, QueueAssumption DEF IInv, IoWait, IoAt, Wait, IoEmpty, IoPop, IoSkip, Current,
       IoFail, IoReadDone, Set, Received, ReadsAhead, IoDeliver, IoUncount, Uncount,
       LastOutstanding, IoSignal, SignalNoOutstanding, IoFreeRequest, IoTakeWorkItem,
       TakeWorkItem, IoHand, Hand, Types, DeviceTypes
  <2>. QED
    BY <1>5, <2>1, <2>2, <2>3, <2>4, <2>5 DEF Io
<1>6. CASE Completion
  BY <1>6, CompletionFrame, QueueAssumption DEF IInv, Types, DeviceTypes
<1>7. CASE Hold
  <2>1. CASE HoldDone
    BY <2>1, QueueAssumption DEF IInv, HoldDone, HoldAt, Types, DeviceTypes, NoReadAhead,
       Blank, Content, Sectors
  <2>2. CASE SetupWrite
    <3>1. PICK s \in Int : disk' = [disk EXCEPT ![s] = Decrypted(@)] /\ (s \in Sectors)
      BY <2>2, QueueAssumption DEF SetupWrite, HoldAt, IInv, Types, DeviceTypes, Sectors
    <3>2. disk[s] \in Content /\ Decrypted(disk[s]) \in Content
      BY <3>1, DecryptedType DEF IInv, Types, DeviceTypes
    <3>. QED
      BY <2>2, <3>1, <3>2 DEF IInv, Types, DeviceTypes, SetupWrite
  <2>3. CASE SetupMoveEnd
    BY <2>3, QueueAssumption DEF IInv, SetupMoveEnd, HoldAt, Types, DeviceTypes, Encrypting
  <2>4. CASE HoldBegin \/ HoldTest \/ HoldWait \/ HoldFail \/ HoldIdle \/ HoldClear
             \/ HoldSuspend \/ HoldConfirm \/ HoldUndo \/ HoldUndone \/ Resume \/ ResumeSignal
    BY <2>4, QueueAssumption DEF IInv, HoldBegin, HoldTest, HoldAt, HoldWait, Wait, HoldFail,
       HoldIdle, HoldClear, HoldSuspend, HoldConfirm, HoldUndo, HoldUndone, Set, Resume,
       ResumeSignal, Types, DeviceTypes
  <2>. QED
    BY <1>7, <2>1, <2>2, <2>3, <2>4 DEF Hold
<1>8. CASE Stop
  BY <1>8, StopFrame, QueueAssumption DEF IInv, Types, DeviceTypes
<1>. QED
  BY <1>1, <1>2, <1>3, <1>4, <1>5, <1>6, <1>7, <1>8 DEF Next

\* Buffers hold the contents of sectors; the log holds events.
LEMMA DataTypesStep == ASSUME IInv, [Next]_vars PROVE DataTypes'
<1>1. CASE UNCHANGED vars
  BY <1>1 DEF IInv, vars, Types, DataTypes
<1>2. ASSUME NEW i \in Irps, AddIrp(i) PROVE DataTypes'
  <2>1. CASE AddQueue(i)
    BY <2>1 DEF IInv, AddQueue, At, Set, Types, DataTypes
  <2>2. CASE AddCount(i) \/ AddTest(i) \/ AddRefuse(i) \/ AddRefuseSignal(i)
    BY <2>2 DEF IInv, AddCount, AddTest, At, AddRefuse, Uncount, LastOutstanding,
       AddRefuseSignal, SignalNoOutstanding, Types, DataTypes
  <2>. QED
    BY <1>2, <2>1, <2>2 DEF AddIrp
<1>3. ASSUME NEW i \in Irps, Work(i) PROVE DataTypes'
  <2>1. CASE WorkComplete(i)
    BY <2>1 DEF IInv, WorkComplete, Types, DataTypes
  <2>2. CASE WorkUncount(i) \/ WorkSignal(i) \/ WorkInactive(i) \/ WorkSignalInactive(i)
             \/ WorkReturn(i) \/ WorkFreeItem(i)
    BY <2>2 DEF IInv, WorkUncount, At, Uncount, LastOutstanding, WorkSignal,
       SignalNoOutstanding, WorkInactive, WorkSignalInactive, Set, WorkReturn, WorkFreeItem,
       Types, DataTypes
  <2>. QED
    BY <1>3, <2>1, <2>2 DEF Work
<1>4. CASE Main
  <2>1. CASE MainRefuse
    BY <2>1 DEF IInv, MainRefuse, MainAt, Complete, Refused, Types, DataTypes, MainType
  <2>2. CASE MainFail
    BY <2>2 DEF IInv, MainFail, MainAt, Complete, Types, DataTypes, MainType
  <2>3. CASE MainRead
    BY <2>3 DEF IInv, MainRead, MainAt, Types, DataTypes, DeviceTypes
  <2>4. CASE MainReadDone
    BY <2>4, DecryptedType DEF IInv, MainReadDone, MainAt, Complete, Types, DataTypes, MainType
  <2>5. CASE MainAcquire
    BY <2>5 DEF IInv, MainAcquire, MainAt, Wait, Encrypt, Types, DataTypes, MainType, Content
  <2>6. CASE MainEmpty \/ MainWait \/ MainPop \/ MainTestSuspended \/ MainHeld \/ MainGetItem
             \/ MainWaitPool \/ MainUncount \/ MainSignal \/ MainFreeItem \/ MainAccept
             \/ MainFragment \/ MainGetRequest \/ MainPush
    BY <2>6 DEF IInv, MainEmpty, MainAt, MainWait, Wait, MainPop, MainTestSuspended, MainHeld,
       MainGetItem, MainWaitPool, MainUncount, Uncount, LastOutstanding, MainSignal,
       SignalNoOutstanding, MainFreeItem, Set, MainAccept, Refused, MainFragment,
       MainGetRequest, MainPush, Types, DataTypes
  <2>. QED
    BY <1>4, <2>1, <2>2, <2>3, <2>4, <2>5, <2>6 DEF Main
<1>5. CASE Io
  <2>1. CASE IoRead
    BY <2>1 DEF IInv, IoRead, IoAt, Current, Types, DataTypes, DeviceTypes, IoType, Piece
  <2>2. CASE IoReadDone
    BY <2>2 DEF IInv, IoReadDone, Set, Current, Received, ReadsAhead, Types, DataTypes, IoType,
       Piece
  <2>3. CASE IoWait \/ IoEmpty \/ IoPop \/ IoSkip \/ IoFail \/ IoWrite \/ IoWritten \/ IoDeliver
             \/ IoReadAhead \/ IoUncount \/ IoSignal \/ IoFreeRequest \/ IoTakeWorkItem
             \/ IoHand
    BY <2>3 DEF IInv, IoWait, IoAt, Wait, IoEmpty, IoPop, IoSkip, Current, IoFail, IoWrite,
       IoWritten, Set, IoDeliver, IoReadAhead, IoUncount, Uncount, LastOutstanding, IoSignal,
       SignalNoOutstanding, IoFreeRequest, IoTakeWorkItem, TakeWorkItem, IoHand, Hand, Types,
       DataTypes
  <2>. QED
    BY <1>5, <2>1, <2>2, <2>3 DEF Io
<1>6. CASE Completion
  <2>1. CASE CompletionDecrypt
    BY <2>1, DecryptedType DEF IInv, CompletionDecrypt, CompletionAt, Finishing, Types,
       DataTypes, CompletionType, Piece
  <2>2. CASE CompletionWait \/ CompletionEmpty \/ CompletionPop \/ CompletionTakeWorkItem
             \/ CompletionHand \/ CompletionFreeRequest
    BY <2>2 DEF IInv, CompletionWait, CompletionAt, Wait, CompletionEmpty, CompletionPop,
       CompletionTakeWorkItem, TakeWorkItem, CompletionHand, Hand, Finishing,
       CompletionFreeRequest, Set, Types, DataTypes
  <2>. QED
    BY <1>6, <2>1, <2>2 DEF Completion
<1>7. CASE Hold
  BY <1>7, HoldFrame DEF IInv, Types, DataTypes
<1>8. CASE Stop
  BY <1>8, StopFrame DEF IInv, Types, DataTypes
<1>. QED
  BY <1>1, <1>2, <1>3, <1>4, <1>5, <1>6, <1>7, <1>8 DEF Next
\* A request is given its operation once; only a drive's queue is held.
LEMMA RequestedStep == ASSUME IInv, [Next]_vars PROVE Requested'
<1>1. CASE UNCHANGED vars
  BY <1>1 DEF IInv, vars, Types, IrpType, Requested
<1>2. ASSUME NEW i \in Irps, AddIrp(i) PROVE Requested'
  <2>1. CASE AddCount(i)
    BY <2>1 DEF IInv, AddCount, Types, IrpType, Requested
  <2>2. CASE AddTest(i)
    BY <2>2 DEF IInv, AddTest, At, Types, IrpType, Requested
  <2>3. CASE AddQueue(i)
    BY <2>3 DEF IInv, AddQueue, At, Set, Types, IrpType, Requested
  <2>4. CASE AddRefuse(i)
    BY <2>4 DEF IInv, AddRefuse, At, Uncount, LastOutstanding, Types, IrpType, Requested
  <2>5. CASE AddRefuseSignal(i)
    BY <2>5 DEF IInv, AddRefuseSignal, At, SignalNoOutstanding, Types, IrpType, Requested
  <2>. QED
    BY <1>2, <2>1, <2>2, <2>3, <2>4, <2>5 DEF AddIrp
<1>3. ASSUME NEW i \in Irps, Work(i) PROVE Requested'
  <2>1. CASE WorkComplete(i)
    BY <2>1 DEF IInv, WorkComplete, Types, IrpType, Requested
  <2>2. CASE WorkUncount(i)
    BY <2>2 DEF IInv, WorkUncount, At, Uncount, LastOutstanding, Types, IrpType, Requested
  <2>3. CASE WorkSignal(i)
    BY <2>3 DEF IInv, WorkSignal, At, SignalNoOutstanding, Types, IrpType, Requested
  <2>4. CASE WorkInactive(i)
    BY <2>4 DEF IInv, WorkInactive, At, Types, IrpType, Requested
  <2>5. CASE WorkSignalInactive(i)
    BY <2>5 DEF IInv, WorkSignalInactive, At, Set, Types, IrpType, Requested
  <2>6. CASE WorkReturn(i)
    BY <2>6 DEF IInv, WorkReturn, At, Types, IrpType, Requested
  <2>7. CASE WorkFreeItem(i)
    BY <2>7 DEF IInv, WorkFreeItem, At, Set, Types, IrpType, Requested
  <2>. QED
    BY <1>3, <2>1, <2>2, <2>3, <2>4, <2>5, <2>6, <2>7 DEF Work
<1>4. CASE Main
  <2>1. CASE MainRefuse
    BY <2>1 DEF IInv, MainRefuse, MainAt, Complete, Refused, Types, IrpType, Requested,
       MainHas, MainType, Popping, Ending
  <2>2. CASE MainFail
    BY <2>2 DEF IInv, MainFail, MainAt, Complete, Types, IrpType, Requested, MainHas, MainType,
       Popping, Ending
  <2>3. CASE MainReadDone
    BY <2>3 DEF IInv, MainReadDone, MainAt, Complete, Types, IrpType, Requested, MainHas,
       MainType, Popping, Ending
  <2>4. CASE MainFreeItem
    BY <2>4 DEF IInv, MainFreeItem, MainAt, Set, Types, IrpType, Requested, MainHas, MainType,
       Popping, Ending
  <2>5. CASE MainEmpty \/ MainWait \/ MainPop \/ MainTestSuspended \/ MainHeld \/ MainGetItem
             \/ MainWaitPool \/ MainRead \/ MainUncount \/ MainSignal \/ MainAccept
             \/ MainFragment \/ MainGetRequest \/ MainAcquire \/ MainPush
    BY <2>5 DEF IInv, MainEmpty, MainAt, MainWait, Wait, MainPop, MainTestSuspended, MainHeld,
       MainGetItem, MainWaitPool, MainRead, MainUncount, Uncount, LastOutstanding, MainSignal,
       SignalNoOutstanding, MainAccept, Refused, MainFragment, MainGetRequest, MainAcquire,
       Encrypt, MainPush, Set, Types, IrpType, Requested
  <2>. QED
    BY <1>4, <2>1, <2>2, <2>3, <2>4, <2>5 DEF Main
<1>5. CASE Io
  <2>1. CASE IoFail
    BY <2>1 DEF IInv, IoFail, IoAt, Current, Types, IrpType, Requested, IoHas, IoBusy, Sound,
       IoType, Piece
  <2>2. CASE IoHand
    BY <2>2 DEF IInv, IoHand, IoAt, Hand, Current, Types, IrpType, Requested, IoHas, IoBusy,
       Sound, IoType, Piece
  <2>3. CASE IoWait \/ IoEmpty \/ IoPop \/ IoSkip \/ IoWrite \/ IoRead \/ IoWritten
             \/ IoReadDone \/ IoDeliver \/ IoReadAhead \/ IoUncount \/ IoSignal \/ IoFreeRequest
             \/ IoTakeWorkItem
    BY <2>3 DEF IInv, IoWait, IoAt, Wait, IoEmpty, IoPop, IoSkip, Current, IoWrite, IoRead,
       IoWritten, Set, IoReadDone, Received, ReadsAhead, IoDeliver, IoReadAhead, IoUncount,
       Uncount, LastOutstanding, IoSignal, SignalNoOutstanding, IoFreeRequest, IoTakeWorkItem,
       TakeWorkItem, Types, IrpType, Requested
  <2>. QED
    BY <1>5, <2>1, <2>2, <2>3 DEF Io
<1>6. CASE Completion
  <2>1. CASE CompletionHand
    BY <2>1 DEF IInv, CompletionHand, CompletionAt, Hand, Finishing, Types, IrpType, Requested,
       CompletionHas, CompletionBusy, Sound, CompletionType, Piece
  <2>2. CASE CompletionWait \/ CompletionEmpty \/ CompletionPop \/ CompletionDecrypt
             \/ CompletionTakeWorkItem \/ CompletionFreeRequest
    BY <2>2 DEF IInv, CompletionWait, CompletionAt, Wait, CompletionEmpty, CompletionPop,
       CompletionDecrypt, Finishing, CompletionTakeWorkItem, TakeWorkItem,
       CompletionFreeRequest, Set, Types, IrpType, Requested
  <2>. QED
    BY <1>6, <2>1, <2>2 DEF Completion
<1>7. CASE Hold
  <2>1. CASE HoldBegin
    BY <2>1, QueueAssumption DEF IInv, HoldBegin, Types, IrpType, Requested, CallerTypes
  <2>2. CASE HoldTest \/ HoldWait \/ HoldFail \/ HoldIdle \/ HoldClear \/ HoldSuspend
             \/ HoldConfirm \/ HoldUndo \/ HoldUndone \/ HoldDone \/ SetupWrite \/ SetupMoveEnd
             \/ Resume \/ ResumeSignal
    BY <2>2 DEF IInv, HoldTest, HoldAt, HoldWait, Wait, HoldFail, HoldIdle, HoldClear,
       HoldSuspend, HoldConfirm, HoldUndo, HoldUndone, Set, HoldDone, SetupWrite, SetupMoveEnd,
       Resume, ResumeSignal, Types, IrpType, Requested
  <2>. QED
    BY <1>7, <2>1, <2>2 DEF Hold
<1>8. CASE Stop
  BY <1>8, StopFrame DEF IInv, Types, IrpType, Requested
<1>. QED
  BY <1>1, <1>2, <1>3, <1>4, <1>5, <1>6, <1>7, <1>8 DEF Next

\* A request is logged when it is accepted and when it is completed, once each.
LEMMA LoggedStep == ASSUME IInv, [Next]_vars PROVE Logged'
<1>1. CASE UNCHANGED vars
  BY <1>1, LoggedStays DEF IInv, vars, Types, IrpType, Places, AtAccepted, AtCompleted, Working
<1>2. ASSUME NEW i \in Irps, AddIrp(i) PROVE Logged'
  <2>1. CASE AddCount(i)
    BY <2>1, LoggedStays DEF IInv, AddCount, Types, IrpType, Places, AtAccepted, AtCompleted,
       Working
  <2>2. CASE AddTest(i)
    BY <2>2, LoggedStays DEF IInv, AddTest, At, Types, IrpType, Places, AtAccepted,
       AtCompleted, Working
  <2>3. CASE AddQueue(i)
    <3>. DEFINE e == <<"accepted", i>>
    <3>2. /\ e \in {"accepted", "completed"} \X Irps /\ log' = Append(log, e) /\ ~Logs(log, e)
          /\ \A j \in Irps :
                 /\ irp'[j].at \in AtAccepted <=> irp[j].at \in AtAccepted \/ e = <<"accepted", j>>
                 /\ irp'[j].at \in AtCompleted <=> irp[j].at \in AtCompleted \/ e = <<"completed", j>>
      BY <2>3 DEF IInv, AddQueue, At, Set, Types, IrpType, Logged, Places, AtAccepted,
         AtCompleted, Working
    <3>. QED
      BY <3>2, LoggedAppend DEF IInv, Types
  <2>4. CASE AddRefuse(i)
    BY <2>4, LoggedStays DEF IInv, AddRefuse, At, Uncount, LastOutstanding, Types, IrpType,
       Places, AtAccepted, AtCompleted, Working
  <2>5. CASE AddRefuseSignal(i)
    BY <2>5, LoggedStays DEF IInv, AddRefuseSignal, At, SignalNoOutstanding, Types, IrpType,
       Places, AtAccepted, AtCompleted, Working
  <2>. QED
    BY <1>2, <2>1, <2>2, <2>3, <2>4, <2>5 DEF AddIrp
<1>3. ASSUME NEW i \in Irps, Work(i) PROVE Logged'
  <2>1. CASE WorkComplete(i)
    <3>. DEFINE e == <<"completed", i>>
    <3>2. /\ e \in {"accepted", "completed"} \X Irps /\ log' = Append(log, e) /\ ~Logs(log, e)
          /\ \A j \in Irps :
                 /\ irp'[j].at \in AtAccepted <=> irp[j].at \in AtAccepted \/ e = <<"accepted", j>>
                 /\ irp'[j].at \in AtCompleted <=> irp[j].at \in AtCompleted \/ e = <<"completed", j>>
      BY <2>1 DEF IInv, WorkComplete, Types, IrpType, Logged, Places, AtAccepted, AtCompleted,
         Working
    <3>. QED
      BY <3>2, LoggedAppend DEF IInv, Types
  <2>2. CASE WorkUncount(i)
    BY <2>2, LoggedStays DEF IInv, WorkUncount, At, Uncount, LastOutstanding, Types, IrpType,
       Places, AtAccepted, AtCompleted, Working
  <2>3. CASE WorkSignal(i)
    BY <2>3, LoggedStays DEF IInv, WorkSignal, At, SignalNoOutstanding, Types, IrpType, Places,
       AtAccepted, AtCompleted, Working
  <2>4. CASE WorkInactive(i)
    BY <2>4, LoggedStays DEF IInv, WorkInactive, At, Types, IrpType, Places, AtAccepted,
       AtCompleted, Working
  <2>5. CASE WorkSignalInactive(i)
    BY <2>5, LoggedStays DEF IInv, WorkSignalInactive, At, Set, Types, IrpType, Places,
       AtAccepted, AtCompleted, Working
  <2>6. CASE WorkReturn(i)
    BY <2>6, LoggedStays DEF IInv, WorkReturn, At, Types, IrpType, Places, AtAccepted,
       AtCompleted, Working
  <2>7. CASE WorkFreeItem(i)
    BY <2>7, LoggedStays DEF IInv, WorkFreeItem, At, Set, Types, IrpType, Places, AtAccepted,
       AtCompleted, Working
  <2>. QED
    BY <1>3, <2>1, <2>2, <2>3, <2>4, <2>5, <2>6, <2>7 DEF Work
<1>4. CASE Main
  <2>1. CASE MainRefuse
    <3>. DEFINE e == <<"completed", main.irp>>
    <3>2. /\ e \in {"accepted", "completed"} \X Irps /\ log' = Append(log, e) /\ ~Logs(log, e)
          /\ \A j \in Irps :
                 /\ irp'[j].at \in AtAccepted <=> irp[j].at \in AtAccepted \/ e = <<"accepted", j>>
                 /\ irp'[j].at \in AtCompleted <=> irp[j].at \in AtCompleted \/ e = <<"completed", j>>
      BY <2>1 DEF IInv, MainRefuse, MainAt, Complete, Refused, Types, IrpType, Logged, Places,
         AtAccepted, AtCompleted, Working, MainHas, MainType, Popping
    <3>. QED
      BY <3>2, LoggedAppend DEF IInv, Types
  <2>2. CASE MainFail
    <3>. DEFINE e == <<"completed", main.irp>>
    <3>2. /\ e \in {"accepted", "completed"} \X Irps /\ log' = Append(log, e) /\ ~Logs(log, e)
          /\ \A j \in Irps :
                 /\ irp'[j].at \in AtAccepted <=> irp[j].at \in AtAccepted \/ e = <<"accepted", j>>
                 /\ irp'[j].at \in AtCompleted <=> irp[j].at \in AtCompleted \/ e = <<"completed", j>>
      BY <2>2 DEF IInv, MainFail, MainAt, Complete, Types, IrpType, Logged, Places, AtAccepted,
         AtCompleted, Working, MainHas, MainType, Popping
    <3>. QED
      BY <3>2, LoggedAppend DEF IInv, Types
  <2>3. CASE MainReadDone
    <3>. DEFINE e == <<"completed", main.irp>>
    <3>2. /\ e \in {"accepted", "completed"} \X Irps /\ log' = Append(log, e) /\ ~Logs(log, e)
          /\ \A j \in Irps :
                 /\ irp'[j].at \in AtAccepted <=> irp[j].at \in AtAccepted \/ e = <<"accepted", j>>
                 /\ irp'[j].at \in AtCompleted <=> irp[j].at \in AtCompleted \/ e = <<"completed", j>>
      BY <2>3 DEF IInv, MainReadDone, MainAt, Complete, Types, IrpType, Logged, Places,
         AtAccepted, AtCompleted, Working, MainHas, MainType, Popping
    <3>. QED
      BY <3>2, LoggedAppend DEF IInv, Types
  <2>4. CASE MainFreeItem
    BY <2>4, LoggedStays DEF IInv, MainFreeItem, MainAt, Set, Types, IrpType, Places,
       AtAccepted, AtCompleted, Working, MainHas, MainType, Ending
  <2>5. CASE MainEmpty \/ MainWait \/ MainPop \/ MainTestSuspended \/ MainHeld \/ MainGetItem
             \/ MainWaitPool \/ MainRead \/ MainUncount \/ MainSignal \/ MainAccept
             \/ MainFragment \/ MainGetRequest \/ MainAcquire \/ MainPush
    BY <2>5, LoggedStays DEF IInv, MainEmpty, MainAt, MainWait, Wait, MainPop,
       MainTestSuspended, MainHeld, MainGetItem, MainWaitPool, MainRead, MainUncount, Uncount,
       LastOutstanding, MainSignal, SignalNoOutstanding, MainAccept, Refused, MainFragment,
       MainGetRequest, MainAcquire, Encrypt, MainPush, Set, Types, IrpType, Places, AtAccepted,
       AtCompleted, Working
  <2>. QED
    BY <1>4, <2>1, <2>2, <2>3, <2>4, <2>5 DEF Main
<1>5. CASE Io
  <2>1. CASE IoFail
    BY <2>1, LoggedStays DEF IInv, IoFail, IoAt, Current, Types, IrpType, Places, AtAccepted,
       AtCompleted, Working, IoType, Piece
  <2>2. CASE IoHand
    BY <2>2, LoggedStays DEF IInv, IoHand, IoAt, Hand, Current, Types, IrpType, Places,
       AtAccepted, AtCompleted, Working, IoHas, IoBusy, Sound, IoType, Piece
  <2>3. CASE IoWait \/ IoEmpty \/ IoPop \/ IoSkip \/ IoWrite \/ IoRead \/ IoWritten
             \/ IoReadDone \/ IoDeliver \/ IoReadAhead \/ IoUncount \/ IoSignal \/ IoFreeRequest
             \/ IoTakeWorkItem
    BY <2>3, LoggedStays DEF IInv, IoWait, IoAt, Wait, IoEmpty, IoPop, IoSkip, Current,
       IoWrite, IoRead, IoWritten, Set, IoReadDone, Received, ReadsAhead, IoDeliver,
       IoReadAhead, IoUncount, Uncount, LastOutstanding, IoSignal, SignalNoOutstanding,
       IoFreeRequest, IoTakeWorkItem, TakeWorkItem, Types, IrpType, Places, AtAccepted,
       AtCompleted, Working
  <2>. QED
    BY <1>5, <2>1, <2>2, <2>3 DEF Io
<1>6. CASE Completion
  <2>1. CASE CompletionHand
    BY <2>1, LoggedStays DEF IInv, CompletionHand, CompletionAt, Hand, Finishing, Types,
       IrpType, Places, AtAccepted, AtCompleted, Working, CompletionHas, CompletionBusy, Sound,
       CompletionType, Piece
  <2>2. CASE CompletionWait \/ CompletionEmpty \/ CompletionPop \/ CompletionDecrypt
             \/ CompletionTakeWorkItem \/ CompletionFreeRequest
    BY <2>2, LoggedStays DEF IInv, CompletionWait, CompletionAt, Wait, CompletionEmpty,
       CompletionPop, CompletionDecrypt, Finishing, CompletionTakeWorkItem, TakeWorkItem,
       CompletionFreeRequest, Set, Types, IrpType, Places, AtAccepted, AtCompleted, Working
  <2>. QED
    BY <1>6, <2>1, <2>2 DEF Completion
<1>7. CASE Hold
  BY <1>7, HoldFrame, LoggedStays DEF IInv, Types, IrpType, Places, AtAccepted, AtCompleted,
     Working
<1>8. CASE Stop
  BY <1>8, StopFrame, LoggedStays DEF IInv, Types, IrpType, Places, AtAccepted, AtCompleted,
     Working
<1>. QED
  BY <1>1, <1>2, <1>3, <1>4, <1>5, <1>6, <1>7, <1>8 DEF Next
-----------------------------------------------------------------------------
(* Requests that stay on the way *)

\* While the last fragment of a request is handed to a work item, no other
\* fragment of it is on the way, and the main thread is done with it.
LEMMA IoHandAlone ==
    ASSUME IInv, io.pc = "hand"
    PROVE  /\ \A r \in InIoQueue \cup InCompletionQueue \cup InCompletion : r.irp # io.request.irp
           /\ Popping \/ Cutting => main.irp # io.request.irp
           /\ \A n \in DOMAIN mainQueue : mainQueue[n] # io.request.irp
<1>1. /\ io.request \in Piece /\ io.request \in Pipe /\ io.request \in InIo
      /\ Sound(irp, io.request) /\ io.request.last /\ Writes(io.request.irp)
  BY DEF IInv, Types, IoType, IoHas, IoBusy, InIo, Pipe
<1>2. ASSUME NEW r \in InIoQueue PROVE r.irp # io.request.irp
  <2>1. Sound(irp, r) /\ Precedes(log, io.request, r)
    BY <1>1, <1>2 DEF IInv, IoHas, Ordered, Order, InIoQueue
  <2>. QED
    BY <1>1, <2>1, LastAlone DEF IInv, Piece
<1>3. ASSUME NEW r \in InCompletionQueue \cup InCompletion PROVE r.irp # io.request.irp
  BY <1>1, <1>3 DEF IInv, CompletionHas, InCompletionQueue, InCompletion
<1>4. Popping => main.irp # io.request.irp
  BY <1>1, SoonerStrict DEF IInv, Entered, Types
<1>5. Cutting => main.irp # io.request.irp
  BY <1>1, OpType, QueueAssumption
     DEF IInv, Entered, Precedes, Types, MainHas, MainType, Piece, Sound, SectorsOf, Sectors
<1>6. \A n \in DOMAIN mainQueue : mainQueue[n] # io.request.irp
  BY <1>1, SoonerStrict DEF IInv, Queued, Types
<1>. QED
  BY <1>2, <1>3, <1>4, <1>5, <1>6

\* The completion thread hands a request on only when nothing else is left of it.
LEMMA CompletionHandAlone ==
    ASSUME IInv, completion.pc = "hand"
    PROVE  /\ \A r \in InIoQueue \cup InCompletionQueue \cup InIo : r.irp # completion.request.irp
           /\ Popping \/ Cutting => main.irp # completion.request.irp
           /\ \A n \in DOMAIN mainQueue : mainQueue[n] # completion.request.irp
<1>. DEFINE c == completion.request
<1>1. /\ c \in Piece /\ c \in Pipe /\ c \in InCompletion
      /\ Sound(irp, c) /\ c.last /\ ~Writes(c.irp)
  BY DEF IInv, Types, CompletionType, CompletionHas, CompletionBusy, InCompletion, Pipe
<1>2. ASSUME NEW r \in InIoQueue \cup InCompletionQueue \cup InIo PROVE r.irp # c.irp
  <2>1. Sound(irp, r) /\ Precedes(log, c, r)
    BY <1>1, <1>2
       DEF IInv, IoHas, CompletionHas, Ordered, Order, InIoQueue, InIo, InCompletionQueue
  <2>. QED
    BY <1>1, <2>1, LastAlone DEF IInv, Piece
<1>3. Popping => main.irp # c.irp
  BY <1>1, SoonerStrict DEF IInv, Entered, Types
<1>4. Cutting => main.irp # c.irp
  BY <1>1, OpType, QueueAssumption
     DEF IInv, Entered, Precedes, Types, MainHas, MainType, Piece, Sound, SectorsOf, Sectors
<1>5. \A n \in DOMAIN mainQueue : mainQueue[n] # c.irp
  BY <1>1, SoonerStrict DEF IInv, Queued, Types
<1>. QED
  BY <1>2, <1>3, <1>4, <1>5

\* A request that the main thread has not begun to cut is nowhere else.
LEMMA PoppedAlone ==
    ASSUME IInv, Popping
    PROVE  /\ \A r \in Pipe : r.irp # main.irp
           /\ \A n \in DOMAIN mainQueue : mainQueue[n] # main.irp
BY SoonerStrict DEF IInv, Entered, Queued, Types

\* A step leaves what has been asked for, and completes at most the request whose
\* last fragment is handed on, or one the main thread has popped.
LEMMA RequestKept ==
    ASSUME IInv, [Next]_vars, NEW i \in Irps, irp[i].at # "new"
    PROVE  /\ irp'[i].op = irp[i].op /\ irp'[i].at # "new"
           /\ irp[i].at = "queued" =>
                  \/ irp'[i].at = "queued"
                  \/ main.irp = i /\ main.pc \in {"dispatch", "direct"} /\ main'.pc = "uncount"
                  \/ io.pc = "hand" /\ io.request.irp = i /\ io'.pc = "free"
                  \/ completion.pc = "hand" /\ completion.request.irp = i /\ completion'.pc = "free"
           /\ irp[i].at = "completed" => irp'[i].at = "completed" \/ main'.pc = "pop"
<1>1. CASE UNCHANGED vars
  BY <1>1 DEF vars
<1>2. ASSUME NEW j \in Irps, AddIrp(j) \/ Work(j)
      PROVE  /\ \A k \in Irps \ {j} : irp'[k] = irp[k]
             /\ irp[j].at \notin {"queued", "completed"} /\ irp'[j].at # "new"
             /\ irp[j].at # "new" => irp'[j].op = irp[j].op
  BY <1>2 DEF IInv, Types, IrpType, AddIrp, AddCount, AddTest, AddQueue, AddRefuse, AddRefuseSignal, Work,
     WorkComplete, WorkUncount, WorkSignal, WorkInactive, WorkSignalInactive, WorkReturn,
     WorkFreeItem, At
<1>3. CASE Main
  <2>1. CASE MainRefuse \/ MainFail \/ MainReadDone
    BY <1>3, <2>1 DEF IInv, Types, IrpType, MainRefuse, MainFail, MainReadDone, MainAt, Complete, MainType, MainHas, Popping
  <2>2. CASE MainFreeItem
    BY <1>3, <2>2 DEF IInv, Types, IrpType, MainFreeItem, MainAt, MainType, MainHas, Ending
  <2>3. CASE UNCHANGED irp
    BY <2>3
  <2>. QED
    BY <1>3, <2>1, <2>2, <2>3 DEF Main, MainEmpty, MainWait, MainPop, MainTestSuspended,
       MainHeld, MainGetItem, MainWaitPool, MainRead, MainUncount, MainSignal, MainAccept,
       MainFragment, MainGetRequest, MainAcquire, MainPush
<1>4. CASE Io
  <2>1. CASE IoFail
    BY <2>1 DEF IInv, Types, IrpType, IoFail, Current, IoType, Piece
  <2>2. CASE IoHand
    BY <2>2 DEF IInv, Types, IrpType, IoHand, IoAt, Hand, Current, IoType, Piece, IoHas, IoBusy, Sound
  <2>3. CASE UNCHANGED irp
    BY <2>3
  <2>. QED
    BY <1>4, <2>1, <2>2, <2>3 DEF Io, IoWait, IoEmpty, IoPop, IoSkip, IoWrite, IoRead,
       IoWritten, IoReadDone, IoDeliver, IoReadAhead, IoUncount, IoSignal, IoFreeRequest,
       IoTakeWorkItem
<1>5. CASE Completion
  <2>1. CASE CompletionHand
    BY <2>1 DEF IInv, Types, IrpType, CompletionHand, CompletionAt, Hand, Finishing, CompletionType, Piece, CompletionHas,
                CompletionBusy, Sound
  <2>2. CASE UNCHANGED irp
    BY <2>2
  <2>. QED
    BY <1>5, <2>1, <2>2 DEF Completion, CompletionWait, CompletionEmpty, CompletionPop,
       CompletionDecrypt, CompletionTakeWorkItem, CompletionFreeRequest
<1>6. CASE Hold \/ Stop
  BY <1>6, HoldFrame, StopFrame
<1>. QED
  BY <1>1, <1>2, <1>3, <1>4, <1>5, <1>6 DEF Next

\* What is on the way stays on the way until it is handed on, and remains what
\* has been asked for.
SoundKept ==
    /\ \A n \in DOMAIN ioQueue : Sound(irp', ioQueue[n])
    /\ \A n \in DOMAIN completionQueue : Sound(irp', completionQueue[n])
    /\ IoBusy => Sound(irp', io.request) \/ (io.pc = "hand" /\ io'.pc = "free")
    /\ CompletionBusy => \/ Sound(irp', completion.request)
                         \/ completion.pc = "hand" /\ completion'.pc = "free"
    /\ Cutting => irp'[main.irp].at = "queued"
    /\ Popping => irp'[main.irp].at = "queued" \/ main'.pc = "uncount"
    /\ Ending => irp'[main.irp].at = "completed" \/ main'.pc = "pop"
    /\ \A n \in DOMAIN mainQueue : irp'[mainQueue[n]].at = "queued"

OpKept ==
    /\ Popping \/ Cutting => irp'[main.irp].op = irp[main.irp].op
    /\ IoBusy => irp'[io.request.irp].op = irp[io.request.irp].op
    /\ CompletionBusy => irp'[completion.request.irp].op = irp[completion.request.irp].op
    /\ \A n \in DOMAIN ioQueue : irp'[ioQueue[n].irp].op = irp[ioQueue[n].irp].op
    /\ \A n \in DOMAIN completionQueue :
           irp'[completionQueue[n].irp].op = irp[completionQueue[n].irp].op

\* What is on the way is still a fragment of a request that is queued.
LEMMA SoundStays ==
    ASSUME IInv, [Next]_vars
    PROVE  SoundKept
<1>1. ASSUME NEW r \in Piece, Sound(irp, r), r \in Pipe,
             io.pc = "hand" => io.request.irp # r.irp \/ io'.pc # "free",
             completion.pc = "hand" => completion.request.irp # r.irp \/ completion'.pc # "free"
      PROVE  Sound(irp', r)
  <2>1. r.irp \in Irps /\ irp[r.irp].at = "queued"
    BY <1>1 DEF Piece, Sound
  <2>2. ~(main.irp = r.irp /\ main.pc \in {"dispatch", "direct"})
    BY <1>1, PoppedAlone DEF Popping
  <2>. QED
    BY <1>1, <2>1, <2>2, RequestKept DEF Sound
<1>2. ASSUME NEW r \in InIoQueue \cup InCompletionQueue PROVE Sound(irp', r)
  <2>1. r \in Piece /\ r \in Pipe /\ Sound(irp, r)
    BY <1>2 DEF IInv, Types, ListTypes, IoHas, CompletionHas, InIoQueue, InCompletionQueue, Pipe
  <2>. QED
    BY <1>1, <1>2, <2>1, IoHandAlone, CompletionHandAlone
<1>3. IoBusy => Sound(irp', io.request) \/ (io.pc = "hand" /\ io'.pc = "free")
  <2>. SUFFICES ASSUME IoBusy, io.pc # "hand" \/ io'.pc # "free" PROVE Sound(irp', io.request)
    OBVIOUS
  <2>1. io.request \in Piece /\ io.request \in InIo /\ io.request \in Pipe /\ Sound(irp, io.request)
    BY DEF IInv, Types, IoType, IoHas, InIo, Pipe
  <2>. QED
    BY <1>1, <2>1, CompletionHandAlone
<1>4. CompletionBusy => \/ Sound(irp', completion.request)
                        \/ completion.pc = "hand" /\ completion'.pc = "free"
  <2>. SUFFICES ASSUME CompletionBusy, completion.pc # "hand" \/ completion'.pc # "free"
                PROVE  Sound(irp', completion.request)
    OBVIOUS
  <2>1. /\ completion.request \in Piece /\ completion.request \in InCompletion
        /\ completion.request \in Pipe /\ Sound(irp, completion.request)
    BY DEF IInv, Types, CompletionType, CompletionHas, InCompletion, Pipe
  <2>. QED
    BY <1>1, <2>1, IoHandAlone
<1>5. Cutting \/ Popping => irp'[main.irp].at = "queued" \/ (main'.pc = "uncount" /\ ~Cutting)
  <2>. SUFFICES ASSUME Cutting \/ Popping
                PROVE  irp'[main.irp].at = "queued" \/ (main'.pc = "uncount" /\ ~Cutting)
    OBVIOUS
  <2>1. main.irp \in Irps /\ irp[main.irp].at = "queued"
    BY DEF IInv, Types, MainType, MainHas
  <2>2. main.pc \in {"dispatch", "direct"} => ~Cutting
    BY DEF Cutting
  <2>3. io.pc = "hand" => main.irp # io.request.irp
    BY IoHandAlone
  <2>4. completion.pc = "hand" => main.irp # completion.request.irp
    BY CompletionHandAlone
  <2>. QED
    BY <2>1, <2>2, <2>3, <2>4, RequestKept
<1>6. \A n \in DOMAIN mainQueue : irp'[mainQueue[n]].at = "queued"
  <2>. SUFFICES ASSUME NEW n \in DOMAIN mainQueue PROVE irp'[mainQueue[n]].at = "queued"
    OBVIOUS
  <2>1. mainQueue[n] \in Irps /\ irp[mainQueue[n]].at = "queued"
    BY DEF IInv, Types, ListTypes, MainHas
  <2>2. main.pc \in {"dispatch", "direct"} => mainQueue[n] # main.irp
    BY PoppedAlone DEF Popping
  <2>3. io.pc = "hand" => mainQueue[n] # io.request.irp
    BY IoHandAlone
  <2>4. completion.pc = "hand" => mainQueue[n] # completion.request.irp
    BY CompletionHandAlone
  <2>. QED
    BY <2>1, <2>2, <2>3, <2>4, RequestKept
<1>7. Ending => irp'[main.irp].at = "completed" \/ main'.pc = "pop"
  BY RequestKept DEF IInv, Types, MainType, MainHas
<1>. QED
  BY <1>2, <1>3, <1>4, <1>5, <1>6, <1>7 DEF SoundKept, InIoQueue, InCompletionQueue

\* The operation of a request that somebody works at does not change.
LEMMA OpStays ==
    ASSUME IInv, [Next]_vars
    PROVE  OpKept
<1>1. \A i \in Irps : irp[i].at = "queued" => irp'[i].op = irp[i].op
  BY RequestKept
<1>2. Popping \/ Cutting => main.irp \in Irps /\ irp[main.irp].at = "queued"
  BY DEF IInv, Types, MainType, MainHas
<1>3. IoBusy => io.request.irp \in Irps /\ irp[io.request.irp].at = "queued"
  BY DEF IInv, Types, IoType, Piece, IoHas, Sound
<1>4. CompletionBusy => completion.request.irp \in Irps /\ irp[completion.request.irp].at = "queued"
  BY DEF IInv, Types, CompletionType, Piece, CompletionHas, Sound
<1>5. \A r \in Piece : Sound(irp, r) => r.irp \in Irps /\ irp[r.irp].at = "queued"
  BY DEF Piece, Sound
<1>6. \A n \in DOMAIN ioQueue : ioQueue[n] \in Piece /\ Sound(irp, ioQueue[n])
  BY DEF IInv, Types, ListTypes, IoHas
<1>7. \A n \in DOMAIN completionQueue :
          completionQueue[n] \in Piece /\ Sound(irp, completionQueue[n])
  BY DEF IInv, Types, ListTypes, CompletionHas
<1>. QED
  BY <1>1, <1>2, <1>3, <1>4, <1>5, <1>6, <1>7 DEF OpKept

\* What waits for the main thread, or is with it, is not completed yet.
LEMMA MainHasStep == ASSUME IInv, [Next]_vars PROVE MainHas'
<1>0. SoundKept /\ OpKept
  BY SoundStays, OpStays
<1>1. CASE UNCHANGED vars
  BY <1>1, <1>0 DEF IInv, vars, SoundKept, OpKept, MainHas, Popping, Cutting, Ending, Writes,
     SectorsOf, Types, MainType
<1>2. ASSUME NEW i \in Irps, AddIrp(i) PROVE MainHas'
  <2>1. CASE AddQueue(i)
    <3>1. /\ irp'[i].at = "queued" /\ mainQueue' = Append(mainQueue, i) /\ UNCHANGED main
          /\ mainQueue \in Seq(Irps)
      BY <2>1 DEF IInv, Types, IrpType, ListTypes, AddQueue, At
    <3>2. \A n \in DOMAIN mainQueue' :
              mainQueue'[n] = i \/ (n \in DOMAIN mainQueue /\ mainQueue'[n] = mainQueue[n])
      BY <3>1, Appended
    <3>. QED
      BY <1>0, <3>1, <3>2 DEF IInv, SoundKept, OpKept, MainHas, Popping, Cutting, Ending, Writes, SectorsOf
  <2>2. CASE UNCHANGED <<mainQueue, main>>
    BY <1>2, <2>2, AddFrame, <1>0 DEF IInv, SoundKept, OpKept, MainHas, Popping, Cutting,
       Ending, Writes, SectorsOf, Types, MainType
  <2>. QED
    BY <1>2, <2>1, <2>2 DEF AddIrp, AddCount, AddTest, At, AddRefuse, AddRefuseSignal
<1>3. ASSUME NEW i \in Irps, Work(i) PROVE MainHas'
  BY <1>3, WorkFrame, <1>0 DEF IInv, SoundKept, OpKept, MainHas, Popping, Cutting, Ending,
     Writes, SectorsOf, Types, MainType
<1>4. CASE Main
  <2>1. CASE MainEmpty
    BY <2>1, <1>0 DEF IInv, MainEmpty, MainAt, SoundKept, OpKept, MainHas, Popping, Cutting,
       Ending, Writes, SectorsOf, Types, MainType
  <2>2. CASE MainWait
    BY <2>2, <1>0 DEF IInv, MainWait, MainAt, Wait, SoundKept, OpKept, MainHas, Popping,
       Cutting, Ending, Writes, SectorsOf, Types, MainType
  <2>3. CASE MainPop
    BY <2>3, <1>0, HeadTail DEF IInv, MainPop, SoundKept, OpKept, MainHas, Popping, Cutting,
       Ending, Writes, SectorsOf, Types, MainType, ListTypes
  <2>4. CASE MainTestSuspended
    BY <2>4, <1>0 DEF IInv, MainTestSuspended, MainAt, SoundKept, OpKept, MainHas, Popping,
       Cutting, Ending, Writes, SectorsOf, Types, MainType
  <2>5. CASE MainHeld
    BY <2>5, <1>0 DEF IInv, MainHeld, MainAt, Wait, SoundKept, OpKept, MainHas, Popping,
       Cutting, Ending, Writes, SectorsOf, Types, MainType
  <2>6. CASE MainGetItem
    BY <2>6, <1>0 DEF IInv, MainGetItem, MainAt, SoundKept, OpKept, MainHas, Popping, Cutting,
       Ending, Writes, SectorsOf, Types, MainType
  <2>7. CASE MainWaitPool
    BY <2>7, <1>0 DEF IInv, MainWaitPool, MainAt, Wait, SoundKept, OpKept, MainHas, Popping,
       Cutting, Ending, Writes, SectorsOf, Types, MainType
  <2>8. CASE MainRefuse
    <3>1. /\ irp'[main.irp].at = "completed"
          /\ main'.pc = "uncount" /\ main'.irp = main.irp /\ UNCHANGED mainQueue
      BY <2>8 DEF IInv, Types, IrpType, MainType, MainRefuse, MainAt, Complete
    <3>. QED
      BY <1>0, <3>1 DEF IInv, SoundKept, MainHas, Popping, Cutting, Ending
  <2>9. CASE MainFail
    <3>1. /\ irp'[main.irp].at = "completed"
          /\ main'.pc = "uncount" /\ main'.irp = main.irp /\ UNCHANGED mainQueue
      BY <2>9 DEF IInv, Types, IrpType, MainType, MainFail, MainAt, Complete
    <3>. QED
      BY <1>0, <3>1 DEF IInv, SoundKept, MainHas, Popping, Cutting, Ending
  <2>10. CASE MainRead
    BY <2>10, <1>0, OpType DEF IInv, MainRead, MainAt, SoundKept, OpKept, MainHas, Popping,
       Cutting, Ending, Writes, SectorsOf, Types, MainType
  <2>11. CASE MainReadDone
    <3>1. /\ irp'[main.irp].at = "completed"
          /\ main'.pc = "uncount" /\ main'.irp = main.irp /\ UNCHANGED mainQueue
      BY <2>11 DEF IInv, Types, IrpType, MainType, MainReadDone, MainAt, Complete
    <3>. QED
      BY <1>0, <3>1 DEF IInv, SoundKept, MainHas, Popping, Cutting, Ending
  <2>12. CASE MainUncount
    BY <2>12, <1>0 DEF IInv, MainUncount, MainAt, Uncount, LastOutstanding, SoundKept, OpKept,
       MainHas, Popping, Cutting, Ending, Writes, SectorsOf, Types, MainType
  <2>13. CASE MainSignal
    BY <2>13, <1>0 DEF IInv, MainSignal, MainAt, SignalNoOutstanding, SoundKept, OpKept,
       MainHas, Popping, Cutting, Ending, Writes, SectorsOf, Types, MainType
  <2>14. CASE MainFreeItem
    BY <2>14, <1>0 DEF IInv, MainFreeItem, MainAt, Set, SoundKept, OpKept, MainHas, Popping,
       Cutting, Ending, Writes, SectorsOf, Types, MainType
  <2>15. CASE MainAccept
    BY <2>15, <1>0, OpType, QueueAssumption DEF IInv, MainAccept, Refused, SoundKept, OpKept,
       MainHas, Popping, Cutting, Ending, Writes, SectorsOf, Types, MainType, Sectors
  <2>16. CASE MainFragment
    BY <2>16, <1>0 DEF IInv, MainFragment, SoundKept, OpKept, MainHas, Popping, Cutting,
       Ending, Writes, SectorsOf, Types, MainType
  <2>17. CASE MainGetRequest
    BY <2>17, <1>0 DEF IInv, MainGetRequest, SoundKept, OpKept, MainHas, Popping, Cutting,
       Ending, Writes, SectorsOf, Types, MainType
  <2>18. CASE MainAcquire
    BY <2>18, <1>0 DEF IInv, MainAcquire, MainAt, Wait, Encrypt, SoundKept, OpKept, MainHas,
       Popping, Cutting, Ending, Writes, SectorsOf, Types, MainType
  <2>19. CASE MainPush
    BY <2>19, <1>0, OpType, QueueAssumption DEF IInv, MainPush, Set, SoundKept, OpKept,
       MainHas, Popping, Cutting, Ending, Writes, SectorsOf, Types, MainType, Sectors
  <2>. QED
    BY <1>4, <2>1, <2>2, <2>3, <2>4, <2>5, <2>6, <2>7, <2>8, <2>9, <2>10, <2>11, <2>12, <2>13,
       <2>14, <2>15, <2>16, <2>17, <2>18, <2>19 DEF Main
<1>5. CASE Io
  BY <1>5, IoFrame, <1>0 DEF IInv, SoundKept, OpKept, MainHas, Popping, Cutting, Ending,
     Writes, SectorsOf, Types, MainType
<1>6. CASE Completion
  BY <1>6, CompletionFrame, <1>0 DEF IInv, SoundKept, OpKept, MainHas, Popping, Cutting,
     Ending, Writes, SectorsOf, Types, MainType
<1>7. CASE Hold
  BY <1>7, HoldFrame, <1>0 DEF IInv, SoundKept, OpKept, MainHas, Popping, Cutting, Ending,
     Writes, SectorsOf, Types, MainType
<1>8. CASE Stop
  BY <1>8, StopFrame, <1>0 DEF IInv, SoundKept, OpKept, MainHas, Popping, Cutting, Ending,
     Writes, SectorsOf, Types, MainType
<1>. QED
  BY <1>1, <1>2, <1>3, <1>4, <1>5, <1>6, <1>7, <1>8 DEF Next

\* What waits for the I/O thread, or is with it, is a fragment not completed yet.
LEMMA IoHasStep == ASSUME IInv, [Next]_vars PROVE IoHas'
<1>0. SoundKept /\ OpKept
  BY SoundStays, OpStays
<1>1. CASE UNCHANGED vars
  BY <1>1, <1>0 DEF IInv, vars, SoundKept, OpKept, IoHas, IoBusy, Writes
<1>2. ASSUME NEW i \in Irps, AddIrp(i) PROVE IoHas'
  BY <1>2, AddFrame, <1>0 DEF IInv, SoundKept, OpKept, IoHas, IoBusy, Writes
<1>3. ASSUME NEW i \in Irps, Work(i) PROVE IoHas'
  BY <1>3, WorkFrame, <1>0 DEF IInv, SoundKept, OpKept, IoHas, IoBusy, Writes
<1>4. CASE Main
  <2>1. CASE MainPush
    <3>. DEFINE r == [irp |-> main.irp, sector |-> main.sector, buffer |-> main.buffer,
                      last |-> main.sector = irp[main.irp].op.last, encrypted |-> main.encrypted]
    <3>1. ioQueue' = Append(ioQueue, r) /\ UNCHANGED <<irp, io>> /\ Cutting
      BY <2>1 DEF MainPush, Cutting
    <3>2. Sound(irp', r)
      BY <3>1 DEF IInv, MainHas, SectorsOf, Sound
    <3>3. r \in Piece /\ ioQueue \in Seq(Piece)
      BY DEF IInv, Types, ListTypes, MainType, Piece
    <3>. HIDE DEF r
    <3>4. \A n \in DOMAIN ioQueue' : ioQueue'[n] = r \/ (n \in DOMAIN ioQueue /\ ioQueue'[n] = ioQueue[n])
      BY <3>1, <3>3, Appended
    <3>. QED
      BY <1>0, <3>1, <3>2, <3>4 DEF IInv, SoundKept, IoHas, IoBusy, Writes
  <2>2. CASE UNCHANGED ioQueue
    BY <1>4, <2>2, MainFrame, <1>0 DEF IInv, SoundKept, OpKept, IoHas, IoBusy, Writes
  <2>. QED
    BY <1>4, <2>1, <2>2 DEF Main, MainEmpty, MainAt, MainWait, MainPop, MainTestSuspended,
       MainHeld, MainGetItem, MainWaitPool, MainRefuse, Complete, MainFail, MainRead,
       MainReadDone, MainUncount, MainSignal, MainFreeItem, MainAccept, MainFragment,
       MainGetRequest, MainAcquire
<1>5. CASE Io
  <2>1. CASE IoWait
    BY <2>1, <1>0 DEF IInv, IoWait, IoAt, Wait, SoundKept, OpKept, IoHas, IoBusy, Writes
  <2>2. CASE IoEmpty
    BY <2>2, <1>0 DEF IInv, IoEmpty, IoAt, SoundKept, OpKept, IoHas, IoBusy, Writes
  <2>3. CASE IoPop
    BY <2>3, <1>0 DEF IInv, IoPop, SoundKept, OpKept, IoHas, IoBusy, Writes
  <2>4. CASE IoSkip
    BY <2>4, <1>0 DEF IInv, IoSkip, IoAt, Current, SoundKept, OpKept, IoHas, IoBusy, Writes
  <2>5. CASE IoFail
    <3>1. /\ io.pc = "access" /\ io'.pc = "accessed" /\ io'.request = io.request
          /\ io'.ahead = io.ahead /\ UNCHANGED ioQueue
      BY <2>5 DEF IInv, Types, IoType, IoFail, IoAt
    <3>2. IoBusy /\ ~io'.ahead /\ Sound(irp', io.request)
      BY <1>0, <3>1 DEF IInv, IoHas, IoBusy, SoundKept
    <3>3. \A n \in DOMAIN ioQueue : Sound(irp', ioQueue[n])
      BY <1>0 DEF SoundKept
    <3>. QED
      BY <3>1, <3>2, <3>3 DEF IoHas, IoBusy
  <2>6. CASE IoWrite
    BY <2>6, <1>0 DEF IInv, IoWrite, IoAt, Current, SoundKept, OpKept, IoHas, IoBusy, Writes
  <2>7. CASE IoRead
    BY <2>7, <1>0 DEF IInv, IoRead, IoAt, Current, SoundKept, OpKept, IoHas, IoBusy, Writes
  <2>8. CASE IoWritten
    BY <2>8, <1>0 DEF IInv, IoWritten, IoAt, Set, Current, SoundKept, OpKept, IoHas, IoBusy,
       Writes
  <2>9. CASE IoReadDone
    BY <2>9, <1>0 DEF IInv, IoReadDone, Set, Current, Received, ReadsAhead, SoundKept, OpKept,
       IoHas, IoBusy, Writes
  <2>10. CASE IoDeliver
    BY <2>10, <1>0 DEF IInv, IoDeliver, Set, Current, SoundKept, OpKept, IoHas, IoBusy, Writes
  <2>11. CASE IoReadAhead
    BY <2>11, <1>0 DEF IInv, IoReadAhead, IoAt, SoundKept, OpKept, IoHas, IoBusy, Writes
  <2>12. CASE IoUncount
    BY <2>12, <1>0 DEF IInv, IoUncount, IoAt, Uncount, LastOutstanding, SoundKept, OpKept,
       IoHas, IoBusy, Writes
  <2>13. CASE IoSignal
    BY <2>13, <1>0 DEF IInv, IoSignal, IoAt, SignalNoOutstanding, SoundKept, OpKept, IoHas,
       IoBusy, Writes
  <2>14. CASE IoFreeRequest
    BY <2>14, <1>0 DEF IInv, IoFreeRequest, IoAt, Set, SoundKept, OpKept, IoHas, IoBusy, Writes
  <2>15. CASE IoTakeWorkItem
    BY <2>15, <1>0 DEF IInv, IoTakeWorkItem, IoAt, TakeWorkItem, SoundKept, OpKept, IoHas,
       IoBusy, Writes
  <2>16. CASE IoHand
    BY <2>16, <1>0 DEF IInv, IoHand, IoAt, Hand, Current, SoundKept, OpKept, IoHas, IoBusy,
       Writes
  <2>. QED
    BY <1>5, <2>1, <2>2, <2>3, <2>4, <2>5, <2>6, <2>7, <2>8, <2>9, <2>10, <2>11, <2>12, <2>13,
       <2>14, <2>15, <2>16 DEF Io
<1>6. CASE Completion
  BY <1>6, CompletionFrame, <1>0 DEF IInv, SoundKept, OpKept, IoHas, IoBusy, Writes
<1>7. CASE Hold
  BY <1>7, HoldFrame, <1>0 DEF IInv, SoundKept, OpKept, IoHas, IoBusy, Writes
<1>8. CASE Stop
  BY <1>8, StopFrame, <1>0 DEF IInv, SoundKept, OpKept, IoHas, IoBusy, Writes
<1>. QED
  BY <1>1, <1>2, <1>3, <1>4, <1>5, <1>6, <1>7, <1>8 DEF Next

\* What waits for the completion thread, or is with it, is a fragment of a read.
LEMMA CompletionHasStep == ASSUME IInv, [Next]_vars PROVE CompletionHas'
<1>0. SoundKept /\ OpKept
  BY SoundStays, OpStays
<1>1. CASE UNCHANGED vars
  BY <1>1, <1>0 DEF IInv, vars, SoundKept, OpKept, CompletionHas, CompletionBusy, Writes
<1>2. ASSUME NEW i \in Irps, AddIrp(i) PROVE CompletionHas'
  BY <1>2, AddFrame, <1>0 DEF IInv, SoundKept, OpKept, CompletionHas, CompletionBusy, Writes
<1>3. ASSUME NEW i \in Irps, Work(i) PROVE CompletionHas'
  BY <1>3, WorkFrame, <1>0 DEF IInv, SoundKept, OpKept, CompletionHas, CompletionBusy, Writes
<1>4. CASE Main
  BY <1>4, MainFrame, <1>0 DEF IInv, SoundKept, OpKept, CompletionHas, CompletionBusy, Writes
<1>5. CASE Io
  <2>1. CASE IoDeliver
    <3>1. /\ completionQueue' = Append(completionQueue, io.request)
          /\ IoBusy /\ io.pc = "deliver" /\ UNCHANGED <<irp, completion>>
      BY <2>1 DEF IoDeliver, Current, IoBusy
    <3>2. Sound(irp', io.request) /\ ~Writes(io.request.irp)
      BY <3>1 DEF IInv, IoHas
    <3>3. io.request \in Piece /\ completionQueue \in Seq(Piece)
      BY DEF IInv, Types, ListTypes, IoType
    <3>4. \A n \in DOMAIN completionQueue' :
              \/ completionQueue'[n] = io.request
              \/ n \in DOMAIN completionQueue /\ completionQueue'[n] = completionQueue[n]
      BY <3>1, <3>3, Appended
    <3>. QED
      BY <1>0, <3>1, <3>2, <3>4 DEF IInv, SoundKept, CompletionHas, CompletionBusy, Writes
  <2>2. CASE UNCHANGED completionQueue
    BY <1>5, <2>2, IoFrame, <1>0 DEF IInv, SoundKept, OpKept, CompletionHas, CompletionBusy,
       Writes
  <2>. QED
    BY <1>5, <2>1, <2>2 DEF Io, IoWait, IoAt, IoEmpty, IoPop, IoSkip, IoFail, IoWrite, IoRead,
       IoWritten, IoReadDone, IoReadAhead, IoUncount, IoSignal, IoFreeRequest, IoTakeWorkItem,
       IoHand, Hand
<1>6. CASE Completion
  <2>1. CASE CompletionWait
    BY <2>1, <1>0 DEF IInv, CompletionWait, CompletionAt, Wait, SoundKept, OpKept,
       CompletionHas, CompletionBusy, Writes
  <2>2. CASE CompletionEmpty
    BY <2>2, <1>0 DEF IInv, CompletionEmpty, CompletionAt, SoundKept, OpKept, CompletionHas,
       CompletionBusy, Writes
  <2>3. CASE CompletionPop
    BY <2>3, <1>0 DEF IInv, CompletionPop, SoundKept, OpKept, CompletionHas, CompletionBusy,
       Writes
  <2>4. CASE CompletionDecrypt
    BY <2>4, <1>0 DEF IInv, CompletionDecrypt, CompletionAt, Finishing, SoundKept, OpKept,
       CompletionHas, CompletionBusy, Writes
  <2>5. CASE CompletionTakeWorkItem
    BY <2>5, <1>0 DEF IInv, CompletionTakeWorkItem, CompletionAt, TakeWorkItem, SoundKept,
       OpKept, CompletionHas, CompletionBusy, Writes
  <2>6. CASE CompletionHand
    BY <2>6, <1>0 DEF IInv, CompletionHand, CompletionAt, Hand, Finishing, SoundKept, OpKept,
       CompletionHas, CompletionBusy, Writes
  <2>7. CASE CompletionFreeRequest
    BY <2>7, <1>0 DEF IInv, CompletionFreeRequest, CompletionAt, Set, SoundKept, OpKept,
       CompletionHas, CompletionBusy, Writes
  <2>. QED
    BY <1>6, <2>1, <2>2, <2>3, <2>4, <2>5, <2>6, <2>7 DEF Completion
<1>7. CASE Hold
  BY <1>7, HoldFrame, <1>0 DEF IInv, SoundKept, OpKept, CompletionHas, CompletionBusy, Writes
<1>8. CASE Stop
  BY <1>8, StopFrame, <1>0 DEF IInv, SoundKept, OpKept, CompletionHas, CompletionBusy, Writes
<1>. QED
  BY <1>1, <1>2, <1>3, <1>4, <1>5, <1>6, <1>7, <1>8 DEF Next
-----------------------------------------------------------------------------
(* Order *)

\* No step changes the order of acceptance.
LEMMA OrderGrows ==
    ASSUME IInv, [Next]_vars
    PROVE  /\ \A i, j : Sooner(log, i, j) => Sooner(log', i, j)
           /\ \A r, t : Precedes(log, r, t) => Precedes(log', r, t)
<1>1. \A i, j : Sooner(log, i, j) => Sooner(log', i, j)
  BY LogGrows, SoonerStays DEF IInv, Types
<1>. QED
  BY <1>1 DEF Precedes

\* What the main thread has, and what is on the way, mostly stay or go.
MainStays ==
    /\ UNCHANGED mainQueue
    /\ Popping' => Popping /\ main'.irp = main.irp
    /\ Cutting' => Cutting /\ main'.irp = main.irp /\ main'.sector = main.sector
PipeStays ==
    /\ UNCHANGED <<ioQueue, completionQueue>>
    /\ InIo' \subseteq InIo /\ InCompletion' \subseteq InCompletion

\* Only popping, accepting, pushing and AddQueue change what the main thread is to do.
LEMMA MainMoves ==
    ASSUME IInv, [Next]_vars
    PROVE  \/ MainStays \/ MainPop \/ MainAccept \/ MainPush
           \/ UNCHANGED main /\ \E i \in Irps : AddQueue(i)
<1>1. CASE UNCHANGED <<main, mainQueue>>
  BY <1>1 DEF MainStays, Popping, Cutting
<1>2. ASSUME NEW i \in Irps, AddIrp(i) \/ Work(i)
      PROVE  UNCHANGED <<main, mainQueue>> \/ (UNCHANGED main /\ AddQueue(i))
  BY <1>2 DEF AddIrp, AddCount, AddTest, AddQueue, AddRefuse, AddRefuseSignal, Work, WorkComplete,
     WorkUncount, WorkSignal, WorkInactive, WorkSignalInactive, WorkReturn, WorkFreeItem
<1>3. CASE Main
  <2>1. CASE MainEmpty \/ MainWait \/ MainTestSuspended \/ MainHeld \/ MainGetItem \/ MainWaitPool
             \/ MainRefuse \/ MainFail \/ MainRead \/ MainReadDone
    BY <2>1 DEF IInv, Types, MainType, MainStays, Popping, Cutting, MainAt, MainEmpty, MainWait,
       MainTestSuspended, MainHeld, MainGetItem, MainWaitPool, MainRefuse, MainFail, MainRead,
       MainReadDone
  <2>2. CASE MainUncount \/ MainSignal \/ MainFreeItem \/ MainFragment \/ MainGetRequest
             \/ MainAcquire
    BY <2>2 DEF IInv, Types, MainType, MainStays, Popping, Cutting, MainAt, MainUncount,
       MainSignal, MainFreeItem, MainFragment, MainGetRequest, MainAcquire
  <2>. QED
    BY <1>3, <2>1, <2>2 DEF Main
<1>4. CASE Io \/ Completion \/ Hold \/ Stop
  BY <1>1, <1>4, IoFrame, CompletionFrame, HoldFrame, StopFrame
<1>5. CASE UNCHANGED vars
  BY <1>1, <1>5 DEF vars
<1>. QED
  BY <1>1, <1>2, <1>3, <1>4, <1>5 DEF Next

\* Only four steps move a fragment to another stage.
LEMMA PipeMoves ==
    ASSUME IInv, [Next]_vars
    PROVE  PipeStays \/ MainPush \/ IoPop \/ IoDeliver \/ CompletionPop
<1>1. CASE UNCHANGED <<ioQueue, completionQueue, io, completion>>
  BY <1>1 DEF PipeStays, InIo, InCompletion, IoBusy, CompletionBusy
<1>2. ASSUME NEW i \in Irps, AddIrp(i) \/ Work(i)
      PROVE  UNCHANGED <<ioQueue, completionQueue, io, completion>>
  BY <1>2, AddFrame, WorkFrame
<1>3. CASE Main
  BY <1>1, <1>3, MainFrame DEF Main, MainEmpty, MainWait, MainPop, MainTestSuspended, MainHeld,
     MainGetItem, MainWaitPool, MainRefuse, MainFail, MainRead, MainReadDone, MainUncount,
     MainSignal, MainFreeItem, MainAccept, MainFragment, MainGetRequest, MainAcquire
<1>4. CASE Io
  <2>1. UNCHANGED completion
    BY <1>4, IoFrame
  <2>2. CASE IoWait \/ IoEmpty \/ IoSkip \/ IoFail \/ IoWrite \/ IoRead \/ IoWritten \/ IoReadDone
    BY <2>1, <2>2 DEF IInv, Types, IoType, PipeStays, InIo, InCompletion, IoBusy, CompletionBusy, IoAt,
       IoWait, IoEmpty, IoSkip, IoFail, IoWrite, IoRead, IoWritten, IoReadDone
  <2>3. CASE IoReadAhead \/ IoUncount \/ IoSignal \/ IoFreeRequest \/ IoTakeWorkItem \/ IoHand
    BY <2>1, <2>3 DEF IInv, Types, IoType, PipeStays, InIo, InCompletion, IoBusy, CompletionBusy, IoAt,
       IoReadAhead, IoUncount, IoSignal, IoFreeRequest, IoTakeWorkItem, IoHand
  <2>. QED
    BY <1>4, <2>2, <2>3 DEF Io
<1>5. CASE Completion
  BY <1>5 DEF IInv, Types, CompletionType, PipeStays, InIo, InCompletion, IoBusy, CompletionBusy,
     Completion, CompletionAt, CompletionWait, CompletionEmpty, CompletionDecrypt,
     CompletionTakeWorkItem, CompletionHand, CompletionFreeRequest
<1>6. CASE Hold \/ Stop
  BY <1>1, <1>6, HoldFrame, StopFrame
<1>7. CASE UNCHANGED vars
  BY <1>1, <1>7 DEF vars
<1>. QED
  BY <1>1, <1>2, <1>3, <1>4, <1>5, <1>6, <1>7 DEF Next

\* The fragment that MainPush adds; nothing else adds to what is on the way.
Pushed == [irp |-> main.irp, sector |-> main.sector, buffer |-> main.buffer,
           last |-> main.sector = irp[main.irp].op.last, encrypted |-> main.encrypted]

\* MainPush appends its fragment to the list of the I/O thread.
LEMMA PushedAppended ==
    ASSUME IInv, MainPush
    PROVE  /\ Pushed \in Piece /\ Cutting /\ UNCHANGED <<io, completion, completionQueue>>
           /\ ioQueue' = Append(ioQueue, Pushed)
           /\ DOMAIN ioQueue = 1 .. Len(ioQueue) /\ Len(ioQueue) \in Nat
           /\ DOMAIN ioQueue' = 1 .. Len(ioQueue) + 1
           /\ \A n \in DOMAIN ioQueue : ioQueue'[n] = ioQueue[n]
           /\ ioQueue'[Len(ioQueue) + 1] = Pushed
<1>1. /\ Cutting /\ UNCHANGED <<io, completion, completionQueue>>
      /\ ioQueue' = Append(ioQueue, Pushed)
  BY DEF MainPush, Cutting, Pushed
<1>2. Pushed \in Piece /\ ioQueue \in Seq(Piece)
  BY DEF IInv, Types, ListTypes, MainType, Piece, Pushed
<1>. QED
  BY <1>1, <1>2, Appended

\* Nothing enters the way but what MainPush adds.
LEMMA PipeShrinks ==
    ASSUME IInv, [Next]_vars
    PROVE  Pipe' \subseteq Pipe \/ (MainPush /\ Pipe' \subseteq Pipe \cup {Pushed})
<1>1. CASE PipeStays
  BY <1>1 DEF PipeStays, Pipe, InIoQueue, InCompletionQueue
<1>2. CASE MainPush
  BY <1>2, PushedAppended DEF Pipe, InIo, InIoQueue, InCompletion, InCompletionQueue, IoBusy, CompletionBusy
<1>3. CASE IoPop
  <2>1. ioQueue \in Seq(Piece) /\ ioQueue # <<>> /\ ioQueue' = Tail(ioQueue)
    BY <1>3 DEF IInv, Types, ListTypes, IoPop
  <2>2. InIo' \subseteq {Head(ioQueue)} /\ UNCHANGED <<completion, completionQueue>>
    BY <1>3 DEF IInv, Types, IoType, IoPop, InIo
  <2>3. Head(ioQueue) \in InIoQueue /\ InIoQueue' \subseteq InIoQueue
    BY <2>1, HeadTail DEF InIoQueue
  <2>. QED
    BY <2>2, <2>3 DEF Pipe, InCompletion, InCompletionQueue, CompletionBusy
<1>4. CASE IoDeliver
  <2>1. /\ completionQueue \in Seq(Piece) /\ io.request \in Piece
        /\ completionQueue' = Append(completionQueue, io.request)
        /\ UNCHANGED <<ioQueue, completion>> /\ io.request \in InIo /\ InIo' = {}
    BY <1>4 DEF IInv, Types, ListTypes, IoType, IoDeliver, Current, InIo, IoBusy
  <2>2. InCompletionQueue' \subseteq InCompletionQueue \cup {io.request}
    BY <2>1, Appended DEF InCompletionQueue
  <2>. QED
    BY <2>1, <2>2 DEF Pipe, InCompletion, InIoQueue, CompletionBusy
<1>5. CASE CompletionPop
  <2>1. completionQueue \in Seq(Piece) /\ completionQueue # <<>> /\ completionQueue' = Tail(completionQueue)
    BY <1>5 DEF IInv, Types, ListTypes, CompletionPop
  <2>2. InCompletion' \subseteq {Head(completionQueue)} /\ UNCHANGED <<io, ioQueue>>
    BY <1>5 DEF CompletionPop, InCompletion
  <2>3. Head(completionQueue) \in InCompletionQueue /\ InCompletionQueue' \subseteq InCompletionQueue
    BY <2>1, HeadTail DEF InCompletionQueue
  <2>. QED
    BY <2>2, <2>3 DEF Pipe, InIo, InIoQueue, IoBusy
<1>. QED
  BY <1>1, <1>2, <1>3, <1>4, <1>5, PipeMoves

\* A request that AddQueue accepts comes after all that has been accepted.
LEMMA AcceptedLast ==
    ASSUME IInv, NEW i \in Irps, AddQueue(i)
    PROVE  \A j \in Irps : irp[j].at = "queued" => Sooner(log', j, i)
BY SoonerAppend DEF IInv, Types, Logged, AddQueue, AtAccepted

\* What is on the way is a fragment of a queued request.
LEMMA PipeSound == ASSUME IInv, NEW r \in Pipe PROVE r \in Piece /\ Sound(irp, r)
BY DEF IInv, Types, ListTypes, IoType, CompletionType, IoHas, CompletionHas, Pipe, InIo, InIoQueue,
   InCompletion, InCompletionQueue

\* Requests are popped from the front, and added at the end.
LEMMA QueuedStep == ASSUME IInv, [Next]_vars PROVE Queued'
<1>1. /\ \A m, n \in DOMAIN mainQueue : m < n => Sooner(log', mainQueue[m], mainQueue[n])
      /\ Popping \/ Cutting => \A n \in DOMAIN mainQueue : Sooner(log', main.irp, mainQueue[n])
      /\ \A r \in Pipe, n \in DOMAIN mainQueue : Sooner(log', r.irp, mainQueue[n])
  BY OrderGrows DEF IInv, Queued
<1>2. CASE MainPush
  <2>1. Pushed.irp = main.irp /\ Cutting /\ UNCHANGED mainQueue /\ main'.irp = main.irp
    BY <1>2, PushedAppended DEF IInv, Types, MainType, Pushed, MainPush
  <2>. QED
    BY <1>1, <2>1, PipeShrinks DEF Queued
<1>3. CASE ~MainPush /\ MainStays
  BY <1>1, <1>3, PipeShrinks DEF Queued, MainStays
<1>4. CASE MainPop
  <2>1. /\ mainQueue \in Seq(Irps) /\ mainQueue # <<>> /\ mainQueue' = Tail(mainQueue)
        /\ main'.irp = Head(mainQueue) /\ main'.pc = "popped" /\ main.pc = "pop"
    BY <1>4 DEF IInv, Types, ListTypes, MainType, MainPop
  <2>2. Pipe' \subseteq Pipe
    BY <2>1, PipeShrinks DEF MainPush
  <2>3. /\ Head(mainQueue) = mainQueue[1] /\ 1 \in DOMAIN mainQueue
        /\ \A n \in DOMAIN mainQueue' :
               n + 1 \in DOMAIN mainQueue /\ mainQueue'[n] = mainQueue[n + 1] /\ n \in Nat /\ n >= 1
    BY <2>1, HeadTail
  <2>4. \A m, n \in DOMAIN mainQueue' : m < n => Sooner(log', mainQueue'[m], mainQueue'[n])
    BY <1>1, <2>3
  <2>5. \A n \in DOMAIN mainQueue' : Sooner(log', main'.irp, mainQueue'[n])
    BY <1>1, <2>1, <2>3
  <2>6. \A r \in Pipe', n \in DOMAIN mainQueue' : Sooner(log', r.irp, mainQueue'[n])
    BY <1>1, <2>2, <2>3
  <2>. QED
    BY <2>4, <2>5, <2>6 DEF Queued
<1>5. CASE MainAccept
  <2>1. main.pc = "dispatch" /\ UNCHANGED mainQueue /\ main'.irp = main.irp
    BY <1>5 DEF IInv, Types, MainType, MainAccept
  <2>2. Pipe' \subseteq Pipe
    BY <2>1, PipeShrinks DEF MainPush
  <2>. QED
    BY <1>1, <2>1, <2>2 DEF Queued, Popping
<1>6. ASSUME UNCHANGED main, NEW i \in Irps, AddQueue(i) PROVE Queued'
  <2>1. /\ mainQueue \in Seq(Irps) /\ mainQueue' = Append(mainQueue, i)
        /\ UNCHANGED <<ioQueue, completionQueue, io, completion>>
    BY <1>6 DEF IInv, Types, ListTypes, AddQueue
  <2>2. /\ DOMAIN mainQueue' = 1 .. Len(mainQueue) + 1 /\ DOMAIN mainQueue = 1 .. Len(mainQueue)
        /\ Len(mainQueue) \in Nat /\ mainQueue'[Len(mainQueue) + 1] = i
        /\ \A n \in DOMAIN mainQueue : mainQueue'[n] = mainQueue[n]
    BY <2>1, Appended
  <2>3. Pipe' = Pipe
    BY <2>1 DEF Pipe, InIo, InIoQueue, InCompletion, InCompletionQueue, IoBusy, CompletionBusy
  <2>4. \A n \in DOMAIN mainQueue : Sooner(log', mainQueue[n], i)
    BY <1>6, <2>1, AcceptedLast DEF IInv, MainHas
  <2>5. Popping \/ Cutting => Sooner(log', main.irp, i)
    BY <1>6, AcceptedLast DEF IInv, Types, MainType, MainHas
  <2>6. \A r \in Pipe : Sooner(log', r.irp, i)
    BY <1>6, AcceptedLast, PipeSound DEF Piece, Sound
  <2>7. \A n \in DOMAIN mainQueue' : n \in DOMAIN mainQueue \/ n = Len(mainQueue) + 1
    BY <2>2
  <2>8. \A m, n \in DOMAIN mainQueue' : m < n => Sooner(log', mainQueue'[m], mainQueue'[n])
    <3>. SUFFICES ASSUME NEW m \in DOMAIN mainQueue', NEW n \in DOMAIN mainQueue', m < n
                  PROVE  Sooner(log', mainQueue'[m], mainQueue'[n])
      OBVIOUS
    <3>1. m \in DOMAIN mainQueue
      BY <2>2
    <3>. QED
      BY <1>1, <2>2, <2>4, <2>7, <3>1
  <2>9. Popping' \/ Cutting' => \A n \in DOMAIN mainQueue' : Sooner(log', main'.irp, mainQueue'[n])
    BY <1>1, <1>6, <2>2, <2>5, <2>7 DEF Popping, Cutting
  <2>10. \A r \in Pipe', n \in DOMAIN mainQueue' : Sooner(log', r.irp, mainQueue'[n])
    BY <1>1, <2>2, <2>3, <2>6, <2>7
  <2>. QED
    BY <2>8, <2>9, <2>10 DEF Queued
<1>. QED
  BY <1>2, <1>3, <1>4, <1>5, <1>6, MainMoves

\* What the main thread pops comes after all that it has handed on.
LEMMA EnteredStep == ASSUME IInv, [Next]_vars PROVE Entered'
<1>1. /\ Popping => \A r \in Pipe : Sooner(log', r.irp, main.irp)
      /\ Cutting => \A r \in Pipe : Precedes(log', r, main)
  BY OrderGrows DEF IInv, Entered
<1>2. CASE MainPush
  <2>1. /\ Cutting /\ ~Popping' /\ main \in [pc : MainSteps, irp : Irps, sector : Sectors, buffer : Buffers,
                                              encrypted : BOOLEAN]
        /\ Cutting' => main'.irp = main.irp /\ main'.sector = main.sector + 1
    BY <1>2, PushedAppended DEF IInv, Types, MainType, MainPush, Popping, Cutting
  <2>2. Cutting' => \A r \in Pipe \cup {Pushed} : Precedes(log', r, main')
    <3>. SUFFICES ASSUME Cutting', NEW r \in Pipe \cup {Pushed} PROVE Precedes(log', r, main')
      OBVIOUS
    <3>1. main.sector \in Int
      BY <2>1, QueueAssumption DEF Sectors
    <3>2. CASE r \in Pipe
      <4>1. r.sector \in Int /\ Precedes(log', r, main)
        BY <1>1, <2>1, <3>2, PipeSound, QueueAssumption DEF Piece, Sectors
      <4>. QED
        BY <2>1, <3>1, <4>1 DEF Precedes
    <3>3. CASE r = Pushed
      BY <2>1, <3>1, <3>3 DEF Precedes, Pushed
    <3>. QED
      BY <3>2, <3>3
  <2>. QED
    BY <2>1, <2>2, PipeShrinks DEF Entered
<1>3. CASE ~MainPush /\ (MainStays \/ UNCHANGED main)
  BY <1>1, <1>3, PipeShrinks DEF Entered, MainStays, Popping, Cutting, Precedes
<1>4. CASE MainPop
  <2>1. /\ mainQueue \in Seq(Irps) /\ mainQueue # <<>> /\ main'.irp = Head(mainQueue)
        /\ main'.pc = "popped" /\ main.pc = "pop"
    BY <1>4 DEF IInv, Types, ListTypes, MainType, MainPop
  <2>2. \A r \in Pipe : Sooner(log', r.irp, main'.irp)
    BY <2>1, HeadTail, OrderGrows DEF IInv, Queued
  <2>. QED
    BY <2>1, <2>2, PipeShrinks DEF Entered, MainPush, Cutting
<1>5. CASE MainAccept
  <2>1. main.pc = "dispatch" /\ main'.pc = "fragment" /\ main'.irp = main.irp /\ Popping
    BY <1>5 DEF IInv, Types, MainType, MainAccept, Popping
  <2>2. \A r \in Pipe : Precedes(log', r, main')
    BY <1>1, <2>1, PoppedAlone DEF Precedes
  <2>. QED
    BY <2>1, <2>2, PipeShrinks DEF Entered, MainPush, Popping
<1>. QED
  BY <1>2, <1>3, <1>4, <1>5, MainMoves

\* Each stage hands its fragments on in order.
LEMMA OrderedStep == ASSUME IInv, [Next]_vars PROVE Ordered'
<1>1. /\ \A m, n \in DOMAIN ioQueue : m < n => Precedes(log', ioQueue[m], ioQueue[n])
      /\ \A m, n \in DOMAIN completionQueue :
             m < n => Precedes(log', completionQueue[m], completionQueue[n])
      /\ Order(log', InIo, InIoQueue)
      /\ Order(log', InCompletionQueue, InIo \cup InIoQueue)
      /\ Order(log', InCompletion, InCompletionQueue \cup InIo \cup InIoQueue)
  BY OrderGrows DEF IInv, Ordered, Order
<1>2. CASE PipeStays
  BY <1>1, <1>2 DEF PipeStays, Ordered, Order, InIoQueue, InCompletionQueue
<1>3. CASE MainPush
  <2>1. \A r \in Pipe : Precedes(log', r, Pushed)
    BY <1>3, PushedAppended, OrderGrows DEF IInv, Entered, Precedes, Pushed
  <2>2. InIoQueue' = InIoQueue \cup {Pushed} /\ InIo' = InIo /\ InCompletion' = InCompletion
    BY <1>3, PushedAppended DEF InIoQueue, InIo, InCompletion, IoBusy, CompletionBusy
  <2>3. \A m, n \in DOMAIN ioQueue' : m < n => Precedes(log', ioQueue'[m], ioQueue'[n])
    <3>. SUFFICES ASSUME NEW m \in DOMAIN ioQueue', NEW n \in DOMAIN ioQueue', m < n
                  PROVE  Precedes(log', ioQueue'[m], ioQueue'[n])
      OBVIOUS
    <3>1. m \in DOMAIN ioQueue /\ (n \in DOMAIN ioQueue \/ n = Len(ioQueue) + 1)
      BY <1>3, PushedAppended
    <3>. QED
      BY <1>1, <1>3, <2>1, <3>1, PushedAppended DEF Pipe, InIoQueue
  <2>4. InCompletionQueue' = InCompletionQueue /\ UNCHANGED completionQueue
    BY <1>3, PushedAppended DEF InCompletionQueue
  <2>. QED
    BY <1>1, <2>1, <2>2, <2>3, <2>4 DEF Ordered, Order, Pipe
<1>4. CASE IoPop
  <2>1. /\ ioQueue \in Seq(Piece) /\ ioQueue # <<>> /\ ioQueue' = Tail(ioQueue)
        /\ InIo' = {Head(ioQueue)} /\ UNCHANGED <<completion, completionQueue>>
    BY <1>4 DEF IInv, Types, ListTypes, IoType, IoPop, InIo, IoBusy
  <2>2. /\ Head(ioQueue) = ioQueue[1] /\ 1 \in DOMAIN ioQueue
        /\ \A n \in DOMAIN ioQueue' :
               n + 1 \in DOMAIN ioQueue /\ ioQueue'[n] = ioQueue[n + 1] /\ n \in Nat /\ n >= 1
    BY <2>1, HeadTail
  <2>3. Head(ioQueue) \in InIoQueue /\ InIoQueue' \subseteq InIoQueue
    BY <2>2 DEF InIoQueue
  <2>4. \A m, n \in DOMAIN ioQueue' : m < n => Precedes(log', ioQueue'[m], ioQueue'[n])
    BY <1>1, <2>2
  <2>5. Order(log', InIo', InIoQueue')
    <3>1. \A n \in DOMAIN ioQueue' : Precedes(log', Head(ioQueue), ioQueue'[n])
      BY <1>1, <2>2
    <3>. QED
      BY <2>1, <3>1 DEF Order, InIoQueue
  <2>6. InCompletion' = InCompletion /\ InCompletionQueue' = InCompletionQueue
    BY <2>1 DEF InCompletion, InCompletionQueue, CompletionBusy
  <2>. QED
    BY <1>1, <2>1, <2>3, <2>4, <2>5, <2>6 DEF Ordered, Order
<1>5. CASE IoDeliver
  <2>1. /\ completionQueue \in Seq(Piece) /\ io.request \in Piece
        /\ completionQueue' = Append(completionQueue, io.request)
        /\ UNCHANGED <<ioQueue, completion>> /\ InIo = {io.request} /\ InIo' = {}
    BY <1>5 DEF IInv, Types, ListTypes, IoType, IoDeliver, Current, InIo, IoBusy
  <2>2. /\ DOMAIN completionQueue = 1 .. Len(completionQueue) /\ Len(completionQueue) \in Nat
        /\ DOMAIN completionQueue' = 1 .. Len(completionQueue) + 1
        /\ \A n \in DOMAIN completionQueue : completionQueue'[n] = completionQueue[n]
        /\ completionQueue'[Len(completionQueue) + 1] = io.request
    BY <2>1, Appended
  <2>3. InCompletionQueue' = InCompletionQueue \cup {io.request}
    BY <2>2 DEF InCompletionQueue
  <2>4. \A m, n \in DOMAIN completionQueue' :
            m < n => Precedes(log', completionQueue'[m], completionQueue'[n])
    <3>. SUFFICES ASSUME NEW m \in DOMAIN completionQueue', NEW n \in DOMAIN completionQueue', m < n
                  PROVE  Precedes(log', completionQueue'[m], completionQueue'[n])
      OBVIOUS
    <3>1. m \in DOMAIN completionQueue /\ (n \in DOMAIN completionQueue \/ n = Len(completionQueue) + 1)
      BY <2>2
    <3>2. completionQueue[m] \in InCompletionQueue
      BY <3>1 DEF InCompletionQueue
    <3>. QED
      BY <1>1, <2>1, <2>2, <3>1, <3>2 DEF Order
  <2>5. InCompletion' = InCompletion /\ InIoQueue' = InIoQueue
    BY <2>1 DEF InCompletion, InIoQueue, CompletionBusy
  <2>. QED
    BY <1>1, <2>1, <2>3, <2>4, <2>5 DEF Ordered, Order
<1>6. CASE CompletionPop
  <2>1. /\ completionQueue \in Seq(Piece) /\ completionQueue # <<>>
        /\ completionQueue' = Tail(completionQueue)
        /\ InCompletion' = {Head(completionQueue)} /\ UNCHANGED <<io, ioQueue>>
    BY <1>6 DEF IInv, Types, ListTypes, CompletionPop, InCompletion, CompletionBusy
  <2>2. /\ Head(completionQueue) = completionQueue[1] /\ 1 \in DOMAIN completionQueue
        /\ \A n \in DOMAIN completionQueue' :
               /\ n + 1 \in DOMAIN completionQueue /\ completionQueue'[n] = completionQueue[n + 1]
               /\ n \in Nat /\ n >= 1
    BY <2>1, HeadTail
  <2>3. Head(completionQueue) \in InCompletionQueue /\ InCompletionQueue' \subseteq InCompletionQueue
    BY <2>2 DEF InCompletionQueue
  <2>4. \A m, n \in DOMAIN completionQueue' :
            m < n => Precedes(log', completionQueue'[m], completionQueue'[n])
    BY <1>1, <2>2
  <2>5. Order(log', InCompletion', InCompletionQueue')
    <3>1. \A n \in DOMAIN completionQueue' : Precedes(log', Head(completionQueue), completionQueue'[n])
      BY <1>1, <2>2
    <3>. QED
      BY <2>1, <3>1 DEF Order, InCompletionQueue
  <2>6. InIo' = InIo /\ InIoQueue' = InIoQueue
    BY <2>1 DEF InIo, InIoQueue, IoBusy
  <2>. QED
    BY <1>1, <2>1, <2>3, <2>4, <2>5, <2>6 DEF Ordered, Order
<1>. QED
  BY <1>2, <1>3, <1>4, <1>5, <1>6, PipeMoves
-----------------------------------------------------------------------------
(* Counting *)

Moved(j) == \A i \in Irps \ {j} : irp'[i].at = irp[i].at

Counting == {OpenAt, PermitAt, ActiveAt, TakenAt, {"queued"}}

\* When one request moves, a count changes by its leaving and its arrival.
LEMMA CountMoves ==
    ASSUME IsFiniteSet(Made), NEW j \in Irps, Moved(j), NEW Z \in Counting
    PROVE  /\ Count(irp, Z) \in Nat /\ Count(irp', Z) \in Nat
           /\ Count(irp', Z) = Count(irp, Z) + One(irp'[j].at \in Z) - One(irp[j].at \in Z)
<1>. DEFINE S == {i \in Irps : irp[i].at \in Z}
            T == {i \in Irps : irp'[i].at \in Z}
<1>0. /\ Count(irp, Z) = Cardinality(S) /\ Count(irp', Z) = Cardinality(T)
      /\ irp[j].at \in Z <=> j \in S
      /\ irp'[j].at \in Z <=> j \in T
  BY DEF Count
<1>1. "new" \notin Z
  BY DEF Counting, OpenAt, PermitAt, ActiveAt, TakenAt
<1>2. IsFiniteSet(S) /\ Cardinality(S) \in Nat
  <2>1. S \subseteq Made
    BY <1>1 DEF Made
  <2>. QED
    BY <2>1, FS_Subset, FS_CardinalityType
<1>3. T \ {j} = S \ {j}
  BY DEF Moved
<1>. HIDE DEF S, T
<1>4. /\ Cardinality(S \cup {j}) = IF j \in S THEN Cardinality(S) ELSE Cardinality(S) + 1
      /\ Cardinality(S \ {j}) = IF j \in S THEN Cardinality(S) - 1 ELSE Cardinality(S)
      /\ IsFiniteSet(S \cup {j}) /\ IsFiniteSet(S \ {j})
  BY <1>2, FS_AddElement, FS_RemoveElement
<1>5. CASE j \in T
  <2>1. T = S \cup {j}
    BY <1>3, <1>5
  <2>. QED
    BY <1>0, <1>2, <1>4, <1>5, <2>1, FS_CardinalityType DEF One
<1>6. CASE j \notin T
  <2>1. T = S \ {j}
    BY <1>3, <1>6
  <2>. QED
    BY <1>0, <1>2, <1>4, <1>6, <2>1, FS_CardinalityType DEF One
<1>. QED
  BY <1>5, <1>6

\* A count is a number, and zero only if nobody is there.
LEMMA CountType ==
    ASSUME IsFiniteSet(Made), NEW Z \in Counting
    PROVE  Count(irp, Z) \in Nat /\ (Count(irp, Z) = 0 => \A i \in Irps : irp[i].at \notin Z)
<1>. DEFINE S == {i \in Irps : irp[i].at \in Z}
<1>1. S \subseteq Made
  BY DEF Counting, OpenAt, PermitAt, ActiveAt, TakenAt, Made
<1>2. IsFiniteSet(S) /\ Cardinality(S) \in Nat
  BY <1>1, FS_Subset, FS_CardinalityType
<1>. QED
  BY <1>2, FS_EmptySet DEF Count

Shifted(j, Z) ==
    /\ Count(irp, Z) \in Nat /\ Count(irp', Z) \in Nat
    /\ Count(irp', Z) = Count(irp, Z) + One(irp'[j].at \in Z) - One(irp[j].at \in Z)

\* The threads have not been told to exit while a request is to be handed on.
LEMMA HandingOn ==
    ASSUME IInv
    PROVE  /\ io.pc = "hand" => /\ ~exitRequested /\ io.request.irp \in Irps
                                /\ irp[io.request.irp].at = "queued"
           /\ completion.pc = "hand" => /\ ~exitRequested /\ completion.request.irp \in Irps
                                        /\ irp[completion.request.irp].at = "queued"
BY DEF IInv, Types, IoType, CompletionType, Piece, IoHas, IoBusy, CompletionHas, CompletionBusy,
       Sound, Stopping, Exiting

\* CountMoves, for the five counts of the invariant.
LEMMA CountsMove ==
    ASSUME IInv, NEW j \in Irps, Moved(j)
    PROVE  /\ Shifted(j, OpenAt) /\ Shifted(j, PermitAt) /\ Shifted(j, ActiveAt)
           /\ Shifted(j, TakenAt) /\ Shifted(j, {"queued"})
BY CountMoves DEF IInv, Counted, Counting, Shifted

\* A count stays when the same requests are there.
LEMMA SameCount ==
    ASSUME NEW Z, \A i \in Irps : irp'[i].at \in Z <=> irp[i].at \in Z
    PROVE  Count(irp', Z) = Count(irp, Z)
<1>1. {i \in Irps : irp'[i].at \in Z} = {i \in Irps : irp[i].at \in Z}
  OBVIOUS
<1>. QED
  BY <1>1 DEF Count

\* A step that touches neither the count nor what it stands for.
LEMMA OutstandingStays ==
    ASSUME IInv, UNCHANGED <<outstanding, MainCounted, IoCounted>>,
           \A i \in Irps : irp'[i].at \in OpenAt <=> irp[i].at \in OpenAt
    PROVE  OutstandingCounted'
BY SameCount DEF IInv, Counted, OutstandingCounted

\* A step that touches neither the semaphore nor the work items.
LEMMA PermitsStay ==
    ASSUME IInv, UNCHANGED <<permits, IoPermit, CompletionPermit>>,
           \A i \in Irps : irp'[i].at \in PermitAt <=> irp[i].at \in PermitAt
    PROVE  PermitsCounted'
BY SameCount DEF IInv, Counted, PermitsCounted

\* A step that touches neither ActiveWorkItems nor the active work items.
LEMMA ActiveStays ==
    ASSUME IInv, UNCHANGED activeWorkItems,
           \A i \in Irps : irp'[i].at \in ActiveAt <=> irp[i].at \in ActiveAt
    PROVE  ActiveCounted'
BY SameCount DEF IInv, Counted, ActiveCounted

\* A step that touches neither the items in use nor who uses them.
LEMMA ItemsStay ==
    ASSUME IInv, UNCHANGED <<itemsInUse, Len(mainQueue), MainWaits>>,
           \A i \in Irps : irp'[i].at \in TakenAt <=> irp[i].at \in TakenAt,
           \A i \in Irps : irp'[i].at \in {"queued"} <=> irp[i].at \in {"queued"}
    PROVE  ItemsCounted'
<1>1. Count(irp', TakenAt) = Count(irp, TakenAt) /\ Count(irp', {"queued"}) = Count(irp, {"queued"})
  BY SameCount
<1>. QED
  BY <1>1 DEF IInv, Counted, ItemsCounted

\* At any time finitely many requests have been made.
LEMMA MadeStep == ASSUME IInv, [Next]_vars PROVE IsFiniteSet(Made')
<1>1. CASE Made' \subseteq Made
  BY <1>1, FS_Subset DEF IInv, Counted
<1>2. ASSUME NEW i \in Irps, Made' \subseteq Made \cup {i} PROVE IsFiniteSet(Made')
  BY <1>2, FS_Subset, FS_AddElement DEF IInv, Counted
<1>3. ASSUME NEW i \in Irps, AddIrp(i) \/ Work(i) PROVE Made' \subseteq Made \cup {i}
  BY <1>3 DEF IInv, Types, IrpType, Made, AddIrp, AddCount, AddTest, AddQueue, AddRefuse, AddRefuseSignal, Work,
     WorkComplete, WorkUncount, WorkSignal, WorkInactive, WorkSignalInactive, WorkReturn,
     WorkFreeItem, At
<1>4. CASE Main \/ Io \/ Completion
  <2>1. CASE UNCHANGED irp
    BY <1>1, <2>1 DEF Made
  <2>2. CASE MainRefuse \/ MainFail \/ MainReadDone \/ MainFreeItem
    <3>1. main.irp \in Made /\ irp' = [irp EXCEPT ![main.irp] = irp'[main.irp]]
      BY <2>2 DEF IInv, Types, IrpType, MainType, MainHas, Made, Popping, Ending, MainAt, Complete,
         MainRefuse, MainFail, MainReadDone, MainFreeItem
    <3>. QED
      BY <1>1, <3>1 DEF IInv, Types, IrpType, Made
  <2>3. CASE IoFail \/ IoHand
    <3>1. io.request.irp \in Made /\ irp' = [irp EXCEPT ![io.request.irp] = irp'[io.request.irp]]
      BY <2>3 DEF IInv, Types, IrpType, IoType, Piece, IoHas, IoBusy, Sound, Made, IoAt, Current, Hand,
         IoFail, IoHand
    <3>. QED
      BY <1>1, <3>1 DEF IInv, Types, IrpType, Made
  <2>4. CASE CompletionHand
    <3>. DEFINE j == completion.request.irp
    <3>1. j \in Made /\ irp' = [irp EXCEPT ![j] = irp'[j]]
      BY <2>4 DEF IInv, Types, IrpType, CompletionType, Piece, CompletionHas, CompletionBusy, Sound,
         Made, CompletionAt, Finishing, Hand, CompletionHand
    <3>. QED
      BY <1>1, <3>1 DEF IInv, Types, IrpType, Made
  <2>. QED
    BY <1>4, <2>1, <2>2, <2>3, <2>4
       DEF Main, MainEmpty, MainWait, MainPop, MainTestSuspended, MainHeld, MainGetItem,
           MainWaitPool, MainRead, MainUncount, MainSignal, MainAccept, MainFragment,
           MainGetRequest, MainAcquire, MainPush, Io, IoWait, IoEmpty, IoPop, IoSkip, IoWrite,
           IoRead, IoWritten, IoReadDone, IoDeliver, IoReadAhead, IoUncount, IoSignal,
           IoFreeRequest, IoTakeWorkItem, Completion, CompletionWait, CompletionEmpty,
           CompletionPop, CompletionDecrypt, CompletionTakeWorkItem, CompletionFreeRequest
<1>5. CASE Hold \/ Stop
  BY <1>1, <1>5, HoldFrame, StopFrame DEF Made
<1>6. CASE UNCHANGED vars
  BY <1>1, <1>6 DEF vars, Made
<1>. QED
  BY <1>2, <1>3, <1>4, <1>5, <1>6 DEF Next
\* Whoever counts or uncounts the queue as busy.
LEMMA OutstandingCountedStep == ASSUME IInv, [Next]_vars PROVE OutstandingCounted'
<1>0. /\ Count(irp, OpenAt) \in Int /\ MainCounted \in Int /\ IoCounted \in Int /\ outstanding \in Int
      /\ outstanding = Count(irp, OpenAt) + MainCounted + IoCounted
  BY CountType, QueueAssumption
     DEF IInv, Counted, OutstandingCounted, Types, NumberTypes, ListTypes, Counting, MainCounted, IoCounted, One
<1>1. CASE UNCHANGED vars
  BY <1>1, OutstandingStays DEF IInv, vars, Types, MainType, IoType, MainCounted, IoCounted,
     One, OpenAt
<1>2. ASSUME NEW i \in Irps, AddIrp(i) PROVE OutstandingCounted'
  <2>1. CASE AddCount(i)
    <3>1. /\ i \in Irps /\ Moved(i)
          /\ irp[i].at = "new" /\ irp'[i].at = "counted"
      BY <2>1 DEF IInv, AddCount, Types, IrpType, Moved
    <3>2. Count(irp', OpenAt) = Count(irp, OpenAt) + 1
      BY <3>1, CountsMove DEF Shifted, One, OpenAt
    <3>3. /\ outstanding' = outstanding + 1
          /\ UNCHANGED <<MainCounted, IoCounted>>
      BY <2>1 DEF IInv, AddCount, Types, NumberTypes, MainCounted, IoCounted, One
    <3>. QED
      BY <1>0, <3>2, <3>3 DEF OutstandingCounted
  <2>2. CASE AddTest(i)
    BY <2>2, OutstandingStays DEF IInv, AddTest, At, Types, MainType, IoType, MainCounted,
       IoCounted, One, OpenAt, IrpType
  <2>3. CASE AddQueue(i)
    BY <2>3, OutstandingStays DEF IInv, AddQueue, At, Set, Types, MainType, IoType,
       MainCounted, IoCounted, One, OpenAt, IrpType
  <2>4. CASE AddRefuse(i)
    <3>1. /\ i \in Irps /\ Moved(i)
          /\ irp[i].at = "refusing" /\ irp'[i].at = IF LastOutstanding THEN "refusalSignal" ELSE "refused"
      BY <2>4 DEF IInv, AddRefuse, At, Uncount, LastOutstanding, Types, IrpType, Moved
    <3>2. Count(irp', OpenAt) = Count(irp, OpenAt) - 1
      BY <3>1, CountsMove DEF Shifted, One, OpenAt, LastOutstanding
    <3>3. /\ outstanding' = outstanding - 1
          /\ UNCHANGED <<MainCounted, IoCounted>>
      BY <2>4 DEF IInv, AddRefuse, At, Uncount, LastOutstanding, Types, NumberTypes, MainCounted,
         IoCounted, One
    <3>. QED
      BY <1>0, <3>2, <3>3 DEF OutstandingCounted
  <2>5. CASE AddRefuseSignal(i)
    BY <2>5, OutstandingStays DEF IInv, AddRefuseSignal, At, SignalNoOutstanding, Types,
       MainType, IoType, MainCounted, IoCounted, One, OpenAt, IrpType
  <2>. QED
    BY <1>2, <2>1, <2>2, <2>3, <2>4, <2>5 DEF AddIrp
<1>3. ASSUME NEW i \in Irps, Work(i) PROVE OutstandingCounted'
  <2>1. CASE WorkComplete(i)
    BY <2>1, OutstandingStays DEF IInv, WorkComplete, Types, MainType, IoType, MainCounted,
       IoCounted, One, OpenAt, IrpType
  <2>2. CASE WorkUncount(i)
    <3>1. /\ i \in Irps /\ Moved(i)
          /\ irp[i].at = "delivered" /\ irp'[i].at = IF LastOutstanding THEN "signal" ELSE "uncounted"
      BY <2>2 DEF IInv, WorkUncount, At, Uncount, LastOutstanding, Types, IrpType, Moved
    <3>2. Count(irp', OpenAt) = Count(irp, OpenAt) - 1
      BY <3>1, CountsMove DEF Shifted, One, OpenAt, LastOutstanding
    <3>3. /\ outstanding' = outstanding - 1
          /\ UNCHANGED <<MainCounted, IoCounted>>
      BY <2>2 DEF IInv, WorkUncount, At, Uncount, LastOutstanding, Types, NumberTypes,
         MainCounted, IoCounted, One
    <3>. QED
      BY <1>0, <3>2, <3>3 DEF OutstandingCounted
  <2>3. CASE WorkSignal(i)
    BY <2>3, OutstandingStays DEF IInv, WorkSignal, At, SignalNoOutstanding, Types, MainType,
       IoType, MainCounted, IoCounted, One, OpenAt, IrpType
  <2>4. CASE WorkInactive(i)
    BY <2>4, OutstandingStays DEF IInv, WorkInactive, At, Types, MainType, IoType, MainCounted,
       IoCounted, One, OpenAt, IrpType
  <2>5. CASE WorkSignalInactive(i)
    BY <2>5, OutstandingStays DEF IInv, WorkSignalInactive, At, Set, Types, MainType, IoType,
       MainCounted, IoCounted, One, OpenAt, IrpType
  <2>6. CASE WorkReturn(i)
    BY <2>6, OutstandingStays DEF IInv, WorkReturn, At, Types, MainType, IoType, MainCounted,
       IoCounted, One, OpenAt, IrpType
  <2>7. CASE WorkFreeItem(i)
    BY <2>7, OutstandingStays DEF IInv, WorkFreeItem, At, Set, Types, MainType, IoType,
       MainCounted, IoCounted, One, OpenAt, IrpType
  <2>. QED
    BY <1>3, <2>1, <2>2, <2>3, <2>4, <2>5, <2>6, <2>7 DEF Work
<1>4. CASE Main
  <2>1. CASE MainRefuse
    <3>1. /\ main.irp \in Irps /\ Moved(main.irp)
          /\ irp[main.irp].at = "queued" /\ irp'[main.irp].at = "completed"
      BY <2>1 DEF IInv, MainRefuse, MainAt, Complete, Refused, Types, IrpType, Moved, MainType,
         MainHas, Popping, Ending
    <3>2. Count(irp', OpenAt) = Count(irp, OpenAt) - 1
      BY <3>1, CountsMove DEF Shifted, One, OpenAt
    <3>3. /\ MainCounted' = MainCounted + 1
          /\ UNCHANGED <<outstanding, IoCounted>>
      BY <2>1 DEF IInv, MainRefuse, MainAt, Complete, Refused, Types, NumberTypes, MainType,
         MainCounted, IoCounted, One
    <3>. QED
      BY <1>0, <3>2, <3>3 DEF OutstandingCounted
  <2>2. CASE MainFail
    <3>1. /\ main.irp \in Irps /\ Moved(main.irp)
          /\ irp[main.irp].at = "queued" /\ irp'[main.irp].at = "completed"
      BY <2>2 DEF IInv, MainFail, MainAt, Complete, Types, IrpType, Moved, MainType, MainHas,
         Popping, Ending
    <3>2. Count(irp', OpenAt) = Count(irp, OpenAt) - 1
      BY <3>1, CountsMove DEF Shifted, One, OpenAt
    <3>3. /\ MainCounted' = MainCounted + 1
          /\ UNCHANGED <<outstanding, IoCounted>>
      BY <2>2 DEF IInv, MainFail, MainAt, Complete, Types, NumberTypes, MainType, MainCounted,
         IoCounted, One
    <3>. QED
      BY <1>0, <3>2, <3>3 DEF OutstandingCounted
  <2>3. CASE MainReadDone
    <3>1. /\ main.irp \in Irps /\ Moved(main.irp)
          /\ irp[main.irp].at = "queued" /\ irp'[main.irp].at = "completed"
      BY <2>3 DEF IInv, MainReadDone, MainAt, Complete, Types, IrpType, Moved, MainType, MainHas,
         Popping, Ending
    <3>2. Count(irp', OpenAt) = Count(irp, OpenAt) - 1
      BY <3>1, CountsMove DEF Shifted, One, OpenAt
    <3>3. /\ MainCounted' = MainCounted + 1
          /\ UNCHANGED <<outstanding, IoCounted>>
      BY <2>3 DEF IInv, MainReadDone, MainAt, Complete, Types, NumberTypes, MainType, MainCounted,
         IoCounted, One
    <3>. QED
      BY <1>0, <3>2, <3>3 DEF OutstandingCounted
  <2>4. CASE MainUncount
    <3>2. Count(irp', OpenAt) = Count(irp, OpenAt)
      BY <2>4 DEF MainUncount
    <3>3. /\ outstanding' = outstanding - 1
          /\ MainCounted' = MainCounted - 1
          /\ UNCHANGED IoCounted
      BY <2>4 DEF IInv, MainUncount, MainAt, Uncount, LastOutstanding, Types, NumberTypes,
         MainType, MainCounted, IoCounted, One
    <3>. QED
      BY <1>0, <3>2, <3>3 DEF OutstandingCounted
  <2>5. CASE MainFreeItem
    BY <2>5, OutstandingStays DEF IInv, MainFreeItem, MainAt, Set, Types, MainType, IoType,
       MainCounted, IoCounted, One, OpenAt, IrpType, MainHas, Popping, Ending
  <2>6. CASE MainEmpty \/ MainWait \/ MainPop \/ MainTestSuspended \/ MainHeld \/ MainGetItem
             \/ MainWaitPool \/ MainRead \/ MainSignal \/ MainAccept \/ MainFragment
             \/ MainGetRequest \/ MainAcquire \/ MainPush
    BY <2>6, OutstandingStays DEF IInv, MainEmpty, MainAt, MainWait, Wait, MainPop,
       MainTestSuspended, MainHeld, MainGetItem, MainWaitPool, MainRead, MainSignal,
       SignalNoOutstanding, MainAccept, Refused, MainFragment, MainGetRequest, MainAcquire,
       Encrypt, MainPush, Set, Types, MainType, IoType, MainCounted, IoCounted, One, OpenAt
  <2>. QED
    BY <1>4, <2>1, <2>2, <2>3, <2>4, <2>5, <2>6 DEF Main
<1>5. CASE Io
  <2>1. CASE IoFail
    BY <2>1, OutstandingStays DEF IInv, IoFail, IoAt, Current, Types, MainType, IoType,
       MainCounted, IoCounted, One, OpenAt, IrpType, Piece, IoHas, IoBusy, Sound
  <2>2. CASE IoReadDone
    <3>2. Count(irp', OpenAt) = Count(irp, OpenAt)
      BY <2>2 DEF IoReadDone
    <3>3. /\ \/ outstanding' = outstanding /\ IoCounted' = IoCounted
             \/ outstanding' = outstanding + 1 /\ IoCounted' = IoCounted + 1
          /\ UNCHANGED MainCounted
      BY <2>2 DEF IInv, IoReadDone, Set, Current, Received, ReadsAhead, Types, NumberTypes,
         IoType, IoHas, MainCounted, IoCounted, One
    <3>. QED
      BY <1>0, <3>2, <3>3 DEF OutstandingCounted
  <2>3. CASE IoUncount
    <3>2. Count(irp', OpenAt) = Count(irp, OpenAt)
      BY <2>3 DEF IoUncount
    <3>3. /\ outstanding' = outstanding - 1
          /\ IoCounted' = IoCounted - 1
          /\ UNCHANGED MainCounted
      BY <2>3 DEF IInv, IoUncount, IoAt, Uncount, LastOutstanding, Types, NumberTypes, IoType,
         IoHas, MainCounted, IoCounted, One
    <3>. QED
      BY <1>0, <3>2, <3>3 DEF OutstandingCounted
  <2>4. CASE IoHand
    BY <2>4, OutstandingStays DEF IInv, IoHand, IoAt, Hand, Current, Types, MainType, IoType,
       MainCounted, IoCounted, One, OpenAt, IrpType, Piece, IoHas, IoBusy, Sound
  <2>5. CASE IoWait \/ IoEmpty \/ IoPop \/ IoSkip \/ IoWrite \/ IoRead \/ IoWritten \/ IoDeliver
             \/ IoReadAhead \/ IoSignal \/ IoFreeRequest \/ IoTakeWorkItem
    BY <2>5, OutstandingStays DEF IInv, IoWait, IoAt, Wait, IoEmpty, IoPop, IoSkip, Current,
       IoWrite, IoRead, IoWritten, Set, IoDeliver, IoReadAhead, IoSignal, SignalNoOutstanding,
       IoFreeRequest, IoTakeWorkItem, TakeWorkItem, Types, MainType, IoType, MainCounted,
       IoCounted, One, OpenAt
  <2>. QED
    BY <1>5, <2>1, <2>2, <2>3, <2>4, <2>5 DEF Io
<1>6. CASE Completion
  <2>1. CASE CompletionHand
    <3>1. /\ completion.request.irp \in Irps /\ Moved(completion.request.irp)
          /\ irp[completion.request.irp].at = "queued" /\ irp'[completion.request.irp].at = "handed"
      BY <2>1, HandingOn DEF IInv, CompletionHand, CompletionAt, Hand, Finishing, Types, IrpType,
         Moved
    <3>2. Count(irp', OpenAt) = Count(irp, OpenAt)
      BY <3>1, CountsMove DEF Shifted, One, OpenAt
    <3>3. UNCHANGED <<outstanding, MainCounted, IoCounted>>
      BY <2>1, HandingOn DEF IInv, CompletionHand, CompletionAt, Hand, Finishing, Types,
         NumberTypes, CompletionType, MainCounted, IoCounted, One
    <3>. QED
      BY <1>0, <3>2, <3>3 DEF OutstandingCounted
  <2>2. CASE CompletionWait \/ CompletionEmpty \/ CompletionPop \/ CompletionDecrypt
             \/ CompletionTakeWorkItem \/ CompletionFreeRequest
    BY <2>2, OutstandingStays DEF IInv, CompletionWait, CompletionAt, Wait, CompletionEmpty,
       CompletionPop, CompletionDecrypt, Finishing, CompletionTakeWorkItem, TakeWorkItem,
       CompletionFreeRequest, Set, Types, MainType, IoType, MainCounted, IoCounted, One, OpenAt
  <2>. QED
    BY <1>6, <2>1, <2>2 DEF Completion
<1>7. CASE Hold
  BY <1>7, HoldFrame, OutstandingStays DEF IInv, Types, MainType, IoType, MainCounted,
     IoCounted, One, OpenAt
<1>8. CASE Stop
  BY <1>8, StopFrame, OutstandingStays DEF IInv, Types, MainType, IoType, MainCounted,
     IoCounted, One, OpenAt
<1>. QED
  BY <1>1, <1>2, <1>3, <1>4, <1>5, <1>6, <1>7, <1>8 DEF Next

\* Whoever takes or returns a work item.
LEMMA PermitsCountedStep == ASSUME IInv, [Next]_vars PROVE PermitsCounted'
<1>0. /\ Count(irp, PermitAt) \in Int /\ WorkItems \in Int /\ permits \in Int
      /\ IoPermit \in Int /\ CompletionPermit \in Int
      /\ permits = WorkItems - Count(irp, PermitAt) - IoPermit - CompletionPermit
  BY CountType, QueueAssumption
     DEF IInv, Counted, PermitsCounted, Types, NumberTypes, ListTypes, Counting, IoPermit, CompletionPermit, One
<1>1. CASE UNCHANGED vars
  BY <1>1, PermitsStay DEF IInv, vars, Types, IoType, CompletionType, IoPermit,
     CompletionPermit, One, PermitAt
<1>2. ASSUME NEW i \in Irps, AddIrp(i) PROVE PermitsCounted'
  <2>1. CASE AddCount(i)
    BY <2>1, PermitsStay DEF IInv, AddCount, Types, IoType, CompletionType, IoPermit,
       CompletionPermit, One, PermitAt, IrpType
  <2>2. CASE AddTest(i)
    BY <2>2, PermitsStay DEF IInv, AddTest, At, Types, IoType, CompletionType, IoPermit,
       CompletionPermit, One, PermitAt, IrpType
  <2>3. CASE AddQueue(i)
    BY <2>3, PermitsStay DEF IInv, AddQueue, At, Set, Types, IoType, CompletionType, IoPermit,
       CompletionPermit, One, PermitAt, IrpType
  <2>4. CASE AddRefuse(i)
    BY <2>4, PermitsStay DEF IInv, AddRefuse, At, Uncount, LastOutstanding, Types, IoType,
       CompletionType, IoPermit, CompletionPermit, One, PermitAt, IrpType
  <2>5. CASE AddRefuseSignal(i)
    BY <2>5, PermitsStay DEF IInv, AddRefuseSignal, At, SignalNoOutstanding, Types, IoType,
       CompletionType, IoPermit, CompletionPermit, One, PermitAt, IrpType
  <2>. QED
    BY <1>2, <2>1, <2>2, <2>3, <2>4, <2>5 DEF AddIrp
<1>3. ASSUME NEW i \in Irps, Work(i) PROVE PermitsCounted'
  <2>1. CASE WorkComplete(i)
    BY <2>1, PermitsStay DEF IInv, WorkComplete, Types, IoType, CompletionType, IoPermit,
       CompletionPermit, One, PermitAt, IrpType
  <2>2. CASE WorkUncount(i)
    BY <2>2, PermitsStay DEF IInv, WorkUncount, At, Uncount, LastOutstanding, Types, IoType,
       CompletionType, IoPermit, CompletionPermit, One, PermitAt, IrpType
  <2>3. CASE WorkSignal(i)
    BY <2>3, PermitsStay DEF IInv, WorkSignal, At, SignalNoOutstanding, Types, IoType,
       CompletionType, IoPermit, CompletionPermit, One, PermitAt, IrpType
  <2>4. CASE WorkInactive(i)
    BY <2>4, PermitsStay DEF IInv, WorkInactive, At, Types, IoType, CompletionType, IoPermit,
       CompletionPermit, One, PermitAt, IrpType
  <2>5. CASE WorkSignalInactive(i)
    BY <2>5, PermitsStay DEF IInv, WorkSignalInactive, At, Set, Types, IoType, CompletionType,
       IoPermit, CompletionPermit, One, PermitAt, IrpType
  <2>6. CASE WorkReturn(i)
    <3>1. /\ i \in Irps /\ Moved(i)
          /\ irp[i].at = "returning" /\ irp'[i].at = "returned"
      BY <2>6 DEF IInv, WorkReturn, At, Types, IrpType, Moved
    <3>2. Count(irp', PermitAt) = Count(irp, PermitAt) - 1
      BY <3>1, CountsMove DEF Shifted, One, PermitAt
    <3>3. /\ permits' = permits + 1
          /\ UNCHANGED <<IoPermit, CompletionPermit>>
      BY <2>6 DEF IInv, WorkReturn, At, Types, NumberTypes, IoPermit, CompletionPermit, One
    <3>. QED
      BY <1>0, <3>2, <3>3 DEF PermitsCounted
  <2>7. CASE WorkFreeItem(i)
    BY <2>7, PermitsStay DEF IInv, WorkFreeItem, At, Set, Types, IoType, CompletionType,
       IoPermit, CompletionPermit, One, PermitAt, IrpType
  <2>. QED
    BY <1>3, <2>1, <2>2, <2>3, <2>4, <2>5, <2>6, <2>7 DEF Work
<1>4. CASE Main
  <2>1. CASE MainRefuse
    BY <2>1, PermitsStay DEF IInv, MainRefuse, MainAt, Complete, Refused, Types, IoType,
       CompletionType, IoPermit, CompletionPermit, One, PermitAt, IrpType, MainType, MainHas,
       Popping, Ending
  <2>2. CASE MainFail
    BY <2>2, PermitsStay DEF IInv, MainFail, MainAt, Complete, Types, IoType, CompletionType,
       IoPermit, CompletionPermit, One, PermitAt, IrpType, MainType, MainHas, Popping, Ending
  <2>3. CASE MainReadDone
    BY <2>3, PermitsStay DEF IInv, MainReadDone, MainAt, Complete, Types, IoType,
       CompletionType, IoPermit, CompletionPermit, One, PermitAt, IrpType, MainType, MainHas,
       Popping, Ending
  <2>4. CASE MainFreeItem
    BY <2>4, PermitsStay DEF IInv, MainFreeItem, MainAt, Set, Types, IoType, CompletionType,
       IoPermit, CompletionPermit, One, PermitAt, IrpType, MainType, MainHas, Popping, Ending
  <2>5. CASE MainEmpty \/ MainWait \/ MainPop \/ MainTestSuspended \/ MainHeld \/ MainGetItem
             \/ MainWaitPool \/ MainRead \/ MainUncount \/ MainSignal \/ MainAccept
             \/ MainFragment \/ MainGetRequest \/ MainAcquire \/ MainPush
    BY <2>5, PermitsStay DEF IInv, MainEmpty, MainAt, MainWait, Wait, MainPop,
       MainTestSuspended, MainHeld, MainGetItem, MainWaitPool, MainRead, MainUncount, Uncount,
       LastOutstanding, MainSignal, SignalNoOutstanding, MainAccept, Refused, MainFragment,
       MainGetRequest, MainAcquire, Encrypt, MainPush, Set, Types, IoType, CompletionType,
       IoPermit, CompletionPermit, One, PermitAt
  <2>. QED
    BY <1>4, <2>1, <2>2, <2>3, <2>4, <2>5 DEF Main
<1>5. CASE Io
  <2>1. CASE IoFail
    BY <2>1, PermitsStay DEF IInv, IoFail, IoAt, Current, Types, IoType, CompletionType,
       IoPermit, CompletionPermit, One, PermitAt, IrpType, Piece, IoHas, IoBusy, Sound
  <2>2. CASE IoTakeWorkItem
    <3>2. Count(irp', PermitAt) = Count(irp, PermitAt)
      BY <2>2 DEF IoTakeWorkItem
    <3>3. /\ permits' = permits - 1
          /\ IoPermit' = IoPermit + 1
          /\ UNCHANGED CompletionPermit
      BY <2>2 DEF IInv, IoTakeWorkItem, IoAt, TakeWorkItem, Types, NumberTypes, IoType, IoHas,
         IoPermit, CompletionPermit, One
    <3>. QED
      BY <1>0, <3>2, <3>3 DEF PermitsCounted
  <2>3. CASE IoHand
    <3>1. /\ io.request.irp \in Irps /\ Moved(io.request.irp)
          /\ irp[io.request.irp].at = "queued" /\ irp'[io.request.irp].at = "handed"
      BY <2>3, HandingOn DEF IInv, IoHand, IoAt, Hand, Current, Types, IrpType, Moved
    <3>2. Count(irp', PermitAt) = Count(irp, PermitAt) + 1
      BY <3>1, CountsMove DEF Shifted, One, PermitAt
    <3>3. /\ IoPermit' = IoPermit - 1
          /\ UNCHANGED <<permits, CompletionPermit>>
      BY <2>3, HandingOn DEF IInv, IoHand, IoAt, Hand, Current, Types, NumberTypes, IoType, IoHas,
         IoPermit, CompletionPermit, One
    <3>. QED
      BY <1>0, <3>2, <3>3 DEF PermitsCounted
  <2>4. CASE IoWait \/ IoEmpty \/ IoPop \/ IoSkip \/ IoWrite \/ IoRead \/ IoWritten
             \/ IoReadDone \/ IoDeliver \/ IoReadAhead \/ IoUncount \/ IoSignal \/ IoFreeRequest
    BY <2>4, PermitsStay DEF IInv, IoWait, IoAt, Wait, IoEmpty, IoPop, IoSkip, Current,
       IoWrite, IoRead, IoWritten, Set, IoReadDone, Received, ReadsAhead, IoDeliver,
       IoReadAhead, IoUncount, Uncount, LastOutstanding, IoSignal, SignalNoOutstanding,
       IoFreeRequest, Types, IoType, CompletionType, IoPermit, CompletionPermit, One, PermitAt
  <2>. QED
    BY <1>5, <2>1, <2>2, <2>3, <2>4 DEF Io
<1>6. CASE Completion
  <2>1. CASE CompletionTakeWorkItem
    <3>2. Count(irp', PermitAt) = Count(irp, PermitAt)
      BY <2>1 DEF CompletionTakeWorkItem
    <3>3. /\ permits' = permits - 1
          /\ CompletionPermit' = CompletionPermit + 1
          /\ UNCHANGED IoPermit
      BY <2>1 DEF IInv, CompletionTakeWorkItem, CompletionAt, TakeWorkItem, Types, NumberTypes,
         CompletionType, IoPermit, CompletionPermit, One
    <3>. QED
      BY <1>0, <3>2, <3>3 DEF PermitsCounted
  <2>2. CASE CompletionHand
    <3>1. /\ completion.request.irp \in Irps /\ Moved(completion.request.irp)
          /\ irp[completion.request.irp].at = "queued" /\ irp'[completion.request.irp].at = "handed"
      BY <2>2, HandingOn DEF IInv, CompletionHand, CompletionAt, Hand, Finishing, Types, IrpType,
         Moved
    <3>2. Count(irp', PermitAt) = Count(irp, PermitAt) + 1
      BY <3>1, CountsMove DEF Shifted, One, PermitAt
    <3>3. /\ CompletionPermit' = CompletionPermit - 1
          /\ UNCHANGED <<permits, IoPermit>>
      BY <2>2, HandingOn DEF IInv, CompletionHand, CompletionAt, Hand, Finishing, Types,
         NumberTypes, CompletionType, IoPermit, CompletionPermit, One
    <3>. QED
      BY <1>0, <3>2, <3>3 DEF PermitsCounted
  <2>3. CASE CompletionWait \/ CompletionEmpty \/ CompletionPop \/ CompletionDecrypt
             \/ CompletionFreeRequest
    BY <2>3, PermitsStay DEF IInv, CompletionWait, CompletionAt, Wait, CompletionEmpty,
       CompletionPop, CompletionDecrypt, Finishing, CompletionFreeRequest, Set, Types, IoType,
       CompletionType, IoPermit, CompletionPermit, One, PermitAt
  <2>. QED
    BY <1>6, <2>1, <2>2, <2>3 DEF Completion
<1>7. CASE Hold
  BY <1>7, HoldFrame, PermitsStay DEF IInv, Types, IoType, CompletionType, IoPermit,
     CompletionPermit, One, PermitAt
<1>8. CASE Stop
  BY <1>8, StopFrame, PermitsStay DEF IInv, Types, IoType, CompletionType, IoPermit,
     CompletionPermit, One, PermitAt
<1>. QED
  BY <1>1, <1>2, <1>3, <1>4, <1>5, <1>6, <1>7, <1>8 DEF Next

\* Whoever queues a work item, or ends one.
LEMMA ActiveCountedStep == ASSUME IInv, [Next]_vars PROVE ActiveCounted'
<1>0. /\ Count(irp, ActiveAt) \in Int /\ activeWorkItems \in Int
      /\ activeWorkItems = Count(irp, ActiveAt)
  BY CountType, QueueAssumption
     DEF IInv, Counted, ActiveCounted, Types, NumberTypes, ListTypes, Counting, One
<1>1. CASE UNCHANGED vars
  BY <1>1, ActiveStays DEF IInv, vars, Types, ActiveAt
<1>2. ASSUME NEW i \in Irps, AddIrp(i) PROVE ActiveCounted'
  <2>1. CASE AddCount(i)
    BY <2>1, ActiveStays DEF IInv, AddCount, Types, ActiveAt, IrpType
  <2>2. CASE AddTest(i)
    BY <2>2, ActiveStays DEF IInv, AddTest, At, Types, ActiveAt, IrpType
  <2>3. CASE AddQueue(i)
    BY <2>3, ActiveStays DEF IInv, AddQueue, At, Set, Types, ActiveAt, IrpType
  <2>4. CASE AddRefuse(i)
    BY <2>4, ActiveStays DEF IInv, AddRefuse, At, Uncount, LastOutstanding, Types, ActiveAt,
       IrpType
  <2>5. CASE AddRefuseSignal(i)
    BY <2>5, ActiveStays DEF IInv, AddRefuseSignal, At, SignalNoOutstanding, Types, ActiveAt,
       IrpType
  <2>. QED
    BY <1>2, <2>1, <2>2, <2>3, <2>4, <2>5 DEF AddIrp
<1>3. ASSUME NEW i \in Irps, Work(i) PROVE ActiveCounted'
  <2>1. CASE WorkComplete(i)
    BY <2>1, ActiveStays DEF IInv, WorkComplete, Types, ActiveAt, IrpType
  <2>2. CASE WorkUncount(i)
    BY <2>2, ActiveStays DEF IInv, WorkUncount, At, Uncount, LastOutstanding, Types, ActiveAt,
       IrpType
  <2>3. CASE WorkSignal(i)
    BY <2>3, ActiveStays DEF IInv, WorkSignal, At, SignalNoOutstanding, Types, ActiveAt,
       IrpType
  <2>4. CASE WorkInactive(i)
    <3>1. /\ i \in Irps /\ Moved(i)
          /\ irp[i].at = "uncounted" /\ irp'[i].at = IF activeWorkItems = 1 THEN "inactive" ELSE "returning"
      BY <2>4 DEF IInv, WorkInactive, At, Types, IrpType, Moved
    <3>2. Count(irp', ActiveAt) = Count(irp, ActiveAt) - 1
      BY <3>1, CountsMove DEF Shifted, One, ActiveAt
    <3>3. activeWorkItems' = activeWorkItems - 1
      BY <2>4 DEF IInv, WorkInactive, At, Types, NumberTypes, One
    <3>. QED
      BY <1>0, <3>2, <3>3 DEF ActiveCounted
  <2>5. CASE WorkSignalInactive(i)
    BY <2>5, ActiveStays DEF IInv, WorkSignalInactive, At, Set, Types, ActiveAt, IrpType
  <2>6. CASE WorkReturn(i)
    BY <2>6, ActiveStays DEF IInv, WorkReturn, At, Types, ActiveAt, IrpType
  <2>7. CASE WorkFreeItem(i)
    BY <2>7, ActiveStays DEF IInv, WorkFreeItem, At, Set, Types, ActiveAt, IrpType
  <2>. QED
    BY <1>3, <2>1, <2>2, <2>3, <2>4, <2>5, <2>6, <2>7 DEF Work
<1>4. CASE Main
  <2>1. CASE MainRefuse
    BY <2>1, ActiveStays DEF IInv, MainRefuse, MainAt, Complete, Refused, Types, ActiveAt,
       IrpType, MainType, MainHas, Popping, Ending
  <2>2. CASE MainFail
    BY <2>2, ActiveStays DEF IInv, MainFail, MainAt, Complete, Types, ActiveAt, IrpType,
       MainType, MainHas, Popping, Ending
  <2>3. CASE MainReadDone
    BY <2>3, ActiveStays DEF IInv, MainReadDone, MainAt, Complete, Types, ActiveAt, IrpType,
       MainType, MainHas, Popping, Ending
  <2>4. CASE MainFreeItem
    BY <2>4, ActiveStays DEF IInv, MainFreeItem, MainAt, Set, Types, ActiveAt, IrpType,
       MainType, MainHas, Popping, Ending
  <2>5. CASE MainEmpty \/ MainWait \/ MainPop \/ MainTestSuspended \/ MainHeld \/ MainGetItem
             \/ MainWaitPool \/ MainRead \/ MainUncount \/ MainSignal \/ MainAccept
             \/ MainFragment \/ MainGetRequest \/ MainAcquire \/ MainPush
    BY <2>5, ActiveStays DEF IInv, MainEmpty, MainAt, MainWait, Wait, MainPop,
       MainTestSuspended, MainHeld, MainGetItem, MainWaitPool, MainRead, MainUncount, Uncount,
       LastOutstanding, MainSignal, SignalNoOutstanding, MainAccept, Refused, MainFragment,
       MainGetRequest, MainAcquire, Encrypt, MainPush, Set, Types, ActiveAt
  <2>. QED
    BY <1>4, <2>1, <2>2, <2>3, <2>4, <2>5 DEF Main
<1>5. CASE Io
  <2>1. CASE IoFail
    BY <2>1, ActiveStays DEF IInv, IoFail, IoAt, Current, Types, ActiveAt, IrpType, IoType,
       Piece, IoHas, IoBusy, Sound
  <2>2. CASE IoHand
    <3>1. /\ io.request.irp \in Irps /\ Moved(io.request.irp)
          /\ irp[io.request.irp].at = "queued" /\ irp'[io.request.irp].at = "handed"
      BY <2>2, HandingOn DEF IInv, IoHand, IoAt, Hand, Current, Types, IrpType, Moved
    <3>2. Count(irp', ActiveAt) = Count(irp, ActiveAt) + 1
      BY <3>1, CountsMove DEF Shifted, One, ActiveAt
    <3>3. activeWorkItems' = activeWorkItems + 1
      BY <2>2, HandingOn DEF IInv, IoHand, IoAt, Hand, Current, Types, NumberTypes, IoType, IoHas,
         One
    <3>. QED
      BY <1>0, <3>2, <3>3 DEF ActiveCounted
  <2>3. CASE IoWait \/ IoEmpty \/ IoPop \/ IoSkip \/ IoWrite \/ IoRead \/ IoWritten
             \/ IoReadDone \/ IoDeliver \/ IoReadAhead \/ IoUncount \/ IoSignal \/ IoFreeRequest
             \/ IoTakeWorkItem
    BY <2>3, ActiveStays DEF IInv, IoWait, IoAt, Wait, IoEmpty, IoPop, IoSkip, Current,
       IoWrite, IoRead, IoWritten, Set, IoReadDone, Received, ReadsAhead, IoDeliver,
       IoReadAhead, IoUncount, Uncount, LastOutstanding, IoSignal, SignalNoOutstanding,
       IoFreeRequest, IoTakeWorkItem, TakeWorkItem, Types, ActiveAt
  <2>. QED
    BY <1>5, <2>1, <2>2, <2>3 DEF Io
<1>6. CASE Completion
  <2>1. CASE CompletionHand
    <3>1. /\ completion.request.irp \in Irps /\ Moved(completion.request.irp)
          /\ irp[completion.request.irp].at = "queued" /\ irp'[completion.request.irp].at = "handed"
      BY <2>1, HandingOn DEF IInv, CompletionHand, CompletionAt, Hand, Finishing, Types, IrpType,
         Moved
    <3>2. Count(irp', ActiveAt) = Count(irp, ActiveAt) + 1
      BY <3>1, CountsMove DEF Shifted, One, ActiveAt
    <3>3. activeWorkItems' = activeWorkItems + 1
      BY <2>1, HandingOn DEF IInv, CompletionHand, CompletionAt, Hand, Finishing, Types,
         NumberTypes, CompletionType, One
    <3>. QED
      BY <1>0, <3>2, <3>3 DEF ActiveCounted
  <2>2. CASE CompletionWait \/ CompletionEmpty \/ CompletionPop \/ CompletionDecrypt
             \/ CompletionTakeWorkItem \/ CompletionFreeRequest
    BY <2>2, ActiveStays DEF IInv, CompletionWait, CompletionAt, Wait, CompletionEmpty,
       CompletionPop, CompletionDecrypt, Finishing, CompletionTakeWorkItem, TakeWorkItem,
       CompletionFreeRequest, Set, Types, ActiveAt
  <2>. QED
    BY <1>6, <2>1, <2>2 DEF Completion
<1>7. CASE Hold
  BY <1>7, HoldFrame, ActiveStays DEF IInv, Types, ActiveAt
<1>8. CASE Stop
  BY <1>8, StopFrame, ActiveStays DEF IInv, Types, ActiveAt
<1>. QED
  BY <1>1, <1>2, <1>3, <1>4, <1>5, <1>6, <1>7, <1>8 DEF Next

\* Whoever takes or frees an item.
LEMMA ItemsCountedStep == ASSUME IInv, [Next]_vars PROVE ItemsCounted'
<1>0. /\ Count(irp, TakenAt) \in Int /\ Count(irp, {"queued"}) \in Int /\ itemsInUse \in Int
      /\ Len(mainQueue) \in Int /\ MainWaits \in Int
      /\ itemsInUse = Count(irp, TakenAt) + Count(irp, {"queued"}) - Len(mainQueue) - MainWaits
  BY CountType, QueueAssumption
     DEF IInv, Counted, ItemsCounted, Types, NumberTypes, ListTypes, Counting, MainWaits, One
<1>1. CASE UNCHANGED vars
  BY <1>1, ItemsStay DEF IInv, vars, Types, MainType, MainWaits, One, TakenAt
<1>2. ASSUME NEW i \in Irps, AddIrp(i) PROVE ItemsCounted'
  <2>1. CASE AddCount(i)
    BY <2>1, ItemsStay DEF IInv, AddCount, Types, MainType, MainWaits, One, TakenAt, IrpType
  <2>2. CASE AddTest(i)
    BY <2>2, ItemsStay DEF IInv, AddTest, At, Types, MainType, MainWaits, One, TakenAt, IrpType
  <2>3. CASE AddQueue(i)
    <3>1. /\ i \in Irps /\ Moved(i)
          /\ irp[i].at = "admitted" /\ irp'[i].at = "queued"
      BY <2>3 DEF IInv, AddQueue, At, Set, Types, IrpType, Moved
    <3>2. /\ Count(irp', TakenAt) = Count(irp, TakenAt)
          /\ Count(irp', {"queued"}) = Count(irp, {"queued"}) + 1
      BY <3>1, CountsMove DEF Shifted, One, TakenAt
    <3>3. /\ Len(mainQueue') = Len(mainQueue) + 1
          /\ UNCHANGED <<itemsInUse, MainWaits>>
      BY <2>3, Appended DEF IInv, AddQueue, At, Set, Types, ListTypes, MainWaits, One
    <3>. QED
      BY <1>0, <3>2, <3>3 DEF ItemsCounted
  <2>4. CASE AddRefuse(i)
    BY <2>4, ItemsStay DEF IInv, AddRefuse, At, Uncount, LastOutstanding, Types, MainType,
       MainWaits, One, TakenAt, IrpType
  <2>5. CASE AddRefuseSignal(i)
    BY <2>5, ItemsStay DEF IInv, AddRefuseSignal, At, SignalNoOutstanding, Types, MainType,
       MainWaits, One, TakenAt, IrpType
  <2>. QED
    BY <1>2, <2>1, <2>2, <2>3, <2>4, <2>5 DEF AddIrp
<1>3. ASSUME NEW i \in Irps, Work(i) PROVE ItemsCounted'
  <2>1. CASE WorkComplete(i)
    BY <2>1, ItemsStay DEF IInv, WorkComplete, Types, MainType, MainWaits, One, TakenAt,
       IrpType
  <2>2. CASE WorkUncount(i)
    BY <2>2, ItemsStay DEF IInv, WorkUncount, At, Uncount, LastOutstanding, Types, MainType,
       MainWaits, One, TakenAt, IrpType
  <2>3. CASE WorkSignal(i)
    BY <2>3, ItemsStay DEF IInv, WorkSignal, At, SignalNoOutstanding, Types, MainType,
       MainWaits, One, TakenAt, IrpType
  <2>4. CASE WorkInactive(i)
    BY <2>4, ItemsStay DEF IInv, WorkInactive, At, Types, MainType, MainWaits, One, TakenAt,
       IrpType
  <2>5. CASE WorkSignalInactive(i)
    BY <2>5, ItemsStay DEF IInv, WorkSignalInactive, At, Set, Types, MainType, MainWaits, One,
       TakenAt, IrpType
  <2>6. CASE WorkReturn(i)
    BY <2>6, ItemsStay DEF IInv, WorkReturn, At, Types, MainType, MainWaits, One, TakenAt,
       IrpType
  <2>7. CASE WorkFreeItem(i)
    <3>1. /\ i \in Irps /\ Moved(i)
          /\ irp[i].at = "returned" /\ irp'[i].at = "done"
      BY <2>7 DEF IInv, WorkFreeItem, At, Set, Types, IrpType, Moved
    <3>2. /\ Count(irp', TakenAt) = Count(irp, TakenAt) - 1
          /\ Count(irp', {"queued"}) = Count(irp, {"queued"})
      BY <3>1, CountsMove DEF Shifted, One, TakenAt
    <3>3. /\ itemsInUse' = itemsInUse - 1
          /\ UNCHANGED <<Len(mainQueue), MainWaits>>
      BY <2>7 DEF IInv, WorkFreeItem, At, Set, Types, NumberTypes, MainWaits, One
    <3>. QED
      BY <1>0, <3>2, <3>3 DEF ItemsCounted
  <2>. QED
    BY <1>3, <2>1, <2>2, <2>3, <2>4, <2>5, <2>6, <2>7 DEF Work
<1>4. CASE Main
  <2>1. CASE MainPop
    <3>2. /\ Count(irp', TakenAt) = Count(irp, TakenAt)
          /\ Count(irp', {"queued"}) = Count(irp, {"queued"})
      BY <2>1 DEF MainPop
    <3>3. /\ Len(mainQueue') = Len(mainQueue) - 1
          /\ MainWaits' = MainWaits + 1
          /\ UNCHANGED itemsInUse
      BY <2>1, HeadTail DEF IInv, MainPop, Types, NumberTypes, ListTypes, MainType, MainWaits, One
    <3>. QED
      BY <1>0, <3>2, <3>3 DEF ItemsCounted
  <2>2. CASE MainGetItem
    <3>2. /\ Count(irp', TakenAt) = Count(irp, TakenAt)
          /\ Count(irp', {"queued"}) = Count(irp, {"queued"})
      BY <2>2 DEF MainGetItem
    <3>3. /\ \/ MainWaits' = MainWaits /\ itemsInUse' = itemsInUse
             \/ MainWaits' = MainWaits - 1 /\ itemsInUse' = itemsInUse + 1
          /\ UNCHANGED Len(mainQueue)
      BY <2>2 DEF IInv, MainGetItem, MainAt, Types, NumberTypes, MainType, MainWaits, One
    <3>. QED
      BY <1>0, <3>2, <3>3 DEF ItemsCounted
  <2>3. CASE MainRefuse
    <3>1. /\ main.irp \in Irps /\ Moved(main.irp)
          /\ irp[main.irp].at = "queued" /\ irp'[main.irp].at = "completed"
      BY <2>3 DEF IInv, MainRefuse, MainAt, Complete, Refused, Types, IrpType, Moved, MainType,
         MainHas, Popping, Ending
    <3>2. /\ Count(irp', TakenAt) = Count(irp, TakenAt) + 1
          /\ Count(irp', {"queued"}) = Count(irp, {"queued"}) - 1
      BY <3>1, CountsMove DEF Shifted, One, TakenAt
    <3>3. UNCHANGED <<itemsInUse, Len(mainQueue), MainWaits>>
      BY <2>3 DEF IInv, MainRefuse, MainAt, Complete, Refused, Types, NumberTypes, MainType,
         MainWaits, One
    <3>. QED
      BY <1>0, <3>2, <3>3 DEF ItemsCounted
  <2>4. CASE MainFail
    <3>1. /\ main.irp \in Irps /\ Moved(main.irp)
          /\ irp[main.irp].at = "queued" /\ irp'[main.irp].at = "completed"
      BY <2>4 DEF IInv, MainFail, MainAt, Complete, Types, IrpType, Moved, MainType, MainHas,
         Popping, Ending
    <3>2. /\ Count(irp', TakenAt) = Count(irp, TakenAt) + 1
          /\ Count(irp', {"queued"}) = Count(irp, {"queued"}) - 1
      BY <3>1, CountsMove DEF Shifted, One, TakenAt
    <3>3. UNCHANGED <<itemsInUse, Len(mainQueue), MainWaits>>
      BY <2>4 DEF IInv, MainFail, MainAt, Complete, Types, NumberTypes, MainType, MainWaits, One
    <3>. QED
      BY <1>0, <3>2, <3>3 DEF ItemsCounted
  <2>5. CASE MainReadDone
    <3>1. /\ main.irp \in Irps /\ Moved(main.irp)
          /\ irp[main.irp].at = "queued" /\ irp'[main.irp].at = "completed"
      BY <2>5 DEF IInv, MainReadDone, MainAt, Complete, Types, IrpType, Moved, MainType, MainHas,
         Popping, Ending
    <3>2. /\ Count(irp', TakenAt) = Count(irp, TakenAt) + 1
          /\ Count(irp', {"queued"}) = Count(irp, {"queued"}) - 1
      BY <3>1, CountsMove DEF Shifted, One, TakenAt
    <3>3. UNCHANGED <<itemsInUse, Len(mainQueue), MainWaits>>
      BY <2>5 DEF IInv, MainReadDone, MainAt, Complete, Types, NumberTypes, MainType, MainWaits,
         One
    <3>. QED
      BY <1>0, <3>2, <3>3 DEF ItemsCounted
  <2>6. CASE MainFreeItem
    <3>1. /\ main.irp \in Irps /\ Moved(main.irp)
          /\ irp[main.irp].at = "completed" /\ irp'[main.irp].at = "done"
      BY <2>6 DEF IInv, MainFreeItem, MainAt, Set, Types, IrpType, Moved, MainType, MainHas,
         Popping, Ending
    <3>2. /\ Count(irp', TakenAt) = Count(irp, TakenAt) - 1
          /\ Count(irp', {"queued"}) = Count(irp, {"queued"})
      BY <3>1, CountsMove DEF Shifted, One, TakenAt
    <3>3. /\ itemsInUse' = itemsInUse - 1
          /\ UNCHANGED <<Len(mainQueue), MainWaits>>
      BY <2>6 DEF IInv, MainFreeItem, MainAt, Set, Types, NumberTypes, MainType, MainWaits, One
    <3>. QED
      BY <1>0, <3>2, <3>3 DEF ItemsCounted
  <2>7. CASE MainEmpty \/ MainWait \/ MainTestSuspended \/ MainHeld \/ MainWaitPool \/ MainRead
             \/ MainUncount \/ MainSignal \/ MainAccept \/ MainFragment \/ MainGetRequest
             \/ MainAcquire \/ MainPush
    BY <2>7, ItemsStay DEF IInv, MainEmpty, MainAt, MainWait, Wait, MainTestSuspended,
       MainHeld, MainWaitPool, MainRead, MainUncount, Uncount, LastOutstanding, MainSignal,
       SignalNoOutstanding, MainAccept, Refused, MainFragment, MainGetRequest, MainAcquire,
       Encrypt, MainPush, Set, Types, MainType, MainWaits, One, TakenAt
  <2>. QED
    BY <1>4, <2>1, <2>2, <2>3, <2>4, <2>5, <2>6, <2>7 DEF Main
<1>5. CASE Io
  <2>1. CASE IoFail
    BY <2>1, ItemsStay DEF IInv, IoFail, IoAt, Current, Types, MainType, MainWaits, One,
       TakenAt, IrpType, IoType, Piece, IoHas, IoBusy, Sound
  <2>2. CASE IoHand
    <3>1. /\ io.request.irp \in Irps /\ Moved(io.request.irp)
          /\ irp[io.request.irp].at = "queued" /\ irp'[io.request.irp].at = "handed"
      BY <2>2, HandingOn DEF IInv, IoHand, IoAt, Hand, Current, Types, IrpType, Moved
    <3>2. /\ Count(irp', TakenAt) = Count(irp, TakenAt) + 1
          /\ Count(irp', {"queued"}) = Count(irp, {"queued"}) - 1
      BY <3>1, CountsMove DEF Shifted, One, TakenAt
    <3>3. UNCHANGED <<itemsInUse, Len(mainQueue), MainWaits>>
      BY <2>2, HandingOn DEF IInv, IoHand, IoAt, Hand, Current, Types, NumberTypes, IoType, IoHas,
         MainWaits, One
    <3>. QED
      BY <1>0, <3>2, <3>3 DEF ItemsCounted
  <2>3. CASE IoWait \/ IoEmpty \/ IoPop \/ IoSkip \/ IoWrite \/ IoRead \/ IoWritten
             \/ IoReadDone \/ IoDeliver \/ IoReadAhead \/ IoUncount \/ IoSignal \/ IoFreeRequest
             \/ IoTakeWorkItem
    BY <2>3, ItemsStay DEF IInv, IoWait, IoAt, Wait, IoEmpty, IoPop, IoSkip, Current, IoWrite,
       IoRead, IoWritten, Set, IoReadDone, Received, ReadsAhead, IoDeliver, IoReadAhead,
       IoUncount, Uncount, LastOutstanding, IoSignal, SignalNoOutstanding, IoFreeRequest,
       IoTakeWorkItem, TakeWorkItem, Types, MainType, MainWaits, One, TakenAt
  <2>. QED
    BY <1>5, <2>1, <2>2, <2>3 DEF Io
<1>6. CASE Completion
  <2>1. CASE CompletionHand
    <3>1. /\ completion.request.irp \in Irps /\ Moved(completion.request.irp)
          /\ irp[completion.request.irp].at = "queued" /\ irp'[completion.request.irp].at = "handed"
      BY <2>1, HandingOn DEF IInv, CompletionHand, CompletionAt, Hand, Finishing, Types, IrpType,
         Moved
    <3>2. /\ Count(irp', TakenAt) = Count(irp, TakenAt) + 1
          /\ Count(irp', {"queued"}) = Count(irp, {"queued"}) - 1
      BY <3>1, CountsMove DEF Shifted, One, TakenAt
    <3>3. UNCHANGED <<itemsInUse, Len(mainQueue), MainWaits>>
      BY <2>1, HandingOn DEF IInv, CompletionHand, CompletionAt, Hand, Finishing, Types,
         NumberTypes, CompletionType, MainWaits, One
    <3>. QED
      BY <1>0, <3>2, <3>3 DEF ItemsCounted
  <2>2. CASE CompletionWait \/ CompletionEmpty \/ CompletionPop \/ CompletionDecrypt
             \/ CompletionTakeWorkItem \/ CompletionFreeRequest
    BY <2>2, ItemsStay DEF IInv, CompletionWait, CompletionAt, Wait, CompletionEmpty,
       CompletionPop, CompletionDecrypt, Finishing, CompletionTakeWorkItem, TakeWorkItem,
       CompletionFreeRequest, Set, Types, MainType, MainWaits, One, TakenAt
  <2>. QED
    BY <1>6, <2>1, <2>2 DEF Completion
<1>7. CASE Hold
  BY <1>7, HoldFrame, ItemsStay DEF IInv, Types, MainType, MainWaits, One, TakenAt
<1>8. CASE Stop
  BY <1>8, StopFrame, ItemsStay DEF IInv, Types, MainType, MainWaits, One, TakenAt
<1>. QED
  BY <1>1, <1>2, <1>3, <1>4, <1>5, <1>6, <1>7, <1>8 DEF Next
\* A request buffer is passed on from thread to list to thread, and then freed.
LEMMA RequestsCountedStep == ASSUME IInv, [Next]_vars PROVE RequestsCounted'
<1>0. /\ Len(ioQueue) \in Int /\ Len(completionQueue) \in Int /\ requestsInUse \in Int
      /\ MainRequest \in Int /\ IoRequest \in Int /\ CompletionRequest \in Int
      /\ requestsInUse = Len(ioQueue) + Len(completionQueue) + MainRequest + IoRequest
                         + CompletionRequest
  BY DEF IInv, Counted, RequestsCounted, Types, NumberTypes, ListTypes, MainRequest, IoRequest,
     CompletionRequest, One
<1>1. CASE UNCHANGED vars
  BY <1>1 DEF IInv, vars, Counted, RequestsCounted, Types, One, MainType, IoType,
     CompletionType, MainRequest, IoRequest, CompletionRequest
<1>2. ASSUME NEW i \in Irps, AddIrp(i) PROVE RequestsCounted'
  BY <1>2, AddFrame DEF IInv, Counted, RequestsCounted, Types, One, MainType, IoType,
     CompletionType, MainRequest, IoRequest, CompletionRequest
<1>3. ASSUME NEW i \in Irps, Work(i) PROVE RequestsCounted'
  BY <1>3, WorkFrame DEF IInv, Counted, RequestsCounted, Types, One, MainType, IoType,
     CompletionType, MainRequest, IoRequest, CompletionRequest
<1>4. CASE Main
  <2>1. CASE MainGetRequest
    <3>0. /\ main.pc = "request" /\ UNCHANGED <<ioQueue, completionQueue, io, completion>>
          /\ \/ main'.pc = "requestWait" /\ requestsInUse' = requestsInUse
             \/ main'.pc = "acquire" /\ requestsInUse' = requestsInUse + 1
      BY <2>1 DEF IInv, Types, MainType, MainGetRequest
    <3>1. /\ \/ requestsInUse' = requestsInUse /\ MainRequest' = MainRequest
             \/ requestsInUse' = requestsInUse + 1 /\ MainRequest' = MainRequest + 1
          /\ UNCHANGED <<ioQueue, completionQueue, IoRequest, CompletionRequest>>
      BY <3>0 DEF MainRequest, IoRequest, CompletionRequest, One
    <3>. QED
      BY <1>0, <3>1 DEF RequestsCounted
  <2>2. CASE MainPush
    <3>1. /\ Len(ioQueue') = Len(ioQueue) + 1 /\ MainRequest' = MainRequest - 1
          /\ UNCHANGED <<requestsInUse, completionQueue, IoRequest, CompletionRequest>>
      BY <2>2, PushedAppended, Appended DEF IInv, MainPush, Set, Types, ListTypes, One,
         MainRequest, IoRequest, CompletionRequest, MainType
    <3>. QED
      BY <1>0, <3>1 DEF RequestsCounted
  <2>3. CASE MainEmpty \/ MainWait \/ MainPop \/ MainTestSuspended \/ MainHeld \/ MainGetItem
             \/ MainWaitPool \/ MainRefuse \/ MainFail \/ MainRead \/ MainReadDone
             \/ MainUncount \/ MainSignal \/ MainFreeItem \/ MainAccept \/ MainFragment
             \/ MainAcquire
    BY <2>3 DEF IInv, MainEmpty, MainAt, MainWait, Wait, MainPop, MainTestSuspended, MainHeld,
       MainGetItem, MainWaitPool, MainRefuse, Complete, Refused, MainFail, MainRead,
       MainReadDone, MainUncount, Uncount, LastOutstanding, MainSignal, SignalNoOutstanding,
       MainFreeItem, Set, MainAccept, MainFragment, MainAcquire, Encrypt, Counted,
       RequestsCounted, Types, One, MainType, IoType, CompletionType, MainRequest, IoRequest,
       CompletionRequest
  <2>. QED
    BY <1>4, <2>1, <2>2, <2>3 DEF Main
<1>5. CASE Io
  <2>1. CASE IoPop
    <3>1. /\ Len(ioQueue') = Len(ioQueue) - 1 /\ IoRequest' = IoRequest + 1
          /\ UNCHANGED <<requestsInUse, completionQueue, MainRequest, CompletionRequest>>
      BY <2>1, HeadTail DEF IInv, IoPop, Types, ListTypes, One, MainRequest, IoRequest,
         CompletionRequest, IoType
    <3>. QED
      BY <1>0, <3>1 DEF RequestsCounted
  <2>2. CASE IoDeliver
    <3>1. /\ Len(completionQueue') = Len(completionQueue) + 1 /\ IoRequest' = IoRequest - 1
          /\ UNCHANGED <<requestsInUse, ioQueue, MainRequest, CompletionRequest>>
      BY <2>2, Appended DEF IInv, IoDeliver, Set, Current, Types, ListTypes, One, MainRequest,
         IoRequest, CompletionRequest, IoType
    <3>. QED
      BY <1>0, <3>1 DEF RequestsCounted
  <2>3. CASE IoFreeRequest
    <3>1. /\ requestsInUse' = requestsInUse - 1 /\ IoRequest' = IoRequest - 1
          /\ UNCHANGED <<ioQueue, completionQueue, MainRequest, CompletionRequest>>
      BY <2>3 DEF IInv, IoFreeRequest, IoAt, Set, Types, ListTypes, One, MainRequest, IoRequest,
         CompletionRequest, IoType
    <3>. QED
      BY <1>0, <3>1 DEF RequestsCounted
  <2>4. CASE IoWait \/ IoEmpty \/ IoSkip \/ IoFail \/ IoWrite \/ IoRead \/ IoWritten
             \/ IoReadDone \/ IoReadAhead \/ IoUncount \/ IoSignal \/ IoTakeWorkItem \/ IoHand
    BY <2>4 DEF IInv, IoWait, IoAt, Wait, IoEmpty, IoSkip, Current, IoFail, IoWrite, IoRead,
       IoWritten, Set, IoReadDone, Received, ReadsAhead, IoReadAhead, IoUncount, Uncount,
       LastOutstanding, IoSignal, SignalNoOutstanding, IoTakeWorkItem, TakeWorkItem, IoHand,
       Hand, Counted, RequestsCounted, Types, One, MainType, IoType, CompletionType,
       MainRequest, IoRequest, CompletionRequest
  <2>. QED
    BY <1>5, <2>1, <2>2, <2>3, <2>4 DEF Io
<1>6. CASE Completion
  <2>1. CASE CompletionPop
    <3>1. /\ Len(completionQueue') = Len(completionQueue) - 1
          /\ CompletionRequest' = CompletionRequest + 1
          /\ UNCHANGED <<requestsInUse, ioQueue, MainRequest, IoRequest>>
      BY <2>1, HeadTail DEF IInv, CompletionPop, Types, ListTypes, One, MainRequest, IoRequest,
         CompletionRequest, CompletionType
    <3>. QED
      BY <1>0, <3>1 DEF RequestsCounted
  <2>2. CASE CompletionFreeRequest
    <3>1. /\ requestsInUse' = requestsInUse - 1
          /\ CompletionRequest' = CompletionRequest - 1
          /\ UNCHANGED <<ioQueue, completionQueue, MainRequest, IoRequest>>
      BY <2>2 DEF IInv, CompletionFreeRequest, CompletionAt, Set, Types, ListTypes, One,
         MainRequest, IoRequest, CompletionRequest, CompletionType
    <3>. QED
      BY <1>0, <3>1 DEF RequestsCounted
  <2>3. CASE CompletionWait \/ CompletionEmpty \/ CompletionDecrypt \/ CompletionTakeWorkItem
             \/ CompletionHand
    BY <2>3 DEF IInv, CompletionWait, CompletionAt, Wait, CompletionEmpty, CompletionDecrypt,
       Finishing, CompletionTakeWorkItem, TakeWorkItem, CompletionHand, Hand, Counted,
       RequestsCounted, Types, One, MainType, IoType, CompletionType, MainRequest, IoRequest,
       CompletionRequest
  <2>. QED
    BY <1>6, <2>1, <2>2, <2>3 DEF Completion
<1>7. CASE Hold
  BY <1>7, HoldFrame DEF IInv, Counted, RequestsCounted, Types, One, MainType, IoType,
     CompletionType, MainRequest, IoRequest, CompletionRequest
<1>8. CASE Stop
  BY <1>8, StopFrame DEF IInv, Counted, RequestsCounted, Types, One, MainType, IoType,
     CompletionType, MainRequest, IoRequest, CompletionRequest
<1>. QED
  BY <1>1, <1>2, <1>3, <1>4, <1>5, <1>6, <1>7, <1>8 DEF Next

\* Nothing is taken that is not there.
LEMMA BoundedStep == ASSUME IInv, [Next]_vars PROVE Bounded'
<1>1. CASE UNCHANGED vars
  BY <1>1, QueueAssumption DEF IInv, vars, Bounded, Types, NumberTypes
<1>2. ASSUME NEW i \in Irps, AddIrp(i) PROVE Bounded'
  BY <1>2, AddFrame, QueueAssumption DEF IInv, Bounded, Types, NumberTypes
<1>3. ASSUME NEW i \in Irps, Work(i) PROVE Bounded'
  BY <1>3, QueueAssumption DEF IInv, Work, WorkComplete, WorkUncount, At, Uncount,
     LastOutstanding, WorkSignal, SignalNoOutstanding, WorkInactive, WorkSignalInactive, Set,
     WorkReturn, WorkFreeItem, Bounded, Types, NumberTypes
<1>4. CASE Main
  <2>1. CASE MainGetItem
    BY <2>1, QueueAssumption DEF IInv, MainGetItem, MainAt, Bounded, Types, NumberTypes
  <2>2. CASE MainFreeItem
    BY <2>2, QueueAssumption DEF IInv, MainFreeItem, MainAt, Set, Bounded, Types, NumberTypes
  <2>3. CASE MainGetRequest
    BY <2>3, QueueAssumption DEF IInv, MainGetRequest, Bounded, Types, NumberTypes
  <2>4. CASE MainEmpty \/ MainWait \/ MainPop \/ MainTestSuspended \/ MainHeld \/ MainWaitPool
             \/ MainRefuse \/ MainFail \/ MainRead \/ MainReadDone \/ MainUncount \/ MainSignal
             \/ MainAccept \/ MainFragment \/ MainAcquire \/ MainPush
    BY <2>4, QueueAssumption DEF IInv, MainEmpty, MainAt, MainWait, Wait, MainPop,
       MainTestSuspended, MainHeld, MainWaitPool, MainRefuse, Complete, Refused, MainFail,
       MainRead, MainReadDone, MainUncount, Uncount, LastOutstanding, MainSignal,
       SignalNoOutstanding, MainAccept, MainFragment, MainAcquire, Encrypt, MainPush, Set,
       Bounded, Types, NumberTypes
  <2>. QED
    BY <1>4, <2>1, <2>2, <2>3, <2>4 DEF Main
<1>5. CASE Io
  <2>1. CASE IoFreeRequest
    BY <2>1, QueueAssumption DEF IInv, IoFreeRequest, IoAt, Set, Bounded, Types, NumberTypes
  <2>2. CASE IoTakeWorkItem
    BY <2>2, QueueAssumption DEF IInv, IoTakeWorkItem, IoAt, TakeWorkItem, Bounded, Types,
       NumberTypes
  <2>3. CASE IoWait \/ IoEmpty \/ IoPop \/ IoSkip \/ IoFail \/ IoWrite \/ IoRead \/ IoWritten
             \/ IoReadDone \/ IoDeliver \/ IoReadAhead \/ IoUncount \/ IoSignal \/ IoHand
    BY <2>3, QueueAssumption DEF IInv, IoWait, IoAt, Wait, IoEmpty, IoPop, IoSkip, Current,
       IoFail, IoWrite, IoRead, IoWritten, Set, IoReadDone, Received, ReadsAhead, IoDeliver,
       IoReadAhead, IoUncount, Uncount, LastOutstanding, IoSignal, SignalNoOutstanding, IoHand,
       Hand, Bounded, Types, NumberTypes
  <2>. QED
    BY <1>5, <2>1, <2>2, <2>3 DEF Io
<1>6. CASE Completion
  <2>1. CASE CompletionTakeWorkItem
    BY <2>1, QueueAssumption DEF IInv, CompletionTakeWorkItem, CompletionAt, TakeWorkItem,
       Bounded, Types, NumberTypes
  <2>2. CASE CompletionFreeRequest
    BY <2>2, QueueAssumption DEF IInv, CompletionFreeRequest, CompletionAt, Set, Bounded,
       Types, NumberTypes
  <2>3. CASE CompletionWait \/ CompletionEmpty \/ CompletionPop \/ CompletionDecrypt
             \/ CompletionHand
    BY <2>3, QueueAssumption DEF IInv, CompletionWait, CompletionAt, Wait, CompletionEmpty,
       CompletionPop, CompletionDecrypt, Finishing, CompletionHand, Hand, Bounded, Types,
       NumberTypes
  <2>. QED
    BY <1>6, <2>1, <2>2, <2>3 DEF Completion
<1>7. CASE Hold
  BY <1>7, HoldFrame, QueueAssumption DEF IInv, Bounded, Types, NumberTypes
<1>8. CASE Stop
  BY <1>8, StopFrame, QueueAssumption DEF IInv, Bounded, Types, NumberTypes
<1>. QED
  BY <1>1, <1>2, <1>3, <1>4, <1>5, <1>6, <1>7, <1>8 DEF Next
-----------------------------------------------------------------------------
(* The fragment buffers *)

Accessing == io.pc \in {"access", "accessed"}

\* The users of the fragment buffers mostly stay or go.
UsersStay ==
    /\ UNCHANGED ioQueue
    /\ main'.pc = "push" => main.pc = "push" /\ main'.irp = main.irp /\ main'.buffer = main.buffer
                            /\ main'.encrypted = main.encrypted
    /\ Accessing' => Accessing /\ io'.request = io.request

\* Which steps change the users, the events and the contents of the fragment buffers.
LEMMA UsersMove ==
    ASSUME IInv, [Next]_vars
    PROVE  /\ UsersStay \/ MainAcquire \/ MainPush \/ IoPop
           /\ (signalled' \cap Buffers) \subseteq signalled \/ IoWritten \/ IoReadDone
           /\ UNCHANGED fragment \/ MainAcquire \/ IoRead
<1>1. CASE UNCHANGED vars
  BY <1>1 DEF vars, UsersStay, Accessing
<1>2. ASSUME NEW i \in Irps, AddIrp(i) \/ Work(i)
      PROVE  /\ UNCHANGED <<ioQueue, main, io, fragment>>
             /\ (signalled' \cap Buffers) \subseteq signalled
  <2>1. UNCHANGED <<ioQueue, main, io, fragment>>
    BY <1>2, AddFrame, WorkFrame
  <2>2. (signalled' \cap Buffers) \subseteq signalled
    BY <1>2 DEF Buffers, AddIrp, AddCount, AddTest, AddQueue, AddRefuse, AddRefuseSignal, Work,
       WorkComplete, WorkUncount, WorkSignal, WorkInactive, WorkSignalInactive, WorkReturn,
       WorkFreeItem, Set, SignalNoOutstanding
  <2>. QED
    BY <2>1, <2>2
<1>3. CASE Main
  <2>1. UNCHANGED io
    BY <1>3, MainFrame
  <2>2. (signalled' \cap Buffers) \subseteq signalled
    BY <1>3 DEF Buffers, Set, Wait, SignalNoOutstanding, Main, MainEmpty, MainWait, MainPop,
       MainTestSuspended, MainHeld, MainGetItem, MainWaitPool, MainRefuse, MainFail, MainRead,
       MainReadDone, MainUncount, MainSignal, MainFreeItem, MainAccept, MainFragment,
       MainGetRequest, MainAcquire, MainPush
  <2>3. CASE MainEmpty \/ MainWait \/ MainPop \/ MainTestSuspended \/ MainHeld \/ MainGetItem
             \/ MainWaitPool \/ MainRefuse \/ MainFail
    BY <2>1, <2>2, <2>3 DEF IInv, Types, MainType, UsersStay, Accessing, MainAt, MainEmpty, MainWait,
       MainPop, MainTestSuspended, MainHeld, MainGetItem, MainWaitPool, MainRefuse, MainFail
  <2>4. CASE MainRead \/ MainReadDone \/ MainUncount \/ MainSignal \/ MainFreeItem \/ MainAccept
             \/ MainFragment \/ MainGetRequest
    BY <2>1, <2>2, <2>4 DEF IInv, Types, MainType, UsersStay, Accessing, MainAt, MainRead, MainReadDone,
       MainUncount, MainSignal, MainFreeItem, MainAccept, MainFragment, MainGetRequest
  <2>5. CASE MainAcquire \/ MainPush
    BY <2>2, <2>5 DEF MainPush
  <2>. QED
    BY <1>3, <2>2, <2>3, <2>4, <2>5 DEF Main
<1>4. CASE Io
  <2>1. UNCHANGED main
    BY <1>4, IoFrame
  <2>2. (signalled' \cap Buffers) \subseteq signalled \/ IoWritten \/ IoReadDone
    BY <1>4 DEF Buffers, Set, Wait, SignalNoOutstanding, Hand, Io, IoWait, IoEmpty, IoPop, IoSkip,
       IoFail, IoWrite, IoRead, IoDeliver, IoReadAhead, IoUncount, IoSignal, IoFreeRequest,
       IoTakeWorkItem, IoHand
  <2>3. UNCHANGED fragment \/ IoRead
    BY <1>4 DEF Io, IoWait, IoEmpty, IoPop, IoSkip, IoFail, IoWrite, IoWritten, IoReadDone,
       IoDeliver, IoReadAhead, IoUncount, IoSignal, IoFreeRequest, IoTakeWorkItem, IoHand
  <2>4. CASE IoWait \/ IoEmpty \/ IoSkip \/ IoFail \/ IoWrite \/ IoRead \/ IoWritten \/ IoReadDone
    BY <2>1, <2>2, <2>3, <2>4 DEF IInv, Types, IoType, UsersStay, Accessing, IoAt, IoWait, IoEmpty, IoSkip,
       IoFail, IoWrite, IoRead, IoWritten, IoReadDone
  <2>5. CASE IoDeliver \/ IoReadAhead \/ IoUncount \/ IoSignal \/ IoFreeRequest \/ IoTakeWorkItem
             \/ IoHand
    BY <2>1, <2>2, <2>3, <2>5 DEF IInv, Types, IoType, UsersStay, Accessing, IoAt, IoDeliver, IoReadAhead,
       IoUncount, IoSignal, IoFreeRequest, IoTakeWorkItem, IoHand
  <2>. QED
    BY <1>4, <2>2, <2>3, <2>4, <2>5 DEF Io
<1>5. CASE Completion \/ Hold \/ Stop
  <2>1. UNCHANGED <<ioQueue, main, io, fragment>>
    BY <1>5, CompletionFrame, HoldFrame, StopFrame
  <2>2. (signalled' \cap Buffers) \subseteq signalled
    <3>1. CASE Completion
      BY <3>1 DEF Buffers, Set, Wait, Hand, Completion, CompletionWait, CompletionEmpty, CompletionPop,
         CompletionDecrypt, CompletionTakeWorkItem, CompletionHand, CompletionFreeRequest
    <3>2. CASE Hold
      BY <3>2 DEF Buffers, Set, Wait, Hold, HoldBegin, HoldTest, HoldWait, HoldFail, HoldIdle, HoldClear,
         HoldSuspend, HoldConfirm, HoldUndo, HoldUndone, HoldDone, SetupWrite, SetupMoveEnd, Resume,
         ResumeSignal
    <3>3. CASE Stop
      BY <3>3 DEF Buffers, Set, Wait, Stop, StopBegin, StopTest, StopWait, StopExit, StopJoin, StopDrain,
         StopFree
    <3>. QED
      BY <1>5, <3>1, <3>2, <3>3
  <2>. QED
    BY <2>1, <2>2 DEF UsersStay, Accessing
<1>. QED
  BY <1>1, <1>2, <1>3, <1>4, <1>5 DEF Next, UsersStay, Accessing

\* Each user of a fragment buffer has one of the two.
LEMMA BufferTypes ==
    ASSUME IInv
    PROVE  /\ \A n \in DOMAIN ioQueue : ioQueue[n].buffer \in Buffers
           /\ main.buffer \in Buffers /\ io.request.buffer \in Buffers
<1>1. \A n \in DOMAIN ioQueue : ioQueue[n] \in Piece
  BY DEF IInv, Types, ListTypes
<1>. QED
  BY <1>1 DEF IInv, Types, MainType, IoType, Piece

\* A buffer is waited for before it is used, and its event is set after.
LEMMA ExclusiveStep == ASSUME IInv, [Next]_vars PROVE Exclusive'
<1>0. /\ \A n \in DOMAIN ioQueue : ioQueue[n].buffer \in Buffers
      /\ main.buffer \in Buffers /\ io.request.buffer \in Buffers
  BY BufferTypes
<1>1. CASE UsersStay /\ (signalled' \cap Buffers) \subseteq signalled
  BY <1>0, <1>1 DEF IInv, Exclusive, UsersStay, Accessing
<1>2. CASE UsersStay /\ (IoWritten \/ IoReadDone)
  <2>1. /\ io.pc = "accessed" /\ ~Accessing' /\ UNCHANGED <<main, ioQueue>>
        /\ signalled' = signalled \cup {io.request.buffer}
    BY <1>2 DEF IInv, Types, IoType, IoWritten, IoReadDone, IoAt, Set, Current, Accessing
  <2>. QED
    BY <2>1 DEF IInv, Exclusive, Accessing
<1>3. CASE MainAcquire
  <2>1. /\ main.pc = "acquire" /\ main.buffer \in signalled
        /\ signalled' = signalled \ {main.buffer}
        /\ main'.buffer = main.buffer /\ UNCHANGED <<io, ioQueue>>
    BY <1>3 DEF IInv, Types, MainType, MainAcquire, MainAt, Wait
  <2>. QED
    BY <2>1 DEF IInv, Exclusive
<1>4. CASE MainPush
  <2>1. /\ main.pc = "push" /\ main'.pc # "push" /\ UNCHANGED io
        /\ signalled' = signalled \cup {"IoQueue"} /\ Pushed.buffer = main.buffer
    BY <1>4 DEF IInv, Types, MainType, MainPush, Set, Pushed
  <2>2. /\ \A n \in DOMAIN ioQueue' :
               \/ ioQueue'[n] = Pushed /\ n = Len(ioQueue) + 1
               \/ n \in DOMAIN ioQueue /\ ioQueue'[n] = ioQueue[n]
    BY <1>4, PushedAppended
  <2>3. main.buffer # "IoQueue" /\ \A n \in DOMAIN ioQueue : ioQueue[n].buffer # "IoQueue"
    BY <1>0 DEF Buffers
  <2>4. io.request.buffer # "IoQueue"
    BY <1>0 DEF Buffers
  <2>. QED
    BY <2>1, <2>2, <2>3, <2>4 DEF IInv, Exclusive
<1>5. CASE IoPop
  <2>1. /\ ioQueue \in Seq(Piece) /\ ioQueue # <<>> /\ ioQueue' = Tail(ioQueue)
        /\ io'.request = Head(ioQueue) /\ UNCHANGED <<main, signalled>>
    BY <1>5 DEF IInv, Types, ListTypes, IoType, IoPop
  <2>2. /\ Head(ioQueue) = ioQueue[1] /\ 1 \in DOMAIN ioQueue
        /\ \A n \in DOMAIN ioQueue' :
               n + 1 \in DOMAIN ioQueue /\ ioQueue'[n] = ioQueue[n + 1] /\ n \in Nat /\ n >= 1
    BY <2>1, HeadTail
  <2>3. /\ \A m, n \in DOMAIN ioQueue' : m # n => m + 1 # n + 1
        /\ \A n \in DOMAIN ioQueue' : n + 1 # 1
    BY <2>2
  <2>. QED
    BY <2>1, <2>2, <2>3 DEF IInv, Exclusive
<1>6. IoWritten \/ IoReadDone => UsersStay
  BY DEF IInv, Types, IoType, IoWritten, IoReadDone, IoAt, UsersStay, Accessing
<1>. QED
  BY <1>1, <1>2, <1>3, <1>4, <1>5, <1>6, UsersMove

\* Between encrypting and writing nobody touches the buffer.
LEMMA EncryptedStep == ASSUME IInv, [Next]_vars PROVE Encrypted'
<1>0. /\ main.pc = "push" => irp'[main.irp].op = irp[main.irp].op
      /\ main.pc = "acquire" => irp'[main.irp].op = irp[main.irp].op
      /\ \A n \in DOMAIN ioQueue : irp'[ioQueue[n].irp].op = irp[ioQueue[n].irp].op
      /\ Accessing => irp'[io.request.irp].op = irp[io.request.irp].op
  BY OpStays DEF OpKept, Cutting, IoBusy, Accessing
<1>1. CASE UsersStay /\ UNCHANGED fragment
  BY <1>0, <1>1 DEF IInv, Encrypted, UsersStay, Accessing, Writes, Filled
<1>2. CASE MainAcquire
  <2>1. /\ main.pc = "acquire" /\ main'.irp = main.irp /\ main'.buffer = main.buffer
        /\ main'.encrypted = main.encrypted /\ main.buffer \in signalled /\ main.buffer \in Buffers
        /\ UNCHANGED <<io, ioQueue, irp>> /\ Encrypt
    BY <1>2 DEF IInv, Types, MainType, MainAcquire, MainAt, Wait
  <2>2. /\ \A b \in Buffers \ {main.buffer} : fragment'[b] = fragment[b]
        /\ Writes(main.irp) => Filled(main.buffer, main)'
    BY <2>1 DEF IInv, Types, DataTypes, Encrypt, Filled
  <2>3. \A n \in DOMAIN ioQueue : ioQueue[n].buffer \in Buffers \ {main.buffer}
    BY <2>1, BufferTypes DEF IInv, Exclusive
  <2>4. Accessing => io.request.buffer \in Buffers \ {main.buffer}
    BY <2>1 DEF IInv, Types, IoType, Piece, Exclusive, Accessing
  <2>. QED
    BY <2>1, <2>2, <2>3, <2>4 DEF IInv, Encrypted, Filled, Writes, Accessing
<1>3. CASE MainPush
  <2>1. /\ main.pc = "push" /\ main'.pc # "push" /\ UNCHANGED <<io, irp, fragment>>
    BY <1>3 DEF IInv, Types, MainType, MainPush
  <2>2. \A n \in DOMAIN ioQueue' :
            ioQueue'[n] = Pushed \/ (n \in DOMAIN ioQueue /\ ioQueue'[n] = ioQueue[n])
    BY <1>3, PushedAppended
  <2>3. Writes(Pushed.irp) => Filled(Pushed.buffer, Pushed)
    BY <2>1 DEF IInv, Encrypted, Pushed, Filled
  <2>. QED
    BY <2>1, <2>2, <2>3 DEF IInv, Encrypted, Filled, Writes
<1>4. CASE IoPop
  <2>1. /\ ioQueue \in Seq(Piece) /\ ioQueue # <<>> /\ ioQueue' = Tail(ioQueue)
        /\ io'.request = Head(ioQueue) /\ UNCHANGED <<main, fragment, irp>>
    BY <1>4 DEF IInv, Types, ListTypes, IoType, IoPop
  <2>2. /\ Head(ioQueue) = ioQueue[1] /\ 1 \in DOMAIN ioQueue
        /\ \A n \in DOMAIN ioQueue' : n + 1 \in DOMAIN ioQueue /\ ioQueue'[n] = ioQueue[n + 1]
    BY <2>1, HeadTail
  <2>. QED
    BY <2>1, <2>2 DEF IInv, Encrypted, Filled, Writes
<1>5. CASE IoRead
  <2>1. /\ io.pc = "access" /\ io'.request = io.request /\ ~Writes(io.request.irp)
        /\ UNCHANGED <<main, ioQueue, irp>>
        /\ \A b \in Buffers \ {io.request.buffer} : fragment'[b] = fragment[b]
    BY <1>5 DEF IInv, Types, IoType, DataTypes, IoRead, IoAt, Current
  <2>2. \A n \in DOMAIN ioQueue : ioQueue[n].buffer \in Buffers \ {io.request.buffer}
    BY <2>1, BufferTypes DEF IInv, Exclusive
  <2>3. main.pc = "push" => main.buffer \in Buffers \ {io.request.buffer}
    BY <2>1 DEF IInv, Types, MainType, Exclusive
  <2>. QED
    BY <2>1, <2>2, <2>3 DEF IInv, Encrypted, Filled, Writes
<1>. QED
  BY <1>1, <1>2, <1>3, <1>4, <1>5, UsersMove
-----------------------------------------------------------------------------
(* The queue at rest *)

\* When the count is zero nothing is outstanding.
LEMMA NothingLeft ==
    ASSUME IInv, ~(outstanding > 0)
    PROVE  /\ \A i \in Irps : irp[i].at \notin OpenAt
           /\ main.pc # "uncount" /\ io.pc \notin {"ahead", "aheadDone"}
<1>1. /\ outstanding = Count(irp, OpenAt) + MainCounted + IoCounted
      /\ MainCounted \in {0, 1} /\ IoCounted \in {0, 1} /\ IsFiniteSet(Made)
  BY DEF IInv, Counted, OutstandingCounted, MainCounted, IoCounted, One
<1>2. Count(irp, OpenAt) \in Nat
  BY <1>1, CountType DEF Counting
<1>3. Count(irp, OpenAt) = 0 /\ MainCounted = 0 /\ IoCounted = 0
  BY <1>1, <1>2
<1>. QED
  BY <1>1, <1>3, CountType DEF Counting, MainCounted, IoCounted, One

\* When ActiveWorkItems is zero no request has an active work item.
LEMMA NoneActive ==
    ASSUME IInv
    PROVE  /\ activeWorkItems \in Nat
           /\ activeWorkItems = 0 => \A i \in Irps : irp[i].at \notin ActiveAt
BY CountType DEF IInv, Counted, ActiveCounted, Counting

\* When no request is queued, no thread has one, and the lists are empty.
LEMMA NobodyBusy ==
    ASSUME IInv, \A i \in Irps : irp[i].at # "queued"
    PROVE  /\ ~Popping /\ ~Cutting /\ ~IoBusy /\ ~CompletionBusy
           /\ mainQueue = <<>> /\ ioQueue = <<>> /\ completionQueue = <<>>
<1>1. ~Popping /\ ~Cutting
  BY DEF IInv, Types, MainType, MainHas
<1>2. ~IoBusy /\ ~CompletionBusy
  BY DEF IInv, Types, IoType, CompletionType, Piece, IoHas, CompletionHas, Sound
<1>3. \A r \in Piece : ~Sound(irp, r)
  BY DEF Piece, Sound
<1>4. mainQueue \in Seq(Irps) /\ ioQueue \in Seq(Piece) /\ completionQueue \in Seq(Piece)
  BY DEF IInv, Types, ListTypes
<1>5. mainQueue = <<>>
  <2>. SUFFICES ASSUME mainQueue # <<>> PROVE FALSE
    OBVIOUS
  <2>. QED
    BY <1>4, HeadTail DEF IInv, MainHas
<1>6. ioQueue = <<>>
  <2>. SUFFICES ASSUME ioQueue # <<>> PROVE FALSE
    OBVIOUS
  <2>. QED
    BY <1>3, <1>4, HeadTail DEF IInv, IoHas
<1>7. completionQueue = <<>>
  <2>. SUFFICES ASSUME completionQueue # <<>> PROVE FALSE
    OBVIOUS
  <2>. QED
    BY <1>3, <1>4, HeadTail DEF IInv, CompletionHas
<1>. QED
  BY <1>1, <1>2, <1>5, <1>6, <1>7

\* While the threads exit nothing is left for them to do.
LEMMA ExitingIdle ==
    ASSUME IInv, stop \in Exiting \cup {"exit"}
    PROVE  /\ ~Popping /\ ~Cutting /\ ~IoBusy /\ ~CompletionBusy
           /\ mainQueue = <<>> /\ ioQueue = <<>> /\ completionQueue = <<>>
BY NobodyBusy DEF IInv, Stopping

\* A stop goes on only when nothing is left, and each thread has exited.
LEMMA StoppingStep == ASSUME IInv, [Next]_vars PROVE Stopping'
<1>0. stop \in Exiting \cup {"exit"} =>
          ~Popping /\ ~IoBusy /\ ~CompletionBusy /\ ioQueue = <<>> /\ completionQueue = <<>>
  BY ExitingIdle
<1>1. CASE UNCHANGED vars
  BY <1>1 DEF IInv, vars, Stopping, Exiting, Types
<1>2. ASSUME NEW i \in Irps, AddIrp(i) PROVE Stopping'
  <2>1. CASE AddCount(i)
    BY <2>1 DEF IInv, AddCount, Stopping, Exiting, Types, IrpType
  <2>2. CASE AddTest(i)
    BY <2>2 DEF IInv, AddTest, At, Stopping, Exiting, Types, IrpType
  <2>3. CASE AddQueue(i)
    BY <2>3 DEF IInv, AddQueue, At, Set, Stopping, Exiting, Types, IrpType
  <2>4. CASE AddRefuse(i)
    BY <2>4 DEF IInv, AddRefuse, At, Uncount, LastOutstanding, Stopping, Exiting, Types,
       IrpType
  <2>5. CASE AddRefuseSignal(i)
    BY <2>5 DEF IInv, AddRefuseSignal, At, SignalNoOutstanding, Stopping, Exiting, Types,
       IrpType
  <2>. QED
    BY <1>2, <2>1, <2>2, <2>3, <2>4, <2>5 DEF AddIrp
<1>3. ASSUME NEW i \in Irps, Work(i) PROVE Stopping'
  <2>1. CASE WorkComplete(i)
    BY <2>1 DEF IInv, WorkComplete, Stopping, Exiting, Types, IrpType
  <2>2. CASE WorkUncount(i)
    BY <2>2 DEF IInv, WorkUncount, At, Uncount, LastOutstanding, Stopping, Exiting, Types,
       IrpType
  <2>3. CASE WorkSignal(i)
    BY <2>3 DEF IInv, WorkSignal, At, SignalNoOutstanding, Stopping, Exiting, Types, IrpType
  <2>4. CASE WorkInactive(i)
    BY <2>4, NoneActive DEF IInv, WorkInactive, At, Stopping, Exiting, Types, IrpType, ActiveAt
  <2>5. CASE WorkSignalInactive(i)
    BY <2>5 DEF IInv, WorkSignalInactive, At, Set, Stopping, Exiting, Types, IrpType
  <2>6. CASE WorkReturn(i)
    BY <2>6 DEF IInv, WorkReturn, At, Stopping, Exiting, Types, IrpType
  <2>7. CASE WorkFreeItem(i)
    BY <2>7 DEF IInv, WorkFreeItem, At, Set, Stopping, Exiting, Types, IrpType
  <2>. QED
    BY <1>3, <2>1, <2>2, <2>3, <2>4, <2>5, <2>6, <2>7 DEF Work
<1>4. CASE Main
  <2>1. CASE MainEmpty
    BY <2>1, <1>0 DEF IInv, MainEmpty, MainAt, Stopping, Exiting, Types, MainType, Popping,
       IrpType
  <2>2. CASE MainWait
    BY <2>2, <1>0 DEF IInv, MainWait, MainAt, Wait, Stopping, Exiting, Types, MainType,
       Popping, IrpType
  <2>3. CASE MainPop
    BY <2>3, <1>0 DEF IInv, MainPop, Stopping, Exiting, Types, MainType, Popping, IrpType
  <2>4. CASE MainTestSuspended
    BY <2>4, <1>0 DEF IInv, MainTestSuspended, MainAt, Stopping, Exiting, Types, MainType,
       Popping, IrpType
  <2>5. CASE MainHeld
    BY <2>5, <1>0 DEF IInv, MainHeld, MainAt, Wait, Stopping, Exiting, Types, MainType,
       Popping, IrpType
  <2>6. CASE MainGetItem
    BY <2>6, <1>0 DEF IInv, MainGetItem, MainAt, Stopping, Exiting, Types, MainType, Popping,
       IrpType
  <2>7. CASE MainWaitPool
    BY <2>7, <1>0 DEF IInv, MainWaitPool, MainAt, Wait, Stopping, Exiting, Types, MainType,
       Popping, IrpType
  <2>8. CASE MainRefuse
    BY <2>8, <1>0 DEF IInv, MainRefuse, MainAt, Complete, Refused, Stopping, Exiting, Types,
       MainType, Popping, IrpType
  <2>9. CASE MainFail
    BY <2>9, <1>0 DEF IInv, MainFail, MainAt, Complete, Stopping, Exiting, Types, MainType,
       Popping, IrpType
  <2>10. CASE MainRead
    BY <2>10, <1>0 DEF IInv, MainRead, MainAt, Stopping, Exiting, Types, MainType, Popping,
       IrpType
  <2>11. CASE MainReadDone
    BY <2>11, <1>0 DEF IInv, MainReadDone, MainAt, Complete, Stopping, Exiting, Types,
       MainType, Popping, IrpType
  <2>12. CASE MainUncount
    BY <2>12, <1>0 DEF IInv, MainUncount, MainAt, Uncount, LastOutstanding, Stopping, Exiting,
       Types, MainType, Popping, IrpType
  <2>13. CASE MainSignal
    BY <2>13, <1>0 DEF IInv, MainSignal, MainAt, SignalNoOutstanding, Stopping, Exiting, Types,
       MainType, Popping, IrpType
  <2>14. CASE MainFreeItem
    BY <2>14, <1>0 DEF IInv, MainFreeItem, MainAt, Set, Stopping, Exiting, Types, MainType,
       Popping, IrpType
  <2>15. CASE MainAccept
    BY <2>15, <1>0 DEF IInv, MainAccept, Refused, Stopping, Exiting, Types, MainType, Popping,
       IrpType
  <2>16. CASE MainFragment
    BY <2>16, <1>0 DEF IInv, MainFragment, Stopping, Exiting, Types, MainType, Popping, IrpType
  <2>17. CASE MainGetRequest
    BY <2>17, <1>0 DEF IInv, MainGetRequest, Stopping, Exiting, Types, MainType, Popping,
       IrpType
  <2>18. CASE MainAcquire
    BY <2>18, <1>0 DEF IInv, MainAcquire, MainAt, Wait, Encrypt, Stopping, Exiting, Types,
       MainType, Popping, IrpType
  <2>19. CASE MainPush
    BY <2>19, <1>0 DEF IInv, MainPush, Set, Stopping, Exiting, Types, MainType, Popping,
       IrpType
  <2>. QED
    BY <1>4, <2>1, <2>2, <2>3, <2>4, <2>5, <2>6, <2>7, <2>8, <2>9, <2>10, <2>11, <2>12, <2>13,
       <2>14, <2>15, <2>16, <2>17, <2>18, <2>19 DEF Main
<1>5. CASE Io
  <2>1. CASE IoWait
    BY <2>1, <1>0 DEF IInv, IoWait, IoAt, Wait, Stopping, Exiting, Types, IoType, IoBusy,
       IrpType
  <2>2. CASE IoEmpty
    BY <2>2, <1>0 DEF IInv, IoEmpty, IoAt, Stopping, Exiting, Types, IoType, IoBusy, IrpType
  <2>3. CASE IoPop
    BY <2>3, <1>0 DEF IInv, IoPop, Stopping, Exiting, Types, IoType, IoBusy, IrpType
  <2>4. CASE IoSkip
    BY <2>4, <1>0 DEF IInv, IoSkip, IoAt, Current, Stopping, Exiting, Types, IoType, IoBusy,
       IrpType
  <2>5. CASE IoFail
    BY <2>5, <1>0 DEF IInv, IoFail, IoAt, Current, Stopping, Exiting, Types, IoType, IoBusy,
       IrpType
  <2>6. CASE IoWrite
    BY <2>6, <1>0 DEF IInv, IoWrite, IoAt, Current, Stopping, Exiting, Types, IoType, IoBusy,
       IrpType
  <2>7. CASE IoRead
    BY <2>7, <1>0 DEF IInv, IoRead, IoAt, Current, Stopping, Exiting, Types, IoType, IoBusy,
       IrpType
  <2>8. CASE IoWritten
    BY <2>8, <1>0 DEF IInv, IoWritten, IoAt, Set, Current, Stopping, Exiting, Types, IoType,
       IoBusy, IrpType
  <2>9. CASE IoReadDone
    BY <2>9, <1>0 DEF IInv, IoReadDone, Set, Current, Received, ReadsAhead, Stopping, Exiting,
       Types, IoType, IoBusy, IrpType
  <2>10. CASE IoDeliver
    BY <2>10, <1>0 DEF IInv, IoDeliver, Set, Current, Stopping, Exiting, Types, IoType, IoBusy,
       IrpType
  <2>11. CASE IoReadAhead
    BY <2>11, <1>0 DEF IInv, IoReadAhead, IoAt, Stopping, Exiting, Types, IoType, IoBusy,
       IrpType
  <2>12. CASE IoUncount
    BY <2>12, <1>0 DEF IInv, IoUncount, IoAt, Uncount, LastOutstanding, Stopping, Exiting,
       Types, IoType, IoBusy, IrpType
  <2>13. CASE IoSignal
    BY <2>13, <1>0 DEF IInv, IoSignal, IoAt, SignalNoOutstanding, Stopping, Exiting, Types,
       IoType, IoBusy, IrpType
  <2>14. CASE IoFreeRequest
    BY <2>14, <1>0 DEF IInv, IoFreeRequest, IoAt, Set, Stopping, Exiting, Types, IoType,
       IoBusy, IrpType
  <2>15. CASE IoTakeWorkItem
    BY <2>15, <1>0 DEF IInv, IoTakeWorkItem, IoAt, TakeWorkItem, Stopping, Exiting, Types,
       IoType, IoBusy, IrpType
  <2>16. CASE IoHand
    BY <2>16, <1>0 DEF IInv, IoHand, IoAt, Hand, Current, Stopping, Exiting, Types, IoType,
       IoBusy, IrpType
  <2>. QED
    BY <1>5, <2>1, <2>2, <2>3, <2>4, <2>5, <2>6, <2>7, <2>8, <2>9, <2>10, <2>11, <2>12, <2>13,
       <2>14, <2>15, <2>16 DEF Io
<1>6. CASE Completion
  <2>1. CASE CompletionWait
    BY <2>1, <1>0 DEF IInv, CompletionWait, CompletionAt, Wait, Stopping, Exiting, Types,
       CompletionType, CompletionBusy, IrpType
  <2>2. CASE CompletionEmpty
    BY <2>2, <1>0 DEF IInv, CompletionEmpty, CompletionAt, Stopping, Exiting, Types,
       CompletionType, CompletionBusy, IrpType
  <2>3. CASE CompletionPop
    BY <2>3, <1>0 DEF IInv, CompletionPop, Stopping, Exiting, Types, CompletionType,
       CompletionBusy, IrpType
  <2>4. CASE CompletionDecrypt
    BY <2>4, <1>0 DEF IInv, CompletionDecrypt, CompletionAt, Finishing, Stopping, Exiting,
       Types, CompletionType, CompletionBusy, IrpType
  <2>5. CASE CompletionTakeWorkItem
    BY <2>5, <1>0 DEF IInv, CompletionTakeWorkItem, CompletionAt, TakeWorkItem, Stopping,
       Exiting, Types, CompletionType, CompletionBusy, IrpType
  <2>6. CASE CompletionHand
    BY <2>6, <1>0 DEF IInv, CompletionHand, CompletionAt, Hand, Finishing, Stopping, Exiting,
       Types, CompletionType, CompletionBusy, IrpType
  <2>7. CASE CompletionFreeRequest
    BY <2>7, <1>0 DEF IInv, CompletionFreeRequest, CompletionAt, Set, Stopping, Exiting, Types,
       CompletionType, CompletionBusy, IrpType
  <2>. QED
    BY <1>6, <2>1, <2>2, <2>3, <2>4, <2>5, <2>6, <2>7 DEF Completion
<1>7. CASE Hold
  <2>1. CASE HoldBegin
    BY <2>1 DEF IInv, HoldBegin, Stopping, Exiting, Types, CallerTypes
  <2>2. CASE HoldTest
    BY <2>2 DEF IInv, HoldTest, HoldAt, Stopping, Exiting, Types, CallerTypes
  <2>3. CASE HoldWait
    BY <2>3 DEF IInv, HoldWait, HoldAt, Wait, Stopping, Exiting, Types, CallerTypes
  <2>4. CASE HoldFail
    BY <2>4 DEF IInv, HoldFail, HoldAt, Stopping, Exiting, Types, CallerTypes
  <2>5. CASE HoldIdle
    BY <2>5 DEF IInv, HoldIdle, HoldAt, Stopping, Exiting, Types, CallerTypes
  <2>6. CASE HoldClear
    BY <2>6 DEF IInv, HoldClear, HoldAt, Stopping, Exiting, Types, CallerTypes
  <2>7. CASE HoldSuspend
    BY <2>7 DEF IInv, HoldSuspend, HoldAt, Stopping, Exiting, Types, CallerTypes
  <2>8. CASE HoldConfirm
    BY <2>8 DEF IInv, HoldConfirm, HoldAt, Stopping, Exiting, Types, CallerTypes
  <2>9. CASE HoldUndo
    BY <2>9 DEF IInv, HoldUndo, HoldAt, Stopping, Exiting, Types, CallerTypes
  <2>10. CASE HoldUndone
    BY <2>10 DEF IInv, HoldUndone, HoldAt, Set, Stopping, Exiting, Types, CallerTypes
  <2>11. CASE HoldDone
    BY <2>11 DEF IInv, HoldDone, HoldAt, Stopping, Exiting, Types, CallerTypes
  <2>12. CASE SetupWrite
    BY <2>12 DEF IInv, SetupWrite, HoldAt, Stopping, Exiting, Types, CallerTypes
  <2>13. CASE SetupMoveEnd
    BY <2>13 DEF IInv, SetupMoveEnd, HoldAt, Stopping, Exiting, Types, CallerTypes
  <2>14. CASE Resume
    BY <2>14 DEF IInv, Resume, HoldAt, Stopping, Exiting, Types, CallerTypes
  <2>15. CASE ResumeSignal
    BY <2>15 DEF IInv, ResumeSignal, HoldAt, Set, Stopping, Exiting, Types, CallerTypes
  <2>. QED
    BY <1>7, <2>1, <2>2, <2>3, <2>4, <2>5, <2>6, <2>7, <2>8, <2>9, <2>10, <2>11, <2>12, <2>13,
       <2>14, <2>15 DEF Hold
<1>8. CASE Stop
  <2>1. CASE StopBegin
    BY <2>1 DEF IInv, StopBegin, StopAt, Stopping, Exiting, Types
  <2>2. CASE StopTest
    BY <2>2, NothingLeft DEF IInv, StopTest, StopAt, Stopping, Exiting, Types, OpenAt
  <2>3. CASE StopWait
    BY <2>3 DEF IInv, StopWait, StopAt, Wait, Stopping, Exiting, Types
  <2>4. CASE StopExit
    BY <2>4 DEF IInv, StopExit, StopAt, Set, Stopping, Exiting, Types
  <2>5. CASE StopJoin
    BY <2>5 DEF IInv, StopJoin, StopAt, Set, Stopping, Exiting, Types
  <2>6. CASE StopDrain
    BY <2>6, NoneActive DEF IInv, StopDrain, StopAt, Stopping, Exiting, Types
  <2>7. CASE StopFree
    BY <2>7 DEF IInv, StopFree, StopAt, Stopping, Exiting, Types
  <2>. QED
    BY <1>8, <2>1, <2>2, <2>3, <2>4, <2>5, <2>6, <2>7 DEF Stop
<1>. QED
  BY <1>1, <1>2, <1>3, <1>4, <1>5, <1>6, <1>7, <1>8 DEF Next

\* The events and the flag of a hold.
LEMMA SuspendingStep == ASSUME IInv, [Next]_vars PROVE Suspending'
<1>1. CASE UNCHANGED vars
  BY <1>1 DEF IInv, vars, Suspending, Types
<1>2. ASSUME NEW i \in Irps, AddIrp(i) PROVE Suspending'
  BY <1>2 DEF IInv, AddIrp, AddCount, AddTest, At, AddQueue, Set, AddRefuse, Uncount,
     LastOutstanding, AddRefuseSignal, SignalNoOutstanding, Suspending, Types
<1>3. ASSUME NEW i \in Irps, Work(i) PROVE Suspending'
  BY <1>3 DEF IInv, Work, WorkComplete, WorkUncount, At, Uncount, LastOutstanding, WorkSignal,
     SignalNoOutstanding, WorkInactive, WorkSignalInactive, Set, WorkReturn, WorkFreeItem,
     Suspending, Types
<1>4. CASE Main
  <2>1. CASE MainEmpty
    BY <2>1 DEF IInv, MainEmpty, MainAt, Suspending, Types, MainType
  <2>2. CASE MainWait
    BY <2>2 DEF IInv, MainWait, MainAt, Wait, Suspending, Types, MainType
  <2>3. CASE MainPop
    BY <2>3 DEF IInv, MainPop, Suspending, Types, MainType
  <2>4. CASE MainTestSuspended
    BY <2>4 DEF IInv, MainTestSuspended, MainAt, Suspending, Types, MainType
  <2>5. CASE MainHeld
    BY <2>5 DEF IInv, MainHeld, MainAt, Wait, Suspending, Types, MainType
  <2>6. CASE MainGetItem
    BY <2>6 DEF IInv, MainGetItem, MainAt, Suspending, Types, MainType
  <2>7. CASE MainWaitPool
    BY <2>7 DEF IInv, MainWaitPool, MainAt, Wait, Suspending, Types, MainType
  <2>8. CASE MainRefuse
    BY <2>8 DEF IInv, MainRefuse, MainAt, Complete, Refused, Suspending, Types, MainType
  <2>9. CASE MainFail
    BY <2>9 DEF IInv, MainFail, MainAt, Complete, Suspending, Types, MainType
  <2>10. CASE MainRead
    BY <2>10 DEF IInv, MainRead, MainAt, Suspending, Types, MainType
  <2>11. CASE MainReadDone
    BY <2>11 DEF IInv, MainReadDone, MainAt, Complete, Suspending, Types, MainType
  <2>12. CASE MainUncount
    BY <2>12 DEF IInv, MainUncount, MainAt, Uncount, LastOutstanding, Suspending, Types,
       MainType
  <2>13. CASE MainSignal
    BY <2>13 DEF IInv, MainSignal, MainAt, SignalNoOutstanding, Suspending, Types, MainType
  <2>14. CASE MainFreeItem
    BY <2>14 DEF IInv, MainFreeItem, MainAt, Set, Suspending, Types, MainType
  <2>15. CASE MainAccept
    BY <2>15 DEF IInv, MainAccept, Refused, Suspending, Types, MainType
  <2>16. CASE MainFragment
    BY <2>16 DEF IInv, MainFragment, Suspending, Types, MainType
  <2>17. CASE MainGetRequest
    BY <2>17 DEF IInv, MainGetRequest, Suspending, Types, MainType
  <2>18. CASE MainAcquire
    BY <2>18 DEF IInv, MainAcquire, MainAt, Wait, Encrypt, Suspending, Types, MainType
  <2>19. CASE MainPush
    BY <2>19 DEF IInv, MainPush, Set, Suspending, Types, MainType
  <2>. QED
    BY <1>4, <2>1, <2>2, <2>3, <2>4, <2>5, <2>6, <2>7, <2>8, <2>9, <2>10, <2>11, <2>12, <2>13,
       <2>14, <2>15, <2>16, <2>17, <2>18, <2>19 DEF Main
<1>5. CASE Io
  <2>1. CASE IoWait
    BY <2>1 DEF IInv, IoWait, IoAt, Wait, Suspending, Types, IoType, Piece, Buffers
  <2>2. CASE IoEmpty
    BY <2>2 DEF IInv, IoEmpty, IoAt, Suspending, Types, IoType, Piece, Buffers
  <2>3. CASE IoPop
    BY <2>3 DEF IInv, IoPop, Suspending, Types, IoType, Piece, Buffers
  <2>4. CASE IoSkip
    BY <2>4 DEF IInv, IoSkip, IoAt, Current, Suspending, Types, IoType, Piece, Buffers
  <2>5. CASE IoFail
    BY <2>5 DEF IInv, IoFail, IoAt, Current, Suspending, Types, IoType, Piece, Buffers
  <2>6. CASE IoWrite
    BY <2>6 DEF IInv, IoWrite, IoAt, Current, Suspending, Types, IoType, Piece, Buffers
  <2>7. CASE IoRead
    BY <2>7 DEF IInv, IoRead, IoAt, Current, Suspending, Types, IoType, Piece, Buffers
  <2>8. CASE IoWritten
    BY <2>8 DEF IInv, IoWritten, IoAt, Set, Current, Suspending, Types, IoType, Piece, Buffers
  <2>9. CASE IoReadDone
    BY <2>9 DEF IInv, IoReadDone, Set, Current, Received, ReadsAhead, Suspending, Types,
       IoType, Piece, Buffers
  <2>10. CASE IoDeliver
    BY <2>10 DEF IInv, IoDeliver, Set, Current, Suspending, Types, IoType, Piece, Buffers
  <2>11. CASE IoReadAhead
    BY <2>11 DEF IInv, IoReadAhead, IoAt, Suspending, Types, IoType, Piece, Buffers
  <2>12. CASE IoUncount
    BY <2>12 DEF IInv, IoUncount, IoAt, Uncount, LastOutstanding, Suspending, Types, IoType,
       Piece, Buffers
  <2>13. CASE IoSignal
    BY <2>13 DEF IInv, IoSignal, IoAt, SignalNoOutstanding, Suspending, Types, IoType, Piece,
       Buffers
  <2>14. CASE IoFreeRequest
    BY <2>14 DEF IInv, IoFreeRequest, IoAt, Set, Suspending, Types, IoType, Piece, Buffers
  <2>15. CASE IoTakeWorkItem
    BY <2>15 DEF IInv, IoTakeWorkItem, IoAt, TakeWorkItem, Suspending, Types, IoType, Piece,
       Buffers
  <2>16. CASE IoHand
    BY <2>16 DEF IInv, IoHand, IoAt, Hand, Current, Suspending, Types, IoType, Piece, Buffers
  <2>. QED
    BY <1>5, <2>1, <2>2, <2>3, <2>4, <2>5, <2>6, <2>7, <2>8, <2>9, <2>10, <2>11, <2>12, <2>13,
       <2>14, <2>15, <2>16 DEF Io
<1>6. CASE Completion
  <2>1. CASE CompletionWait
    BY <2>1 DEF IInv, CompletionWait, CompletionAt, Wait, Suspending, Types
  <2>2. CASE CompletionEmpty
    BY <2>2 DEF IInv, CompletionEmpty, CompletionAt, Suspending, Types
  <2>3. CASE CompletionPop
    BY <2>3 DEF IInv, CompletionPop, Suspending, Types
  <2>4. CASE CompletionDecrypt
    BY <2>4 DEF IInv, CompletionDecrypt, CompletionAt, Finishing, Suspending, Types
  <2>5. CASE CompletionTakeWorkItem
    BY <2>5 DEF IInv, CompletionTakeWorkItem, CompletionAt, TakeWorkItem, Suspending, Types
  <2>6. CASE CompletionHand
    BY <2>6 DEF IInv, CompletionHand, CompletionAt, Hand, Finishing, Suspending, Types
  <2>7. CASE CompletionFreeRequest
    BY <2>7 DEF IInv, CompletionFreeRequest, CompletionAt, Set, Suspending, Types
  <2>. QED
    BY <1>6, <2>1, <2>2, <2>3, <2>4, <2>5, <2>6, <2>7 DEF Completion
<1>7. CASE Hold
  <2>1. CASE HoldBegin
    BY <2>1 DEF IInv, HoldBegin, Suspending, Types, CallerTypes
  <2>2. CASE HoldTest
    BY <2>2 DEF IInv, HoldTest, HoldAt, Suspending, Types, CallerTypes
  <2>3. CASE HoldWait
    BY <2>3 DEF IInv, HoldWait, HoldAt, Wait, Suspending, Types, CallerTypes
  <2>4. CASE HoldFail
    BY <2>4 DEF IInv, HoldFail, HoldAt, Suspending, Types, CallerTypes
  <2>5. CASE HoldIdle
    BY <2>5 DEF IInv, HoldIdle, HoldAt, Suspending, Types, CallerTypes
  <2>6. CASE HoldClear
    BY <2>6 DEF IInv, HoldClear, HoldAt, Suspending, Types, CallerTypes
  <2>7. CASE HoldSuspend
    BY <2>7 DEF IInv, HoldSuspend, HoldAt, Suspending, Types, CallerTypes
  <2>8. CASE HoldConfirm
    BY <2>8 DEF IInv, HoldConfirm, HoldAt, Suspending, Types, CallerTypes
  <2>9. CASE HoldUndo
    BY <2>9 DEF IInv, HoldUndo, HoldAt, Suspending, Types, CallerTypes
  <2>10. CASE HoldUndone
    BY <2>10 DEF IInv, HoldUndone, HoldAt, Set, Suspending, Types, CallerTypes
  <2>11. CASE HoldDone
    BY <2>11 DEF IInv, HoldDone, HoldAt, Suspending, Types, CallerTypes
  <2>12. CASE SetupWrite
    BY <2>12 DEF IInv, SetupWrite, HoldAt, Suspending, Types, CallerTypes
  <2>13. CASE SetupMoveEnd
    BY <2>13 DEF IInv, SetupMoveEnd, HoldAt, Suspending, Types, CallerTypes
  <2>14. CASE Resume
    BY <2>14 DEF IInv, Resume, HoldAt, Suspending, Types, CallerTypes
  <2>15. CASE ResumeSignal
    BY <2>15 DEF IInv, ResumeSignal, HoldAt, Set, Suspending, Types, CallerTypes
  <2>. QED
    BY <1>7, <2>1, <2>2, <2>3, <2>4, <2>5, <2>6, <2>7, <2>8, <2>9, <2>10, <2>11, <2>12, <2>13,
       <2>14, <2>15 DEF Hold
<1>8. CASE Stop
  <2>1. CASE StopBegin
    BY <2>1 DEF IInv, StopBegin, StopAt, Suspending, Types
  <2>2. CASE StopTest
    BY <2>2 DEF IInv, StopTest, StopAt, Suspending, Types
  <2>3. CASE StopWait
    BY <2>3 DEF IInv, StopWait, StopAt, Wait, Suspending, Types
  <2>4. CASE StopExit
    BY <2>4 DEF IInv, StopExit, StopAt, Set, Suspending, Types
  <2>5. CASE StopJoin
    BY <2>5 DEF IInv, StopJoin, StopAt, Set, Suspending, Types
  <2>6. CASE StopDrain
    BY <2>6 DEF IInv, StopDrain, StopAt, Suspending, Types
  <2>7. CASE StopFree
    BY <2>7 DEF IInv, StopFree, StopAt, Suspending, Types
  <2>. QED
    BY <1>8, <2>1, <2>2, <2>3, <2>4, <2>5, <2>6, <2>7 DEF Stop
<1>. QED
  BY <1>1, <1>2, <1>3, <1>4, <1>5, <1>6, <1>7, <1>8 DEF Next

\* Nothing enters a queue that is held.
LEMMA SettledStep == ASSUME IInv, [Next]_vars PROVE Settled'
<1>1. CASE UNCHANGED vars
  BY <1>1 DEF IInv, vars, Settled, Holding, Types, CompletionBusy
<1>2. ASSUME NEW i \in Irps, AddIrp(i) PROVE Settled'
  BY <1>2, AddFrame DEF IInv, Settled, Holding, Types, CompletionBusy
<1>3. ASSUME NEW i \in Irps, Work(i) PROVE Settled'
  BY <1>3, WorkFrame DEF IInv, Settled, Holding, Types, CompletionBusy
<1>4. CASE Main
  <2>1. CASE MainEmpty
    BY <2>1 DEF IInv, MainEmpty, MainAt, Settled, Holding, Types, CompletionBusy, MainType,
       Suspending
  <2>2. CASE MainWait
    BY <2>2 DEF IInv, MainWait, MainAt, Wait, Settled, Holding, Types, CompletionBusy,
       MainType, Suspending
  <2>3. CASE MainPop
    BY <2>3 DEF IInv, MainPop, Settled, Holding, Types, CompletionBusy, MainType, Suspending
  <2>4. CASE MainTestSuspended
    BY <2>4 DEF IInv, MainTestSuspended, MainAt, Settled, Holding, Types, CompletionBusy,
       MainType, Suspending
  <2>5. CASE MainHeld
    BY <2>5 DEF IInv, MainHeld, MainAt, Wait, Settled, Holding, Types, CompletionBusy,
       MainType, Suspending
  <2>6. CASE MainGetItem
    BY <2>6 DEF IInv, MainGetItem, MainAt, Settled, Holding, Types, CompletionBusy, MainType,
       Suspending
  <2>7. CASE MainWaitPool
    BY <2>7 DEF IInv, MainWaitPool, MainAt, Wait, Settled, Holding, Types, CompletionBusy,
       MainType, Suspending
  <2>8. CASE MainRefuse
    BY <2>8 DEF IInv, MainRefuse, MainAt, Complete, Refused, Settled, Holding, Types,
       CompletionBusy, MainType, Suspending
  <2>9. CASE MainFail
    BY <2>9 DEF IInv, MainFail, MainAt, Complete, Settled, Holding, Types, CompletionBusy,
       MainType, Suspending
  <2>10. CASE MainRead
    BY <2>10 DEF IInv, MainRead, MainAt, Settled, Holding, Types, CompletionBusy, MainType,
       Suspending
  <2>11. CASE MainReadDone
    BY <2>11 DEF IInv, MainReadDone, MainAt, Complete, Settled, Holding, Types, CompletionBusy,
       MainType, Suspending
  <2>12. CASE MainUncount
    BY <2>12 DEF IInv, MainUncount, MainAt, Uncount, LastOutstanding, Settled, Holding, Types,
       CompletionBusy, MainType, Suspending
  <2>13. CASE MainSignal
    BY <2>13 DEF IInv, MainSignal, MainAt, SignalNoOutstanding, Settled, Holding, Types,
       CompletionBusy, MainType, Suspending
  <2>14. CASE MainFreeItem
    BY <2>14 DEF IInv, MainFreeItem, MainAt, Set, Settled, Holding, Types, CompletionBusy,
       MainType, Suspending
  <2>15. CASE MainAccept
    BY <2>15 DEF IInv, MainAccept, Refused, Settled, Holding, Types, CompletionBusy, MainType,
       Suspending
  <2>16. CASE MainFragment
    BY <2>16 DEF IInv, MainFragment, Settled, Holding, Types, CompletionBusy, MainType,
       Suspending
  <2>17. CASE MainGetRequest
    BY <2>17 DEF IInv, MainGetRequest, Settled, Holding, Types, CompletionBusy, MainType,
       Suspending
  <2>18. CASE MainAcquire
    BY <2>18 DEF IInv, MainAcquire, MainAt, Wait, Encrypt, Settled, Holding, Types,
       CompletionBusy, MainType, Suspending
  <2>19. CASE MainPush
    BY <2>19 DEF IInv, MainPush, Set, Settled, Holding, Types, CompletionBusy, MainType,
       Suspending
  <2>. QED
    BY <1>4, <2>1, <2>2, <2>3, <2>4, <2>5, <2>6, <2>7, <2>8, <2>9, <2>10, <2>11, <2>12, <2>13,
       <2>14, <2>15, <2>16, <2>17, <2>18, <2>19 DEF Main
<1>5. CASE Io
  <2>1. CASE IoWait
    BY <2>1 DEF IInv, IoWait, IoAt, Wait, Settled, Holding, Types, CompletionBusy, IoType
  <2>2. CASE IoEmpty
    BY <2>2 DEF IInv, IoEmpty, IoAt, Settled, Holding, Types, CompletionBusy, IoType
  <2>3. CASE IoPop
    BY <2>3 DEF IInv, IoPop, Settled, Holding, Types, CompletionBusy, IoType
  <2>4. CASE IoSkip
    BY <2>4 DEF IInv, IoSkip, IoAt, Current, Settled, Holding, Types, CompletionBusy, IoType
  <2>5. CASE IoFail
    BY <2>5 DEF IInv, IoFail, IoAt, Current, Settled, Holding, Types, CompletionBusy, IoType
  <2>6. CASE IoWrite
    BY <2>6 DEF IInv, IoWrite, IoAt, Current, Settled, Holding, Types, CompletionBusy, IoType
  <2>7. CASE IoRead
    BY <2>7 DEF IInv, IoRead, IoAt, Current, Settled, Holding, Types, CompletionBusy, IoType
  <2>8. CASE IoWritten
    BY <2>8 DEF IInv, IoWritten, IoAt, Set, Current, Settled, Holding, Types, CompletionBusy,
       IoType
  <2>9. CASE IoReadDone
    BY <2>9 DEF IInv, IoReadDone, Set, Current, Received, ReadsAhead, Settled, Holding, Types,
       CompletionBusy, IoType
  <2>10. CASE IoDeliver
    BY <2>10 DEF IInv, IoDeliver, Set, Current, Settled, Holding, Types, CompletionBusy, IoType
  <2>11. CASE IoReadAhead
    BY <2>11 DEF IInv, IoReadAhead, IoAt, Settled, Holding, Types, CompletionBusy, IoType
  <2>12. CASE IoUncount
    BY <2>12 DEF IInv, IoUncount, IoAt, Uncount, LastOutstanding, Settled, Holding, Types,
       CompletionBusy, IoType
  <2>13. CASE IoSignal
    BY <2>13 DEF IInv, IoSignal, IoAt, SignalNoOutstanding, Settled, Holding, Types,
       CompletionBusy, IoType
  <2>14. CASE IoFreeRequest
    BY <2>14 DEF IInv, IoFreeRequest, IoAt, Set, Settled, Holding, Types, CompletionBusy,
       IoType
  <2>15. CASE IoTakeWorkItem
    BY <2>15 DEF IInv, IoTakeWorkItem, IoAt, TakeWorkItem, Settled, Holding, Types,
       CompletionBusy, IoType
  <2>16. CASE IoHand
    BY <2>16 DEF IInv, IoHand, IoAt, Hand, Current, Settled, Holding, Types, CompletionBusy,
       IoType
  <2>. QED
    BY <1>5, <2>1, <2>2, <2>3, <2>4, <2>5, <2>6, <2>7, <2>8, <2>9, <2>10, <2>11, <2>12, <2>13,
       <2>14, <2>15, <2>16 DEF Io
<1>6. CASE Completion
  <2>1. CASE CompletionWait
    BY <2>1 DEF IInv, CompletionWait, CompletionAt, Wait, Settled, Holding, Types,
       CompletionBusy, CompletionType
  <2>2. CASE CompletionEmpty
    BY <2>2 DEF IInv, CompletionEmpty, CompletionAt, Settled, Holding, Types, CompletionBusy,
       CompletionType
  <2>3. CASE CompletionPop
    BY <2>3 DEF IInv, CompletionPop, Settled, Holding, Types, CompletionBusy, CompletionType
  <2>4. CASE CompletionDecrypt
    BY <2>4 DEF IInv, CompletionDecrypt, CompletionAt, Finishing, Settled, Holding, Types,
       CompletionBusy, CompletionType
  <2>5. CASE CompletionTakeWorkItem
    BY <2>5 DEF IInv, CompletionTakeWorkItem, CompletionAt, TakeWorkItem, Settled, Holding,
       Types, CompletionBusy, CompletionType
  <2>6. CASE CompletionHand
    BY <2>6 DEF IInv, CompletionHand, CompletionAt, Hand, Finishing, Settled, Holding, Types,
       CompletionBusy, CompletionType
  <2>7. CASE CompletionFreeRequest
    BY <2>7 DEF IInv, CompletionFreeRequest, CompletionAt, Set, Settled, Holding, Types,
       CompletionBusy, CompletionType
  <2>. QED
    BY <1>6, <2>1, <2>2, <2>3, <2>4, <2>5, <2>6, <2>7 DEF Completion
<1>7. CASE Hold
  <2>1. CASE HoldBegin
    BY <2>1 DEF IInv, HoldBegin, Settled, Holding, Types, CompletionBusy, CallerTypes,
       DeviceTypes
  <2>2. CASE HoldTest
    BY <2>2 DEF IInv, HoldTest, HoldAt, Settled, Holding, Types, CompletionBusy, CallerTypes,
       DeviceTypes
  <2>3. CASE HoldWait
    BY <2>3 DEF IInv, HoldWait, HoldAt, Wait, Settled, Holding, Types, CompletionBusy,
       CallerTypes, DeviceTypes
  <2>4. CASE HoldFail
    BY <2>4 DEF IInv, HoldFail, HoldAt, Settled, Holding, Types, CompletionBusy, CallerTypes,
       DeviceTypes
  <2>5. CASE HoldIdle
    BY <2>5 DEF IInv, HoldIdle, HoldAt, Settled, Holding, Types, CompletionBusy, CallerTypes,
       DeviceTypes
  <2>6. CASE HoldClear
    BY <2>6 DEF IInv, HoldClear, HoldAt, Settled, Holding, Types, CompletionBusy, CallerTypes,
       DeviceTypes
  <2>7. CASE HoldSuspend
    BY <2>7 DEF IInv, HoldSuspend, HoldAt, Settled, Holding, Types, CompletionBusy,
       CallerTypes, DeviceTypes
  <2>8. CASE HoldConfirm
    <3>1. CASE outstanding > 0
      BY <2>8, <3>1 DEF IInv, Types, NumberTypes, CallerTypes, HoldConfirm, HoldAt, Settled, Holding
    <3>2. CASE ~(outstanding > 0)
      <4>1. /\ \A i \in Irps : irp[i].at # "queued"
            /\ main.pc # "uncount" /\ io.pc \notin {"ahead", "aheadDone"}
        BY <3>2, NothingLeft DEF OpenAt
      <4>2. /\ ~Popping /\ ~Cutting /\ ~IoBusy /\ ~CompletionBusy
            /\ ioQueue = <<>> /\ completionQueue = <<>>
        BY <4>1, NobodyBusy
      <4>3. /\ main.pc \in {"wait", "pop", "signal", "freeItem", "exited"}
            /\ io.pc \in {"wait", "pop", "free", "aheadSignal", "exited"}
        BY <4>1, <4>2 DEF IInv, Types, MainType, MainSteps, IoType, IoSteps, Popping, Cutting, IoBusy
      <4>4. UNCHANGED <<main, io, completion, ioQueue, completionQueue, readAhead>>
        BY <2>8 DEF HoldConfirm
      <4>5. ~Holding'
        BY <2>8 DEF IInv, Types, CallerTypes, HoldConfirm, HoldAt, Holding
      <4>. QED
        BY <4>2, <4>3, <4>4, <4>5 DEF Settled, CompletionBusy
    <3>. QED
      BY <3>1, <3>2
  <2>9. CASE HoldUndo
    BY <2>9 DEF IInv, HoldUndo, HoldAt, Settled, Holding, Types, CompletionBusy, CallerTypes,
       DeviceTypes
  <2>10. CASE HoldUndone
    BY <2>10 DEF IInv, HoldUndone, HoldAt, Set, Settled, Holding, Types, CompletionBusy,
       CallerTypes, DeviceTypes
  <2>11. CASE HoldDone
    BY <2>11 DEF IInv, HoldDone, HoldAt, Settled, Holding, Types, CompletionBusy, CallerTypes,
       NoReadAhead
  <2>12. CASE SetupWrite
    BY <2>12 DEF IInv, SetupWrite, HoldAt, Settled, Holding, Types, CompletionBusy,
       CallerTypes, DeviceTypes
  <2>13. CASE SetupMoveEnd
    BY <2>13 DEF IInv, SetupMoveEnd, HoldAt, Settled, Holding, Types, CompletionBusy,
       CallerTypes, DeviceTypes
  <2>14. CASE Resume
    BY <2>14 DEF IInv, Resume, HoldAt, Settled, Holding, Types, CompletionBusy, CallerTypes,
       DeviceTypes
  <2>15. CASE ResumeSignal
    BY <2>15 DEF IInv, ResumeSignal, HoldAt, Set, Settled, Holding, Types, CompletionBusy,
       CallerTypes, DeviceTypes
  <2>. QED
    BY <1>7, <2>1, <2>2, <2>3, <2>4, <2>5, <2>6, <2>7, <2>8, <2>9, <2>10, <2>11, <2>12, <2>13,
       <2>14, <2>15 DEF Hold
<1>8. CASE Stop
  BY <1>8, StopFrame DEF IInv, Settled, Holding, Types, CompletionBusy
<1>. QED
  BY <1>1, <1>2, <1>3, <1>4, <1>5, <1>6, <1>7, <1>8 DEF Next
-----------------------------------------------------------------------------
(* The encrypted area *)

\* The device and EncryptedAreaEnd change only here.
DriveStays ==
    /\ UNCHANGED <<disk, encryptedEnd>>
    /\ hold.pc \in {"encrypted", "decrypted"} \/ hold'.pc \in {"encrypted", "decrypted"}
           => hold'.pc = hold.pc

\* Only IoWrite and the setup thread change the device or EncryptedAreaEnd.
LEMMA DriveMoves ==
    ASSUME IInv, [Next]_vars
    PROVE  DriveStays \/ IoWrite \/ SetupWrite \/ SetupMoveEnd
<1>1. CASE UNCHANGED <<disk, encryptedEnd, hold>>
  BY <1>1 DEF DriveStays
<1>2. ASSUME NEW i \in Irps, AddIrp(i) \/ Work(i) PROVE UNCHANGED <<disk, encryptedEnd, hold>>
  BY <1>2, AddFrame, WorkFrame
<1>3. CASE Main \/ Completion \/ Stop
  BY <1>1, <1>3, MainFrame, CompletionFrame, StopFrame
<1>4. CASE Io
  <2>1. UNCHANGED <<hold, encryptedEnd>>
    BY <1>4, IoFrame
  <2>2. UNCHANGED disk \/ IoWrite
    BY <1>4 DEF Io, IoWait, IoEmpty, IoPop, IoSkip, IoFail, IoRead, IoWritten, IoReadDone,
       IoDeliver, IoReadAhead, IoUncount, IoSignal, IoFreeRequest, IoTakeWorkItem, IoHand
  <2>. QED
    BY <1>1, <2>1, <2>2
<1>5. CASE Hold
  <2>1. CASE HoldBegin \/ HoldTest \/ HoldWait \/ HoldFail \/ HoldIdle \/ HoldClear \/ HoldSuspend
    BY <2>1 DEF IInv, Types, CallerTypes, DriveStays, HoldAt, HoldBegin, HoldTest, HoldWait,
       HoldFail, HoldIdle, HoldClear, HoldSuspend
  <2>2. CASE HoldConfirm \/ HoldUndo \/ HoldUndone \/ HoldDone \/ Resume \/ ResumeSignal
    BY <2>2 DEF IInv, Types, CallerTypes, DriveStays, HoldAt, HoldConfirm, HoldUndo, HoldUndone,
       HoldDone, Resume, ResumeSignal
  <2>. QED
    BY <1>5, <2>1, <2>2 DEF Hold
<1>6. CASE UNCHANGED vars
  BY <1>1, <1>6 DEF vars
<1>. QED
  BY <1>1, <1>2, <1>3, <1>4, <1>5, <1>6 DEF Next

\* The part of the encrypted area that the main thread has fixed for its fragment.
Fixed == main.pc \in {"acquire", "push"}

\* Only MainGetRequest fixes a fragment's part of the encrypted area.
LEMMA FixedMoves ==
    ASSUME IInv, [Next]_vars
    PROVE  \/ Fixed' => Fixed /\ main'.encrypted = main.encrypted /\ main'.sector = main.sector
           \/ MainGetRequest
<1>1. CASE UNCHANGED main
  BY <1>1 DEF Fixed
<1>2. CASE Main
  <2>1. CASE MainEmpty \/ MainWait \/ MainPop \/ MainTestSuspended \/ MainHeld \/ MainGetItem
             \/ MainWaitPool \/ MainRefuse \/ MainFail \/ MainRead
    BY <2>1 DEF IInv, Types, MainType, Fixed, MainAt, MainEmpty, MainWait, MainPop,
       MainTestSuspended, MainHeld, MainGetItem, MainWaitPool, MainRefuse, MainFail, MainRead
  <2>2. CASE MainReadDone \/ MainUncount \/ MainSignal \/ MainFreeItem \/ MainAccept
             \/ MainFragment \/ MainAcquire \/ MainPush
    BY <2>2 DEF IInv, Types, MainType, Fixed, MainAt, MainReadDone, MainUncount, MainSignal,
       MainFreeItem, MainAccept, MainFragment, MainAcquire, MainPush
  <2>. QED
    BY <1>2, <2>1, <2>2 DEF Main
<1>3. ASSUME NEW i \in Irps, AddIrp(i) \/ Work(i) PROVE UNCHANGED main
  BY <1>3, AddFrame, WorkFrame
<1>4. CASE Io \/ Completion \/ Hold \/ Stop
  BY <1>1, <1>4, IoFrame, CompletionFrame, HoldFrame, StopFrame
<1>5. CASE UNCHANGED vars
  BY <1>1, <1>5 DEF vars
<1>. QED
  BY <1>1, <1>2, <1>3, <1>4, <1>5 DEF Next

\* While EncryptedAreaEnd stays, so does what has been fixed of it.
LEMMA FixedStays ==
    ASSUME IInv, [Next]_vars, UNCHANGED encryptedEnd
    PROVE  /\ \A r \in Pipe' : r.encrypted = InEncryptedArea(r.sector)'
           /\ Fixed' => main'.encrypted = InEncryptedArea(main.sector)'
<1>1. \A s : InEncryptedArea(s)' = InEncryptedArea(s)
  BY DEF InEncryptedArea
<1>2. MainPush => Pushed.encrypted = InEncryptedArea(Pushed.sector)
  BY DEF IInv, Encrypting, MainPush, Pushed
<1>3. \A r \in Pipe' : r.encrypted = InEncryptedArea(r.sector)
  BY <1>2, PipeShrinks DEF IInv, Encrypting
<1>4. Fixed' => main'.encrypted = InEncryptedArea(main'.sector)
  <2>1. CASE MainGetRequest
    BY <2>1 DEF IInv, Types, MainType, MainGetRequest, Fixed
  <2>2. CASE ~MainGetRequest
    BY <2>2, FixedMoves DEF IInv, Encrypting, Fixed
  <2>. QED
    BY <2>1, <2>2
<1>5. InEncryptedArea(main.sector)' = InEncryptedArea(main'.sector)
  BY DEF InEncryptedArea
<1>. QED
  BY <1>1, <1>3, <1>4, <1>5

\* A held queue has nothing on the way.
LEMMA NothingFixed == ASSUME IInv, Holding PROVE Pipe = {} /\ ~Fixed /\ ~IoBusy
<1>1. /\ ioQueue = <<>> /\ completionQueue = <<>> /\ ~CompletionBusy /\ ~IoBusy /\ ~Fixed
  BY DEF IInv, Settled, IoBusy, Fixed
<1>. QED
  BY <1>1 DEF Pipe, InIo, InIoQueue, InCompletion, InCompletionQueue

\* A sector is written as its place in the encrypted area demands: a fragment by the
\* area's end when it was cut, which no hold has moved since.
LEMMA EncryptingStep == ASSUME IInv, [Next]_vars PROVE Encrypting'
<1>0. /\ encryptedEnd \in Int /\ SectorCount \in Int /\ Sectors \subseteq Int
      /\ disk \in [Sectors -> Content] /\ \A s \in Sectors : disk[s].encrypted \in BOOLEAN
  BY QueueAssumption DEF IInv, Types, DeviceTypes, Sectors, Content
<1>1. UNCHANGED encryptedEnd =>
          /\ \A r \in Pipe' : r.encrypted = InEncryptedArea(r.sector)'
          /\ Fixed' => main'.encrypted = InEncryptedArea(main.sector)'
  BY FixedStays
<1>2. CASE DriveStays
  <2>1. UNCHANGED <<disk, encryptedEnd>>
    BY <1>2 DEF DriveStays
  <2>2. DriveConsistent'
    BY <1>2, <2>1 DEF IInv, Encrypting, DriveConsistent, InEncryptedArea, DriveStays
  <2>. QED
    BY <1>1, <1>2, <2>1, <2>2 DEF IInv, Encrypting, Fixed, DriveStays
<1>3. CASE IoWrite
  <2>1. /\ io.pc = "access" /\ Writes(io.request.irp) /\ UNCHANGED <<hold, encryptedEnd>>
        /\ disk' = [disk EXCEPT ![io.request.sector] = fragment[io.request.buffer]]
    BY <1>3 DEF IoWrite, IoAt, Current
  <2>2. fragment[io.request.buffer].encrypted = io.request.encrypted
    BY <2>1 DEF IInv, Encrypted, Filled
  <2>3. io.request \in Pipe
    BY <2>1 DEF Pipe, InIo, IoBusy
  <2>4. fragment[io.request.buffer].encrypted = InEncryptedArea(io.request.sector)
    BY <2>2, <2>3 DEF IInv, Encrypting
  <2>5. ~Holding
    BY <2>1, NothingFixed DEF IoBusy
  <2>6. DriveConsistent'
    BY <1>0, <2>1, <2>4, <2>5 DEF IInv, Encrypting, DriveConsistent, InEncryptedArea, Holding
  <2>. QED
    BY <1>1, <2>1, <2>5, <2>6 DEF Encrypting, Fixed, Holding
<1>4. CASE SetupWrite
  <2>1. hold.pc = "held" /\ UNCHANGED encryptedEnd /\ IsFilterDevice
    BY <1>4 DEF IInv, Requested, SetupWrite, HoldAt
  <2>2. \A s \in Sectors : disk[s].encrypted <=> s <= encryptedEnd
    BY <1>0, <2>1 DEF IInv, Encrypting, DriveConsistent, InEncryptedArea
  <2>3. CASE hold'.pc = "encrypted"
    <3>1. /\ encryptedEnd + 1 < SectorCount /\ encryptedEnd + 1 \in Sectors
          /\ disk' = [disk EXCEPT ![encryptedEnd + 1] = Decrypted(@)]
      BY <1>4, <2>3, QueueAssumption DEF IInv, Types, CallerTypes, DeviceTypes, SetupWrite, HoldAt, Sectors
    <3>2. /\ disk'[encryptedEnd + 1].encrypted
          /\ \A t \in Sectors \ {encryptedEnd + 1} : disk'[t] = disk[t]
      <4>1. disk[encryptedEnd + 1] \in Content
        BY <1>0, <3>1
      <4>2. /\ disk'[encryptedEnd + 1] = Decrypted(disk[encryptedEnd + 1])
            /\ \A t \in Sectors \ {encryptedEnd + 1} : disk'[t] = disk[t]
        BY <1>0, <3>1
      <4>3. Decrypted(disk[encryptedEnd + 1]).encrypted = ~disk[encryptedEnd + 1].encrypted
        BY <4>1, DecryptedType
      <4>4. ~disk[encryptedEnd + 1].encrypted
        BY <1>0, <2>2, <3>1
      <4>. QED
        BY <4>2, <4>3, <4>4
    <3>3. DriveConsistent'
      BY <1>0, <2>1, <2>2, <2>3, <3>2 DEF DriveConsistent, InEncryptedArea
    <3>. QED
      BY <1>1, <2>1, <2>3, <3>1, <3>2, <3>3 DEF Encrypting, Fixed
  <2>4. CASE hold'.pc = "decrypted"
    <3>1. /\ encryptedEnd >= 0 /\ encryptedEnd \in Sectors
          /\ disk' = [disk EXCEPT ![encryptedEnd] = Decrypted(@)]
      BY <1>4, <2>4, QueueAssumption DEF IInv, Types, CallerTypes, DeviceTypes, SetupWrite, HoldAt, Sectors
    <3>2. /\ ~disk'[encryptedEnd].encrypted
          /\ \A t \in Sectors \ {encryptedEnd} : disk'[t] = disk[t]
      <4>1. disk[encryptedEnd] \in Content
        BY <1>0, <3>1
      <4>2. /\ disk'[encryptedEnd] = Decrypted(disk[encryptedEnd])
            /\ \A t \in Sectors \ {encryptedEnd} : disk'[t] = disk[t]
        BY <1>0, <3>1
      <4>3. Decrypted(disk[encryptedEnd]).encrypted = ~disk[encryptedEnd].encrypted
        BY <4>1, DecryptedType
      <4>4. disk[encryptedEnd].encrypted
        BY <1>0, <2>2, <3>1
      <4>. QED
        BY <4>2, <4>3, <4>4
    <3>3. DriveConsistent'
      BY <1>0, <2>1, <2>2, <2>4, <3>2 DEF DriveConsistent, InEncryptedArea
    <3>. QED
      BY <1>1, <2>1, <2>4, <3>1, <3>2, <3>3 DEF Encrypting, Fixed
  <2>. QED
    BY <1>4, <2>3, <2>4 DEF IInv, Types, CallerTypes, SetupWrite, HoldAt
<1>5. CASE SetupMoveEnd
  <2>1. UNCHANGED <<disk, main, io, completion, ioQueue, completionQueue>> /\ Holding /\ IsFilterDevice
    BY <1>5 DEF IInv, Requested, SetupMoveEnd, HoldAt, Holding
  <2>2. Pipe' = {} /\ ~Fixed'
    BY <2>1, NothingFixed DEF Pipe, InIo, InIoQueue, InCompletion, InCompletionQueue, IoBusy,
       CompletionBusy, Fixed
  <2>3. hold'.pc = "resume"
    BY <1>5 DEF IInv, Types, CallerTypes, SetupMoveEnd, HoldAt
  <2>4. \A s \in Sectors : disk[s].encrypted <=> s <= encryptedEnd'
    <3>1. CASE hold.pc = "encrypted"
      <4>1. encryptedEnd' = encryptedEnd + 1 /\ disk[encryptedEnd + 1].encrypted
        BY <1>5, <3>1 DEF IInv, Encrypting, SetupMoveEnd, HoldAt
      <4>2. \A s \in Sectors \ {encryptedEnd + 1} : disk[s].encrypted <=> s <= encryptedEnd
        BY <1>0, <2>1, <3>1 DEF IInv, Encrypting, DriveConsistent, InEncryptedArea
      <4>. QED
        BY <1>0, <4>1, <4>2
    <3>2. CASE hold.pc = "decrypted"
      <4>1. encryptedEnd' = encryptedEnd - 1 /\ ~disk[encryptedEnd].encrypted
        BY <1>5, <3>2 DEF IInv, Encrypting, SetupMoveEnd, HoldAt
      <4>2. \A s \in Sectors \ {encryptedEnd} : disk[s].encrypted <=> s <= encryptedEnd
        BY <1>0, <2>1, <3>2 DEF IInv, Encrypting, DriveConsistent, InEncryptedArea
      <4>. QED
        BY <1>0, <4>1, <4>2
    <3>. QED
      BY <1>5, <3>1, <3>2 DEF SetupMoveEnd, HoldAt
  <2>5. DriveConsistent'
    BY <1>0, <2>1, <2>4 DEF DriveConsistent, InEncryptedArea
  <2>. QED
    BY <2>2, <2>3, <2>5 DEF Encrypting, Fixed
<1>. QED
  BY <1>2, <1>3, <1>4, <1>5, DriveMoves

-----------------------------------------------------------------------------
(* The invariant *)

\* A started queue has its types.
LEMMA InitTypes == Init => Types
<1>. SUFFICES ASSUME Init PROVE Types
  OBVIOUS
<1>0. 0 \in Sectors /\ Blank \in Content
  BY QueueAssumption DEF Sectors, Blank, Content
<1>1. FlagTypes /\ NumberTypes /\ ListTypes /\ CallerTypes
  <2>1. FlagTypes
    BY DEF Init, FlagTypes, Events, Buffers
  <2>2. NumberTypes /\ ListTypes
    BY QueueAssumption DEF Init, NumberTypes, ListTypes
  <2>3. CallerTypes
    BY DEF Init, CallerTypes, HoldSteps, StopSteps
  <2>. QED
    BY <2>1, <2>2, <2>3
<1>2. \A i \in Irps : SomeRequest(i) \in Piece
  BY <1>0 DEF SomeRequest, Piece, Buffers
<1>3. MainType /\ IoType /\ CompletionType
  BY <1>0, <1>2 DEF Init, MainType, IoType, CompletionType, MainSteps, IoSteps, CompletionSteps, Buffers
<1>4. DeviceTypes
  BY <1>0, QueueAssumption DEF Init, DeviceTypes, Content, NoReadAhead, InEncryptedArea
<1>5. IrpType
  BY DEF Init, IrpType, Places
<1>6. DataTypes
  BY <1>0 DEF Init, DataTypes
<1>. QED
  BY <1>1, <1>3, <1>4, <1>5, <1>6 DEF Types

\* A started queue has nothing to count.
LEMMA InitCounted == Init => Counted
<1>. SUFFICES ASSUME Init PROVE Counted
  OBVIOUS
<1>1. \A i \in Irps : irp[i].at = "new"
  BY DEF Init
<1>2. Made = {} /\ \A Z \in Counting : {i \in Irps : irp[i].at \in Z} = {}
  BY <1>1 DEF Made, Counting, OpenAt, PermitAt, ActiveAt, TakenAt
<1>3. IsFiniteSet(Made) /\ \A Z \in Counting : Count(irp, Z) = 0
  BY <1>2, FS_EmptySet DEF Count
<1>4. /\ Count(irp, OpenAt) = 0 /\ Count(irp, PermitAt) = 0 /\ Count(irp, ActiveAt) = 0
      /\ Count(irp, TakenAt) = 0 /\ Count(irp, {"queued"}) = 0
  BY <1>3 DEF Counting
<1>5. main.pc = "wait" /\ io.pc = "wait" /\ completion.pc = "wait"
  BY DEF Init
<1>6. /\ MainCounted = 0 /\ MainWaits = 0 /\ IoCounted = 0 /\ IoPermit = 0 /\ CompletionPermit = 0
      /\ MainRequest = 0 /\ IoRequest = 0 /\ CompletionRequest = 0
  BY <1>5 DEF One, MainCounted, MainWaits, IoCounted, IoPermit, CompletionPermit, MainRequest,
     IoRequest, CompletionRequest
<1>7. /\ outstanding = 0 /\ permits = WorkItems /\ activeWorkItems = 0
      /\ itemsInUse = 0 /\ requestsInUse = 0
      /\ Len(mainQueue) = 0 /\ Len(ioQueue) = 0 /\ Len(completionQueue) = 0
  BY DEF Init
<1>. QED
  BY <1>3, <1>4, <1>6, <1>7, QueueAssumption
     DEF Counted, OutstandingCounted, PermitsCounted, ActiveCounted, ItemsCounted, RequestsCounted

\* The invariant holds after Start.
LEMMA InitIInv == Init => IInv
<1>. SUFFICES ASSUME Init PROVE IInv
  OBVIOUS
<1>1. Types /\ Counted
  BY InitTypes, InitCounted
<1>2. /\ main.pc = "wait" /\ io.pc = "wait" /\ completion.pc = "wait" /\ hold.pc = "idle"
      /\ mainQueue = <<>> /\ ioQueue = <<>> /\ completionQueue = <<>> /\ log = <<>>
      /\ \A i \in Irps : irp[i].at = "new"
      /\ io.ahead = FALSE
  BY DEF Init
<1>3. Pipe = {} /\ InIo = {} /\ InIoQueue = {} /\ InCompletion = {} /\ InCompletionQueue = {}
      /\ ~Popping /\ ~Cutting /\ ~Ending /\ ~IoBusy /\ ~CompletionBusy
  BY <1>2 DEF Pipe, InIo, InIoQueue, InCompletion, InCompletionQueue, Popping, Cutting, Ending, IoBusy,
     CompletionBusy
<1>4. Requested /\ MainHas /\ IoHas /\ CompletionHas
  BY <1>2, <1>3 DEF Requested, MainHas, IoHas, CompletionHas
<1>5. Logged
  BY <1>2 DEF Logged, Logs, AtAccepted, AtCompleted, Working
<1>6. Queued /\ Entered /\ Ordered
  BY <1>2, <1>3 DEF Queued, Entered, Ordered, Order
<1>7. Bounded
  BY QueueAssumption DEF Init, Bounded
<1>8. Exclusive /\ Encrypted
  BY <1>2 DEF Exclusive, Encrypted
<1>9. Stopping /\ Suspending /\ Settled
  BY <1>2 DEF Init, Stopping, Exiting, Suspending, Settled, Holding
<1>10. Encrypting
  BY <1>2, <1>3 DEF Init, Encrypting, DriveConsistent, InEncryptedArea
<1>. QED
  BY <1>1, <1>4, <1>5, <1>6, <1>7, <1>8, <1>9, <1>10 DEF IInv

\* Types, part by part.
LEMMA TypesStep == ASSUME IInv, [Next]_vars PROVE Types'
BY FlagTypesStep, NumberTypesStep, ListTypesStep, MainTypeStep, IoTypeStep, CompletionTypeStep,
   CallerTypesStep, IrpTypeStep, DeviceTypesStep, DataTypesStep DEF Types

\* Counted, part by part.
LEMMA CountedStep == ASSUME IInv, [Next]_vars PROVE Counted'
BY MadeStep, OutstandingCountedStep, PermitsCountedStep, ActiveCountedStep, ItemsCountedStep,
   RequestsCountedStep DEF Counted

\* Every step keeps the invariant.
LEMMA IStep == IInv /\ [Next]_vars => IInv'
BY TypesStep, RequestedStep, MainHasStep, IoHasStep, CompletionHasStep, LoggedStep, QueuedStep,
   EnteredStep, OrderedStep, CountedStep, BoundedStep, ExclusiveStep, StoppingStep, SuspendingStep,
   SettledStep, EncryptingStep, EncryptedStep DEF IInv

\* The inductive invariant of the queue.
THEOREM Invariant == Spec => []IInv
BY InitIInv, IStep, PTL DEF Spec

-----------------------------------------------------------------------------
(* What it implies *)

\* The requests in the main list are as many different ones.
LEMMA QueuedCount == IInv => Len(mainQueue) + MainWaits <= Count(irp, {"queued"})
<1>. SUFFICES ASSUME IInv PROVE Len(mainQueue) + MainWaits <= Count(irp, {"queued"})
  OBVIOUS
<1>. DEFINE Q == {i \in Irps : irp[i].at = "queued"}
            L == Len(mainQueue) + MainWaits
            who == [n \in 1 .. L |-> IF n <= Len(mainQueue) THEN mainQueue[n] ELSE main.irp]
<1>1. /\ mainQueue \in Seq(Irps) /\ Len(mainQueue) \in Nat /\ DOMAIN mainQueue = 1 .. Len(mainQueue)
      /\ MainWaits \in {0, 1} /\ (MainWaits = 1 => Popping) /\ main.irp \in Irps
  BY DEF IInv, Types, ListTypes, MainType, MainWaits, One, Popping
<1>2. IsFiniteSet(Q) /\ Cardinality(Q) \in Nat /\ Count(irp, {"queued"}) = Cardinality(Q)
  <2>1. Q \subseteq Made /\ IsFiniteSet(Made)
    BY DEF IInv, Counted, Made
  <2>2. Count(irp, {"queued"}) = Cardinality(Q)
    <3>1. {i \in Irps : irp[i].at \in {"queued"}} = Q
      OBVIOUS
    <3>. QED
      BY <3>1 DEF Count
  <2>. QED
    BY <2>1, <2>2, FS_Subset, FS_CardinalityType
<1>3. /\ \A n \in DOMAIN mainQueue : irp[mainQueue[n]].at = "queued"
      /\ Popping => irp[main.irp].at = "queued"
  BY DEF IInv, MainHas
<1>4. /\ \A m, n \in DOMAIN mainQueue : m < n => mainQueue[m] # mainQueue[n]
      /\ Popping => \A n \in DOMAIN mainQueue : main.irp # mainQueue[n]
  BY SoonerStrict DEF IInv, Types, Queued
<1>5. who \in Injection(1 .. L, Q)
  <2>1. who \in [1 .. L -> Q]
    BY <1>1, <1>3
  <2>2. ASSUME NEW m \in 1 .. L, NEW n \in 1 .. L, m < n PROVE who[m] # who[n]
    BY <1>1, <1>4, <2>2
  <2>3. \A m, n \in 1 .. L : who[m] = who[n] => m = n
    BY <1>1, <2>2
  <2>. QED
    BY <2>1, <2>3 DEF Injection, IsInjective
<1>6. IsFiniteSet(1 .. L) /\ Cardinality(1 .. L) = L
  <2>1. L \in Nat /\ 1 \in Int /\ L \in Int
    BY <1>1
  <2>. HIDE DEF L
  <2>2. IsFiniteSet(1 .. L) /\ Cardinality(1 .. L) = IF 1 > L THEN 0 ELSE L - 1 + 1
    BY <2>1, FS_Interval
  <2>. QED
    BY <2>1, <2>2
<1>. HIDE DEF who, Q, L
<1>7. Cardinality(1 .. L) <= Cardinality(Q)
  BY <1>2, <1>5, <1>6, FS_Injection DEF ExistsInjection
<1>. QED
  BY <1>2, <1>6, <1>7 DEF L

\* An active work item is one in use.
LEMMA ActivePermit == IInv => Count(irp, ActiveAt) <= Count(irp, PermitAt)
<1>. SUFFICES ASSUME IInv PROVE Count(irp, ActiveAt) <= Count(irp, PermitAt)
  OBVIOUS
<1>. DEFINE S == {i \in Irps : irp[i].at \in ActiveAt}
            T == {i \in Irps : irp[i].at \in PermitAt}
<1>1. S \subseteq T
  BY DEF ActiveAt, PermitAt
<1>2. T \subseteq Made /\ IsFiniteSet(Made)
  BY DEF IInv, Counted, Made, PermitAt
<1>3. IsFiniteSet(T)
  BY <1>2, FS_Subset
<1>4. Cardinality(S) <= Cardinality(T)
  BY <1>1, <1>3, FS_Subset
<1>. QED
  BY <1>4 DEF Count

\* The counts of the invariant are those of Balanced, and within their bounds.
LEMMA CountsBalance == IInv => Balanced
<1>. SUFFICES ASSUME IInv PROVE Balanced
  OBVIOUS
<1>1. /\ Count(irp, PermitAt) \in Nat /\ Count(irp, ActiveAt) \in Nat /\ Count(irp, TakenAt) \in Nat
      /\ Count(irp, {"queued"}) \in Nat
  BY CountType DEF IInv, Counted, Counting
<1>2. /\ MainCounted \in {0, 1} /\ MainWaits \in {0, 1} /\ IoCounted \in {0, 1} /\ IoPermit \in {0, 1}
      /\ CompletionPermit \in {0, 1} /\ MainRequest \in {0, 1} /\ IoRequest \in {0, 1}
      /\ CompletionRequest \in {0, 1}
  BY DEF One, MainCounted, MainWaits, IoCounted, IoPermit, CompletionPermit, MainRequest, IoRequest,
     CompletionRequest
<1>3. Len(mainQueue) \in Nat /\ Len(ioQueue) \in Nat /\ Len(completionQueue) \in Nat
  BY DEF IInv, Types, ListTypes
<1>4. /\ permits = WorkItems - Count(irp, PermitAt) - IoPermit - CompletionPermit
      /\ activeWorkItems = Count(irp, ActiveAt)
      /\ itemsInUse = Count(irp, TakenAt) + Count(irp, {"queued"}) - Len(mainQueue) - MainWaits
      /\ requestsInUse = Len(ioQueue) + Len(completionQueue) + MainRequest + IoRequest + CompletionRequest
      /\ permits >= 0 /\ itemsInUse <= Items /\ requestsInUse <= Requests
  BY DEF IInv, Counted, PermitsCounted, ActiveCounted, ItemsCounted, RequestsCounted, Bounded
<1>5. WorkItems \in Nat /\ Items \in Nat /\ Requests \in Nat
  BY QueueAssumption
<1>6. /\ activeWorkItems \in 0 .. WorkItems /\ permits \in 0 .. WorkItems
      /\ itemsInUse \in 0 .. Items /\ requestsInUse \in 0 .. Requests
  <2>1. /\ Count(irp, ActiveAt) <= Count(irp, PermitAt)
        /\ Len(mainQueue) + MainWaits <= Count(irp, {"queued"})
    BY ActivePermit, QueuedCount
  <2>2. activeWorkItems \in 0 .. WorkItems /\ permits \in 0 .. WorkItems
    <3>1. ASSUME NEW p \in Nat, NEW a \in Nat, NEW x \in {0, 1}, NEW y \in {0, 1},
                 WorkItems - p - x - y >= 0, a <= p
          PROVE  a \in 0 .. WorkItems /\ WorkItems - p - x - y \in 0 .. WorkItems
      BY <1>5, <3>1
    <3>2. Count(irp, ActiveAt) \in 0 .. WorkItems
          /\ WorkItems - Count(irp, PermitAt) - IoPermit - CompletionPermit \in 0 .. WorkItems
      BY <1>1, <1>2, <1>4, <2>1, <3>1
    <3>. QED
      BY <1>4, <3>2
  <2>3. itemsInUse \in 0 .. Items
    <3>1. ASSUME NEW t \in Nat, NEW q \in Nat, NEW l \in Nat, NEW w \in {0, 1},
                 t + q - l - w <= Items, l + w <= q
          PROVE  t + q - l - w \in 0 .. Items
      BY <1>5, <3>1
    <3>2. Count(irp, TakenAt) + Count(irp, {"queued"}) - Len(mainQueue) - MainWaits \in 0 .. Items
      BY <1>1, <1>2, <1>3, <1>4, <2>1, <3>1
    <3>. QED
      BY <1>4, <3>2
  <2>4. requestsInUse \in 0 .. Requests
    BY <1>2, <1>3, <1>4, <1>5
  <2>. QED
    BY <2>2, <2>3, <2>4
<1>7. outstanding = Count(irp, OpenAt) + MainCounted + IoCounted
  BY DEF IInv, Counted, OutstandingCounted
<1>8. Working \ {"returned"} = PermitAt
  BY DEF Working, PermitAt
<1>. QED
  BY <1>4, <1>6, <1>7, <1>8
     DEF Balanced, Count, OpenAt, One, MainCounted, IoCounted, IoPermit, CompletionPermit, MainRequest,
         IoRequest, CompletionRequest

\* Users that are pairwise different are one at most.
LEMMA NoBufferShared == IInv => FragmentExclusive
<1>. SUFFICES ASSUME IInv, NEW b \in Buffers
              PROVE  FragmentUses(b) + (IF b \in signalled THEN 1 ELSE 0) <= 1
  BY DEF FragmentExclusive
<1>. DEFINE Q == {n \in DOMAIN ioQueue : ioQueue[n].buffer = b}
            InMain == main.pc = "push" /\ main.buffer = b
            InAccess == io.pc \in {"access", "accessed"} /\ io.request.buffer = b
<1>1. /\ \A m, n \in Q : m = n
      /\ Q # {} => ~InMain /\ ~InAccess /\ b \notin signalled
      /\ InMain => ~InAccess /\ b \notin signalled
      /\ InAccess => b \notin signalled
  BY DEF IInv, Exclusive
<1>2. Cardinality(Q) = IF Q = {} THEN 0 ELSE 1
  <2>1. CASE Q = {}
    BY <2>1, FS_EmptySet
  <2>2. CASE Q # {}
    <3>1. PICK n \in Q : TRUE
      BY <2>2
    <3>2. Q = {n}
      BY <1>1, <3>1
    <3>. HIDE DEF Q
    <3>. QED
      BY <2>2, <3>2, FS_Singleton
  <2>. QED
    BY <2>1, <2>2
<1>3. FragmentUses(b) = Cardinality(Q) + (IF InMain THEN 1 ELSE 0) + (IF InAccess THEN 1 ELSE 0)
  BY DEF FragmentUses, Current
<1>. HIDE DEF Q, InMain, InAccess
<1>. QED
  BY <1>1, <1>2, <1>3

\* What has been accepted and is no longer anywhere has been completed.
LEMMA StoppedQuiet == IInv => StopIsQuiet
<1>. SUFFICES ASSUME IInv, stop \in {"free", "stopped"}
              PROVE  /\ main.pc = "exited" /\ io.pc = "exited" /\ completion.pc = "exited"
                     /\ activeWorkItems = 0 /\ requestsInUse = 0
                     /\ \A i \in Irps : Happened(<<"accepted", i>>) => Happened(<<"completed", i>>)
  BY DEF StopIsQuiet
<1>1. /\ main.pc = "exited" /\ io.pc = "exited" /\ completion.pc = "exited" /\ activeWorkItems = 0
      /\ \A i \in Irps : irp[i].at \notin {"admitted", "queued", "handed", "delivered"}
  BY DEF IInv, Stopping, Exiting
<1>2. ioQueue = <<>> /\ completionQueue = <<>>
  BY ExitingIdle DEF Exiting
<1>3. requestsInUse = 0
  <2>1. Len(ioQueue) = 0 /\ Len(completionQueue) = 0
    BY <1>2
  <2>. QED
    BY <1>1, <2>1 DEF IInv, Counted, RequestsCounted, One, MainRequest, IoRequest, CompletionRequest
<1>4. \A i \in Irps : irp[i].at \in AtAccepted => irp[i].at \in AtCompleted
  BY <1>1 DEF AtAccepted, AtCompleted
<1>5. \A e : Happened(e) <=> Logs(log, e)
  BY DEF Happened, Logs
<1>. QED
  BY <1>1, <1>3, <1>4, <1>5 DEF IInv, Logged

-----------------------------------------------------------------------------

\* OutstandingIoCount, the semaphore, the active work items and the buffers of
\* the pools in use are at every moment what the requests and the threads
\* account for, and within the pools' sizes.
THEOREM CountsAreRight == Spec => []Balanced
BY Invariant, CountsBalance, PTL

\* A fragment buffer has one user at most, and none while its event is set.
THEOREM OneBufferUser == Spec => []FragmentExclusive
BY Invariant, NoBufferShared, PTL

\* A holder of the queue has the device to itself: no request and no read-ahead
\* is on the way from the moment HoldWhenIdle succeeds to ResumeFromHold.
THEOREM HoldIsExclusive == Spec => []HeldIsQuiet
<1>1. IInv => HeldIsQuiet
  BY DEF IInv, Settled, HeldIsQuiet
<1>. QED
  BY <1>1, Invariant, PTL

\* Whatever the requests write while EncryptedAreaEnd moves, each sector of the
\* device is encrypted exactly when it lies in the encrypted area.
THEOREM AreaIsRight == Spec => []DriveConsistent
<1>1. IInv => DriveConsistent
  BY DEF IInv, Encrypting
<1>. QED
  BY <1>1, Invariant, PTL

\* What Stop frees is no longer used, and no accepted request is left undone.
THEOREM StopFreesUnused == Spec => []StopIsQuiet
BY Invariant, StoppedQuiet, PTL

-----------------------------------------------------------------------------
(* Where the data is *)

\* By the log l, v has not been accepted later than w; event e comes before event f.
NotLater(l, v, w) == v = w \/ Sooner(l, v, w)
Earlier(l, e, f) == \E n, k \in DOMAIN l : n < k /\ l[n] = e /\ l[k] = f

\* The fragments that have yet to be written or read, and those that have been read
\* and not yet decrypted.
InAccess  == IF io.pc = "access" THEN {io.request} ELSE {}
InDeliver == IF io.pc = "deliver" THEN {io.request} ELSE {}
InDecrypt == IF completion.pc = "decrypt" THEN {completion.request} ELSE {}
ToAccess  == InIoQueue \cup InAccess
ToDecrypt == InDeliver \cup InCompletionQueue \cup InDecrypt

\* What request i asks of sector s has yet to be done.
Pending(i, s) ==
    \/ \E n \in DOMAIN mainQueue : mainQueue[n] = i
    \/ main.irp = i /\ (Popping \/ (Cutting /\ main.sector <= s))
    \/ \E r \in ToAccess : r.irp = i /\ r.sector = s

\* What is on the device is older than what waits, and not newer than what is being cut
\* or has been.
Newest ==
    \A s \in Sectors : disk[s].writer # NoIrp =>
        /\ \A n \in DOMAIN mainQueue : Sooner(log, disk[s].writer, mainQueue[n])
        /\ Popping => Sooner(log, disk[s].writer, main.irp)
        /\ Cutting => NotLater(log, disk[s].writer, main.irp)
        /\ \A r \in ToAccess : NotLater(log, disk[s].writer, r.irp)

\* By the records f of the requests, w is a write of sector s.
WritesIn(f, w, s) == w \in Irps /\ f[w].op.write /\ s \in f[w].op.first .. f[w].op.last

\* A write is pending or has landed, if it has not failed.
Written ==
    \A s \in Sectors : disk[s].writer # NoIrp =>
        WritesIn(irp, disk[s].writer, s) /\ irp[disk[s].writer].at \in AtAccepted
Landed ==
    \A w \in Irps, s \in Sectors :
        irp[w].at \in AtAccepted /\ WritesIn(irp, w, s) /\ irp[w].status = "success" =>
            Pending(w, s) \/ (disk[s].writer # NoIrp /\ NotLater(log, w, disk[s].writer))

\* No write that is let through touches a protected sector, or comes after one denied.
Protecting ==
    /\ \A s \in Sectors : disk[s].writer # NoIrp => s \notin Protected
    /\ \A r \in ToAccess : Writes(r.irp) => r.sector \notin Protected
    /\ Cutting /\ Writes(main.irp) => SectorsOf(main.irp) \cap Protected = {}
Denying ==
    \A v \in Irps : ~IsFilterDevice /\ irp[v].status = "denied" =>
        /\ protectionAction
        /\ \A s \in Sectors : disk[s].writer # NoIrp => Sooner(log, disk[s].writer, v)
        /\ \A r \in ToAccess : Writes(r.irp) => Sooner(log, r.irp, v)
        /\ Cutting /\ Writes(main.irp) => Sooner(log, main.irp, v)

\* The read-ahead buffer is a copy of the device, but for a write about to make it invalid.
Cache ==
    readAhead.valid => \/ readAhead.data = disk[readAhead.sector]
                       \/ io.pc = "accessed" /\ Writes(io.request.irp)

\* By the log l and the records f, contents c of sector s are not older than what had
\* been written when i was accepted.
Latest(l, f, c, s, i) ==
    \A v \in Irps :
        WritesIn(f, v, s) /\ f[v].status = "success" /\ Earlier(l, <<"completed", v>>, <<"accepted", i>>)
            => c.writer \in Irps /\ NotLater(l, v, c.writer)

\* What has been read, stage by stage: directly, in the fragment buffer, undecrypted
\* and decrypted in the requester's buffer.
DirectRead ==
    main.pc = "direct" =>
        \A s \in SectorsOf(main.irp) :
            /\ Latest(log, irp, got[main.irp][s], s, main.irp)
            /\ got[main.irp][s].encrypted = InEncryptedArea(s)
FragmentRead ==
    io.pc = "accessed" /\ ~Writes(io.request.irp) /\ ~Failed(io.request.irp) =>
        /\ Latest(log, irp, fragment[io.request.buffer], io.request.sector, io.request.irp)
        /\ fragment[io.request.buffer].encrypted = io.request.encrypted
TransitRead ==
    \A r \in ToDecrypt : ~Failed(r.irp) =>
        /\ Latest(log, irp, got[r.irp][r.sector], r.sector, r.irp)
        /\ got[r.irp][r.sector].encrypted = r.encrypted
AllRead ==
    \A i \in Irps : irp[i].at \in AtAccepted /\ ~Writes(i) /\ ~Failed(i) =>
        \A s \in SectorsOf(i) :
            \/ Pending(i, s)
            \/ io.pc = "accessed" /\ io.request.irp = i /\ io.request.sector = s
            \/ \E r \in ToDecrypt : r.irp = i /\ r.sector = s
            \/ Latest(log, irp, got[i][s], s, i) /\ ~got[i][s].encrypted

Delivering == Newest /\ Written /\ Landed /\ Protecting /\ Denying
Returning  == Cache /\ DirectRead /\ FragmentRead /\ TransitRead /\ AllRead

-----------------------------------------------------------------------------
(* What a step does to the requests and to what is pending *)

\* What is accepted remains in its order.
LEMMA NotLaterGrows ==
    ASSUME IInv, [Next]_vars
    PROVE  \A v, w : NotLater(log, v, w) => NotLater(log', v, w)
BY OrderGrows DEF NotLater

\* The order in which writes were accepted is transitive.
LEMMA SoonerTransitive ==
    ASSUME Logged, DataTypes, NEW u, NEW v, NEW w, Sooner(log, u, v), Sooner(log, v, w)
    PROVE  Sooner(log, u, w)
<1>1. PICK n, k \in DOMAIN log : n < k /\ log[n] = <<"accepted", u>> /\ log[k] = <<"accepted", v>>
  BY DEF Sooner
<1>2. PICK m, h \in DOMAIN log : m < h /\ log[m] = <<"accepted", v>> /\ log[h] = <<"accepted", w>>
  BY DEF Sooner
<1>3. m = k
  BY <1>1, <1>2 DEF Logged
<1>4. n \in Int /\ k \in Int /\ h \in Int
  BY DEF DataTypes
<1>. QED
  BY <1>1, <1>2, <1>3, <1>4 DEF Sooner

\* Not later than what is not later, or sooner than it.
LEMMA NotLaterTransitive ==
    ASSUME IInv, NEW u, NEW v, NEW w
    PROVE  /\ NotLater(log, u, v) /\ NotLater(log, v, w) => NotLater(log, u, w)
           /\ NotLater(log, u, v) /\ Sooner(log, v, w) => Sooner(log, u, w)
BY SoonerTransitive DEF NotLater, IInv, Types

\* A step changes one request at most, and which one.
RequestSteps ==
    \/ UNCHANGED irp
    \/ \E j \in Irps : (AddIrp(j) \/ Work(j)) /\ \A i \in Irps \ {j} : irp'[i] = irp[i]
    \/ /\ MainRefuse \/ MainFail \/ MainReadDone \/ MainFreeItem
       /\ \A i \in Irps \ {main.irp} : irp'[i] = irp[i]
    \/ (IoFail \/ IoHand) /\ \A i \in Irps \ {io.request.irp} : irp'[i] = irp[i]
    \/ CompletionHand /\ \A i \in Irps \ {completion.request.irp} : irp'[i] = irp[i]

\* Every step changes at most one request, and in one of the ways of RequestSteps.
LEMMA RequestMoves == ASSUME IInv, [Next]_vars PROVE RequestSteps
<1>1. CASE UNCHANGED vars
  BY <1>1 DEF vars, RequestSteps
<1>2. ASSUME NEW j \in Irps, AddIrp(j) \/ Work(j) PROVE RequestSteps
  BY <1>2 DEF RequestSteps, IInv, Types, IrpType, AddIrp, AddCount, AddTest, AddQueue, AddRefuse,
     AddRefuseSignal, Work, WorkComplete, WorkUncount, WorkSignal, WorkInactive, WorkSignalInactive,
     WorkReturn, WorkFreeItem, At
<1>3. CASE Main
  <2>1. CASE MainRefuse \/ MainFail \/ MainReadDone \/ MainFreeItem
    <3>1. \A i \in Irps \ {main.irp} : irp'[i] = irp[i]
      BY <2>1 DEF IInv, Types, IrpType, MainRefuse, MainFail, MainReadDone, MainFreeItem, Complete
    <3>. QED
      BY <2>1, <3>1 DEF RequestSteps
  <2>2. CASE UNCHANGED irp
    BY <2>2 DEF RequestSteps
  <2>. QED
    BY <1>3, <2>1, <2>2 DEF Main, MainEmpty, MainWait, MainPop, MainTestSuspended, MainHeld,
       MainGetItem, MainWaitPool, MainRead, MainUncount, MainSignal, MainAccept, MainFragment,
       MainGetRequest, MainAcquire, MainPush
<1>4. CASE Io
  <2>1. CASE IoFail \/ IoHand
    <3>1. \A i \in Irps \ {io.request.irp} : irp'[i] = irp[i]
      BY <2>1 DEF IInv, Types, IrpType, IoFail, IoHand, Hand, Current
    <3>. QED
      BY <2>1, <3>1 DEF RequestSteps
  <2>2. CASE UNCHANGED irp
    BY <2>2 DEF RequestSteps
  <2>. QED
    BY <1>4, <2>1, <2>2 DEF Io, IoWait, IoEmpty, IoPop, IoSkip, IoWrite, IoRead, IoWritten,
       IoReadDone, IoDeliver, IoReadAhead, IoUncount, IoSignal, IoFreeRequest, IoTakeWorkItem
<1>5. CASE Completion
  <2>1. CASE CompletionHand
    <3>1. \A i \in Irps \ {completion.request.irp} : irp'[i] = irp[i]
      BY <2>1 DEF IInv, Types, IrpType, CompletionHand, Hand, Finishing
    <3>. QED
      BY <2>1, <3>1 DEF RequestSteps
  <2>2. CASE UNCHANGED irp
    BY <2>2 DEF RequestSteps
  <2>. QED
    BY <1>5, <2>1, <2>2 DEF Completion, CompletionWait, CompletionEmpty, CompletionPop,
       CompletionDecrypt, CompletionTakeWorkItem, CompletionFreeRequest
<1>6. CASE Hold \/ Stop
  BY <1>6, HoldFrame, StopFrame DEF RequestSteps
<1>. QED
  BY <1>1, <1>2, <1>3, <1>4, <1>5, <1>6 DEF Next

\* The status of a request that has been made is set by three steps of the main
\* thread, and by a failure in the I/O thread.
LEMMA StatusMoves ==
    ASSUME IInv, [Next]_vars, NEW i \in Irps, irp[i].at # "new"
    PROVE  \/ irp'[i].status = irp[i].status
           \/ main.irp = i /\ (MainRefuse \/ MainFail \/ MainReadDone)
           \/ io.request.irp = i /\ IoFail
<1>1. ASSUME NEW j \in Irps, AddIrp(j) \/ Work(j), \A k \in Irps \ {j} : irp'[k] = irp[k]
      PROVE  irp'[i].status = irp[i].status
  BY <1>1 DEF IInv, Types, IrpType, AddIrp, AddCount, AddTest, AddQueue, AddRefuse,
     AddRefuseSignal, Work, WorkComplete, WorkUncount, WorkSignal, WorkInactive, WorkSignalInactive,
     WorkReturn, WorkFreeItem, At
<1>2. MainFreeItem => irp'[i].status = irp[i].status
  BY DEF IInv, Types, IrpType, MainFreeItem
<1>3. IoHand => irp'[i].status = irp[i].status
  BY DEF IInv, Types, IrpType, IoHand, Hand
<1>4. CompletionHand => irp'[i].status = irp[i].status
  BY DEF IInv, Types, IrpType, CompletionHand, Hand
<1>. QED
  BY <1>1, <1>2, <1>3, <1>4, RequestMoves DEF RequestSteps

\* A request is accepted by AddQueue, and once.
LEMMA AcceptedMoves ==
    ASSUME IInv, [Next]_vars, NEW i \in Irps
    PROVE  /\ irp[i].at \in AtAccepted => irp'[i].at \in AtAccepted
           /\ irp[i].at \in AtCompleted => irp'[i].at \in AtCompleted
           /\ irp'[i].at \in AtAccepted => irp[i].at \in AtAccepted \/ AddQueue(i)
<1>1. ASSUME NEW e, Logs(log, e) PROVE Logs(log', e)
  <2>1. PICK n \in DOMAIN log : log[n] = e
    BY <1>1 DEF Logs
  <2>2. log' = log \/ \E f \in {"accepted", "completed"} \X Irps : log' = Append(log, f)
    BY LogGrows DEF IInv, Types
  <2>3. log \in Seq({"accepted", "completed"} \X Irps)
    BY DEF IInv, Types, DataTypes
  <2>4. ASSUME NEW f \in {"accepted", "completed"} \X Irps, log' = Append(log, f)
        PROVE  n \in DOMAIN log' /\ log'[n] = log[n]
    BY <2>1, <2>3, <2>4, Appended
  <2>. QED
    BY <2>1, <2>2, <2>4 DEF Logs
<1>2. /\ irp[i].at \in AtAccepted => irp'[i].at \in AtAccepted
      /\ irp[i].at \in AtCompleted => irp'[i].at \in AtCompleted
  BY <1>1, LoggedStep DEF IInv, Logged
<1>3. ASSUME NEW j \in Irps, AddIrp(j) \/ Work(j), \A k \in Irps \ {j} : irp'[k] = irp[k]
      PROVE  irp'[i].at \in AtAccepted => irp[i].at \in AtAccepted \/ AddQueue(i)
  BY <1>3 DEF IInv, Types, IrpType, AddIrp, AddCount, AddTest, AddQueue, AddRefuse,
     AddRefuseSignal, Work, WorkComplete, WorkUncount, WorkSignal, WorkInactive, WorkSignalInactive,
     WorkReturn, WorkFreeItem, At, AtAccepted, Working
<1>4. MainRefuse \/ MainFail \/ MainReadDone \/ MainFreeItem => irp[main.irp].at \in AtAccepted
  BY DEF IInv, MainHas, Popping, Ending, MainRefuse, MainFail, MainReadDone, MainFreeItem, MainAt,
     AtAccepted
<1>5. IoFail \/ IoHand => irp[io.request.irp].at \in AtAccepted
  BY DEF IInv, IoHas, IoBusy, Sound, IoFail, IoHand, IoAt, AtAccepted
<1>6. CompletionHand => irp[completion.request.irp].at \in AtAccepted
  BY DEF IInv, CompletionHas, CompletionBusy, Sound, CompletionHand, CompletionAt, AtAccepted
<1>. QED
  BY <1>2, <1>3, <1>4, <1>5, <1>6, RequestMoves DEF RequestSteps

\* An accepted request is still what it was.
LEMMA WritesStay ==
    ASSUME IInv, [Next]_vars, NEW w \in Irps, irp[w].at \in AtAccepted
    PROVE  /\ irp'[w].op = irp[w].op
           /\ \A s : WritesIn(irp', w, s) <=> WritesIn(irp, w, s)
<1>1. irp[w].at # "new"
  BY DEF AtAccepted, Working
<1>. QED
  BY <1>1, RequestKept DEF WritesIn

\* What the I/O thread has done with its fragment.
Accessed == IoSkip \/ IoFail \/ IoWrite \/ IoRead

\* A fragment to be accessed comes from MainPush, and goes when it has been accessed.
LEMMA AccessMoves ==
    ASSUME IInv, [Next]_vars
    PROVE  /\ \/ ToAccess' \subseteq ToAccess
              \/ MainPush /\ ToAccess' = ToAccess \cup {Pushed}
           /\ ToAccess \subseteq ToAccess' \/ (Accessed /\ ToAccess \ {io.request} \subseteq ToAccess')
           /\ InIoQueue' \subseteq InIoQueue \/ MainPush
<1>1. CASE UNCHANGED <<io, ioQueue>>
  BY <1>1 DEF ToAccess, InAccess, InIoQueue
<1>2. CASE MainPush
  BY <1>2, PushedAppended DEF ToAccess, InAccess, InIoQueue
<1>3. CASE IoPop
  <2>1. /\ ioQueue \in Seq(Piece) /\ ioQueue # <<>> /\ ioQueue' = Tail(ioQueue)
        /\ io.pc = "pop" /\ io'.pc = "access" /\ io'.request = Head(ioQueue)
    BY <1>3 DEF IInv, Types, ListTypes, IoType, IoPop
  <2>2. /\ Head(ioQueue) = ioQueue[1] /\ 1 \in DOMAIN ioQueue
        /\ \A n \in DOMAIN ioQueue' : n + 1 \in DOMAIN ioQueue /\ ioQueue'[n] = ioQueue[n + 1]
        /\ DOMAIN ioQueue = 1 .. Len(ioQueue) /\ DOMAIN ioQueue' = 1 .. Len(ioQueue) - 1
        /\ Len(ioQueue) \in Nat
    BY <2>1, HeadTail
  <2>3. InAccess = {} /\ InAccess' = {ioQueue[1]}
    BY <2>1, <2>2 DEF InAccess
  <2>4. InIoQueue' \subseteq InIoQueue /\ ioQueue[1] \in InIoQueue
    BY <2>2 DEF InIoQueue
  <2>5. \A n \in DOMAIN ioQueue : ioQueue[n] \in InIoQueue' \cup {ioQueue[1]}
    <3>. SUFFICES ASSUME NEW n \in DOMAIN ioQueue, n # 1 PROVE ioQueue[n] \in InIoQueue'
      OBVIOUS
    <3>1. n - 1 \in DOMAIN ioQueue' /\ ioQueue'[n - 1] = ioQueue[n]
      BY <2>2
    <3>. QED
      BY <3>1 DEF InIoQueue
  <2>6. InIoQueue \subseteq InIoQueue' \cup {ioQueue[1]}
    BY <2>5 DEF InIoQueue
  <2>. QED
    BY <2>3, <2>4, <2>6 DEF ToAccess
<1>4. CASE Accessed
  <2>1. io.pc = "access" /\ io'.pc = "accessed" /\ UNCHANGED ioQueue
    BY <1>4 DEF IInv, Types, IoType, Accessed, IoAt, IoSkip, IoFail, IoWrite, IoRead
  <2>. QED
    BY <1>4, <2>1 DEF ToAccess, InAccess, InIoQueue
<1>5. CASE Io
  <2>1. CASE IoWait \/ IoEmpty \/ IoWritten \/ IoReadDone \/ IoDeliver \/ IoReadAhead \/ IoUncount
    <3>1. io.pc # "access" /\ io'.pc # "access" /\ UNCHANGED ioQueue
      BY <2>1 DEF IInv, Types, IoType, IoAt, IoWait, IoEmpty, IoWritten, IoReadDone, IoDeliver,
         IoReadAhead, IoUncount
    <3>. QED
      BY <3>1 DEF ToAccess, InAccess, InIoQueue
  <2>2. CASE IoSignal \/ IoFreeRequest \/ IoTakeWorkItem \/ IoHand
    <3>1. io.pc # "access" /\ io'.pc # "access" /\ UNCHANGED ioQueue
      BY <2>2 DEF IInv, Types, IoType, IoAt, IoSignal, IoFreeRequest, IoTakeWorkItem, IoHand
    <3>. QED
      BY <3>1 DEF ToAccess, InAccess, InIoQueue
  <2>. QED
    BY <1>3, <1>4, <1>5, <2>1, <2>2 DEF Io, Accessed
<1>6. CASE Main
  <2>1. UNCHANGED io
    BY <1>6, MainFrame
  <2>. QED
    BY <1>1, <1>2, <1>6, <2>1 DEF Main, MainEmpty, MainWait, MainPop, MainTestSuspended, MainHeld,
       MainGetItem, MainWaitPool, MainRefuse, MainFail, MainRead, MainReadDone, MainUncount,
       MainSignal, MainFreeItem, MainAccept, MainFragment, MainGetRequest, MainAcquire
<1>7. ASSUME NEW i \in Irps, AddIrp(i) \/ Work(i) PROVE UNCHANGED <<io, ioQueue>>
  BY <1>7, AddFrame, WorkFrame
<1>8. CASE Completion \/ Hold \/ Stop
  BY <1>1, <1>8, CompletionFrame, HoldFrame, StopFrame
<1>9. CASE UNCHANGED vars
  BY <1>1, <1>9 DEF vars
<1>. QED
  BY <1>1, <1>5, <1>6, <1>7, <1>8, <1>9 DEF Next

\* The main thread keeps its request, and goes on with it, but for these steps.
MainKeeps ==
    /\ Popping => Popping' /\ main'.irp = main.irp
    /\ Cutting => Cutting' /\ main'.irp = main.irp /\ main'.sector = main.sector
MainDrops == MainRefuse \/ MainFail \/ MainReadDone

\* The main thread keeps the item it has, accepts or passes on a fragment, or drops it.
LEMMA MainForward ==
    ASSUME IInv, [Next]_vars
    PROVE  MainKeeps \/ MainAccept \/ MainPush \/ MainDrops
<1>1. CASE UNCHANGED main
  BY <1>1 DEF MainKeeps, Popping, Cutting
<1>2. CASE Main
  <2>1. CASE MainEmpty \/ MainWait \/ MainPop \/ MainTestSuspended \/ MainHeld \/ MainGetItem
             \/ MainWaitPool \/ MainRead
    BY <2>1 DEF IInv, Types, MainType, MainKeeps, Popping, Cutting, MainAt, MainEmpty, MainWait,
       MainPop, MainTestSuspended, MainHeld, MainGetItem, MainWaitPool, MainRead
  <2>2. CASE MainUncount \/ MainSignal \/ MainFreeItem \/ MainFragment \/ MainGetRequest
             \/ MainAcquire
    BY <2>2 DEF IInv, Types, MainType, MainKeeps, Popping, Cutting, MainAt, MainUncount,
       MainSignal, MainFreeItem, MainFragment, MainGetRequest, MainAcquire
  <2>. QED
    BY <1>2, <2>1, <2>2 DEF Main, MainDrops
<1>3. ASSUME NEW i \in Irps, AddIrp(i) \/ Work(i) PROVE UNCHANGED main
  BY <1>3, AddFrame, WorkFrame
<1>4. CASE Io \/ Completion \/ Hold \/ Stop
  BY <1>1, <1>4, IoFrame, CompletionFrame, HoldFrame, StopFrame
<1>5. CASE UNCHANGED vars
  BY <1>1, <1>5 DEF vars
<1>. QED
  BY <1>1, <1>2, <1>3, <1>4, <1>5 DEF Next

\* Request i is in list q.
WaitsIn(q, i) == \E n \in DOMAIN q : q[n] = i

\* The main thread pops what waits.
LEMMA PoppedWaited ==
    ASSUME IInv, MainPop
    PROVE  /\ WaitsIn(mainQueue, main'.irp) /\ main'.irp \in Irps
           /\ main'.pc = "popped" /\ main.pc = "pop"
<1>1. /\ mainQueue \in Seq(Irps) /\ mainQueue # <<>>
      /\ main'.irp = Head(mainQueue) /\ main'.pc = "popped" /\ main.pc = "pop"
  BY DEF IInv, Types, ListTypes, MainType, MainPop
<1>2. Head(mainQueue) = mainQueue[1] /\ 1 \in DOMAIN mainQueue /\ mainQueue[1] \in Irps
  BY <1>1, HeadTail
<1>. QED
  BY <1>1, <1>2 DEF WaitsIn

\* The main list loses its head to the main thread, and gains what AddQueue accepts.
LEMMA WaitsMoves ==
    ASSUME IInv, [Next]_vars, NEW i \in Irps
    PROVE  /\ WaitsIn(mainQueue', i) => WaitsIn(mainQueue, i) \/ AddQueue(i)
           /\ WaitsIn(mainQueue, i) => WaitsIn(mainQueue', i) \/ (MainPop /\ main'.irp = i /\ main'.pc = "popped")
           /\ AddQueue(i) => WaitsIn(mainQueue', i)
<1>1. CASE UNCHANGED mainQueue /\ ~MainPop /\ ~\E j \in Irps : AddQueue(j)
  BY <1>1 DEF WaitsIn
<1>2. CASE MainPop
  <2>1. /\ mainQueue \in Seq(Irps) /\ mainQueue # <<>> /\ mainQueue' = Tail(mainQueue)
        /\ main'.irp = Head(mainQueue) /\ main'.pc = "popped" /\ main.pc = "pop" /\ UNCHANGED irp
    BY <1>2 DEF IInv, Types, ListTypes, MainType, MainPop
  <2>2. /\ Head(mainQueue) = mainQueue[1] /\ 1 \in DOMAIN mainQueue /\ mainQueue[1] \in Irps
        /\ \A n \in DOMAIN mainQueue' : n + 1 \in DOMAIN mainQueue /\ mainQueue'[n] = mainQueue[n + 1]
        /\ DOMAIN mainQueue = 1 .. Len(mainQueue) /\ DOMAIN mainQueue' = 1 .. Len(mainQueue) - 1
        /\ Len(mainQueue) \in Nat
    BY <2>1, HeadTail
  <2>3. WaitsIn(mainQueue', i) => WaitsIn(mainQueue, i)
    BY <2>2 DEF WaitsIn
  <2>4. ASSUME WaitsIn(mainQueue, i) PROVE WaitsIn(mainQueue', i) \/ main'.irp = i
    <3>1. PICK n \in DOMAIN mainQueue : mainQueue[n] = i
      BY <2>4 DEF WaitsIn
    <3>2. CASE n = 1
      BY <2>1, <2>2, <3>1, <3>2
    <3>3. CASE n # 1
      <4>1. n - 1 \in DOMAIN mainQueue' /\ mainQueue'[n - 1] = mainQueue[n]
        BY <2>2, <3>1, <3>3
      <4>. QED
        BY <3>1, <4>1 DEF WaitsIn
    <3>. QED
      BY <3>2, <3>3
  <2>5. ~AddQueue(i)
    BY <2>1 DEF IInv, Types, IrpType, AddQueue, At
  <2>. QED
    BY <1>2, <2>1, <2>2, <2>3, <2>4, <2>5 DEF WaitsIn
<1>3. ASSUME NEW j \in Irps, AddQueue(j)
      PROVE  /\ ~MainPop
             /\ \A k \in Irps : WaitsIn(mainQueue', k) <=> WaitsIn(mainQueue, k) \/ k = j
             /\ AddQueue(i) => i = j
  <2>1. mainQueue \in Seq(Irps) /\ mainQueue' = Append(mainQueue, j) /\ UNCHANGED main
    BY <1>3 DEF IInv, Types, ListTypes, AddQueue
  <2>2. ~MainPop
    BY <2>1 DEF IInv, Types, MainType, MainPop
  <2>3. \A k \in Irps : WaitsIn(mainQueue', k) <=> WaitsIn(mainQueue, k) \/ k = j
    BY <2>1, Appended DEF WaitsIn
  <2>4. AddQueue(i) => i = j
    BY <1>3 DEF IInv, Types, IrpType, AddQueue, At
  <2>. QED
    BY <2>2, <2>3, <2>4
<1>4. UNCHANGED mainQueue \/ MainPop \/ \E j \in Irps : AddQueue(j)
  <2>1. CASE UNCHANGED vars
    BY <2>1 DEF vars
  <2>2. ASSUME NEW j \in Irps, AddIrp(j) \/ Work(j) PROVE UNCHANGED mainQueue \/ AddQueue(j)
    BY <2>2, WorkFrame DEF AddIrp, AddCount, AddTest, AddRefuse, AddRefuseSignal
  <2>3. CASE Main
    BY <2>3 DEF Main, MainEmpty, MainWait, MainTestSuspended, MainHeld, MainGetItem, MainWaitPool,
       MainRefuse, MainFail, MainRead, MainReadDone, MainUncount, MainSignal, MainFreeItem,
       MainAccept, MainFragment, MainGetRequest, MainAcquire, MainPush
  <2>4. CASE Io \/ Completion \/ Hold \/ Stop
    BY <2>4, IoFrame, CompletionFrame, HoldFrame, StopFrame
  <2>. QED
    BY <2>1, <2>2, <2>3, <2>4 DEF Next
<1>. QED
  BY <1>1, <1>2, <1>3, <1>4 DEF WaitsIn

\* Nothing pending comes back, and it goes only when it has been done or given up.
LEMMA PendingMoves ==
    ASSUME IInv, [Next]_vars, NEW i \in Irps, NEW s \in SectorsOf(i), irp[i].at \in AtAccepted
    PROVE  /\ Pending(i, s)' => Pending(i, s)
           /\ Pending(i, s) => \/ Pending(i, s)'
                               \/ main.irp = i /\ MainDrops
                               \/ io.request.irp = i /\ io.request.sector = s /\ Accessed
<1>. DEFINE M == main.irp = i /\ (Popping \/ (Cutting /\ main.sector <= s))
            R == \E r \in ToAccess : r.irp = i /\ r.sector = s
<1>0. /\ Pending(i, s) <=> WaitsIn(mainQueue, i) \/ M \/ R
      /\ s \in Int /\ main.sector \in Int /\ main.irp \in Irps
      /\ irp[i].op.first \in Int /\ irp[i].op.last \in Int
  <2>1. Pending(i, s) <=> WaitsIn(mainQueue, i) \/ M \/ R
    BY DEF Pending, WaitsIn
  <2>2. irp[i].op.first \in Sectors /\ irp[i].op.last \in Sectors
    BY OpType DEF IInv, Types
  <2>. QED
    BY <2>1, <2>2, QueueAssumption DEF IInv, Types, MainType, SectorsOf, Sectors
<1>1. ~AddQueue(i)
  BY DEF AddQueue, At, AtAccepted, Working
<1>2. WaitsIn(mainQueue', i) => WaitsIn(mainQueue, i)
  BY <1>1, WaitsMoves
<1>3. M' => M \/ WaitsIn(mainQueue, i)
  <2>1. CASE MainStays \/ UNCHANGED main
    BY <2>1 DEF MainStays, Popping, Cutting
  <2>2. CASE MainPop
    BY <2>2, PoppedWaited DEF Popping, Cutting
  <2>3. CASE MainAccept
    BY <2>3 DEF IInv, Types, MainType, MainAccept, Popping, Cutting
  <2>4. CASE MainPush
    <3>1. Cutting /\ ~Popping' /\ (Cutting' => main'.irp = main.irp /\ main'.sector = main.sector + 1)
      BY <2>4 DEF IInv, Types, MainType, MainPush, Popping, Cutting
    <3>. QED
      BY <1>0, <3>1
  <2>. QED
    BY <2>1, <2>2, <2>3, <2>4, MainMoves
<1>4. R' => R \/ M
  <2>1. CASE ToAccess' \subseteq ToAccess
    BY <2>1
  <2>2. CASE MainPush /\ ToAccess' = ToAccess \cup {Pushed}
    <3>1. Cutting /\ Pushed.irp = main.irp /\ Pushed.sector = main.sector
      BY <2>2 DEF MainPush, Cutting, Pushed
    <3>. QED
      BY <1>0, <2>2, <3>1
  <2>. QED
    BY <2>1, <2>2, AccessMoves
<1>5. WaitsIn(mainQueue, i) => WaitsIn(mainQueue', i) \/ M'
  BY WaitsMoves DEF Popping
<1>6. M => M' \/ R' \/ (main.irp = i /\ MainDrops)
  <2>1. CASE MainKeeps
    BY <2>1 DEF MainKeeps
  <2>2. CASE MainAccept
    <3>1. /\ main.pc = "dispatch" /\ main'.pc = "fragment" /\ main'.irp = main.irp
          /\ main'.sector = irp[main.irp].op.first
      BY <2>2 DEF IInv, Types, MainType, MainAccept
    <3>. QED
      BY <1>0, <3>1 DEF Cutting, Popping, SectorsOf
  <2>3. CASE MainPush
    <3>1. /\ ~Popping /\ Cutting /\ Pushed \in ToAccess' /\ Pushed.irp = main.irp
          /\ Pushed.sector = main.sector
      BY <2>3, PushedAppended DEF MainPush, Popping, Cutting, Pushed, ToAccess, InIoQueue
    <3>2. \/ main.sector = irp[main.irp].op.last
          \/ Cutting' /\ main'.irp = main.irp /\ main'.sector = main.sector + 1
      BY <2>3 DEF IInv, Types, MainType, MainPush, Cutting
    <3>. QED
      BY <1>0, <3>1, <3>2 DEF SectorsOf
  <2>. QED
    BY <2>1, <2>2, <2>3, MainForward
<1>7. R => R' \/ (io.request.irp = i /\ io.request.sector = s /\ Accessed)
  BY AccessMoves
<1>8. Pending(i, s)' <=> WaitsIn(mainQueue', i) \/ M' \/ R'
  BY DEF Pending, WaitsIn
<1>. HIDE DEF M, R
<1>. QED
  BY <1>0, <1>2, <1>3, <1>4, <1>5, <1>6, <1>7, <1>8

-----------------------------------------------------------------------------
(* Writes *)

\* Only IoWrite gives a sector another writer.
LEMMA WriterMoves ==
    ASSUME IInv, [Next]_vars, NEW s \in Sectors
    PROVE  \/ disk'[s].writer = disk[s].writer
           \/ /\ IoWrite /\ s = io.request.sector /\ disk'[s].writer = io.request.irp
              /\ Writes(io.request.irp)
<1>0. disk \in [Sectors -> Content] /\ disk[s] \in Content
  BY DEF IInv, Types, DeviceTypes
<1>1. CASE DriveStays \/ SetupMoveEnd
  BY <1>1 DEF DriveStays, SetupMoveEnd
<1>2. CASE IoWrite
  <2>1. /\ io.pc = "access" /\ Writes(io.request.irp)
        /\ disk' = [disk EXCEPT ![io.request.sector] = fragment[io.request.buffer]]
    BY <1>2 DEF IoWrite, IoAt, Current
  <2>2. fragment[io.request.buffer].writer = io.request.irp
    BY <2>1 DEF IInv, Encrypted, Filled
  <2>. QED
    BY <1>0, <1>2, <2>1, <2>2
<1>3. CASE SetupWrite
  BY <1>0, <1>3, DecryptedType DEF SetupWrite
<1>. QED
  BY <1>1, <1>2, <1>3, DriveMoves

\* What the device holds has been written, by a write of that sector.
LEMMA WrittenStep == ASSUME IInv, Written, [Next]_vars PROVE Written'
<1>. SUFFICES ASSUME NEW s \in Sectors, disk'[s].writer # NoIrp
              PROVE  /\ WritesIn(irp', disk'[s].writer, s)
                     /\ irp'[disk'[s].writer].at \in AtAccepted
  BY DEF Written
<1>1. /\ WritesIn(irp, disk'[s].writer, s)
      /\ irp[disk'[s].writer].at \in AtAccepted
  <2>1. CASE disk'[s].writer = disk[s].writer
    BY <2>1 DEF Written
  <2>2. CASE IoWrite /\ s = io.request.sector /\ disk'[s].writer = io.request.irp /\ Writes(io.request.irp)
    <3>1. Sound(irp, io.request) /\ io.request.irp \in Irps
      BY <2>2 DEF IInv, Types, IoType, Piece, IoHas, IoBusy, IoWrite, IoAt
    <3>. QED
      BY <2>2, <3>1 DEF Sound, WritesIn, Writes, AtAccepted
  <2>. QED
    BY <2>1, <2>2, WriterMoves
<1>2. disk'[s].writer \in Irps
  BY <1>1 DEF WritesIn
<1>. QED
  BY <1>1, <1>2, WritesStay, AcceptedMoves

\* Writes reach the device in the order of their acceptance.
LEMMA NewestStep == ASSUME IInv, Newest, Written, [Next]_vars PROVE Newest'
<1>. SUFFICES ASSUME NEW s \in Sectors, disk'[s].writer # NoIrp
              PROVE  /\ \A n \in DOMAIN mainQueue' : Sooner(log', disk'[s].writer, mainQueue'[n])
                     /\ Popping' => Sooner(log', disk'[s].writer, main'.irp)
                     /\ Cutting' => NotLater(log', disk'[s].writer, main'.irp)
                     /\ \A r \in ToAccess' : NotLater(log', disk'[s].writer, r.irp)
  BY DEF Newest
<1>. DEFINE u == disk'[s].writer
<1>0. \A v, w : /\ Sooner(log, v, w) => Sooner(log', v, w)
                /\ NotLater(log, v, w) => NotLater(log', v, w)
  BY OrderGrows, NotLaterGrows
<1>1. CASE u = disk[s].writer
  <2>0. /\ \A n \in DOMAIN mainQueue : Sooner(log, u, mainQueue[n])
        /\ Popping => Sooner(log, u, main.irp)
        /\ Cutting => NotLater(log, u, main.irp)
        /\ \A r \in ToAccess : NotLater(log, u, r.irp)
        /\ u \in Irps /\ irp[u].at \in AtAccepted
    BY <1>1 DEF Newest, Written, WritesIn
  <2>. HIDE DEF u
  <2>1. \A i \in Irps : WaitsIn(mainQueue, i) => Sooner(log, u, i)
    BY <2>0 DEF WaitsIn
  <2>2. ASSUME NEW i \in Irps, AddQueue(i) PROVE Sooner(log', u, i)
    BY <2>0, <2>2, SoonerAppend DEF IInv, Types, Logged, AddQueue
  <2>3. ASSUME NEW n \in DOMAIN mainQueue' PROVE Sooner(log', u, mainQueue'[n])
    <3>1. mainQueue'[n] \in Irps /\ WaitsIn(mainQueue', mainQueue'[n])
      BY <2>3, ListTypesStep DEF ListTypes, WaitsIn
    <3>. QED
      BY <1>0, <2>1, <2>2, <3>1, WaitsMoves
  <2>4. Popping' => Sooner(log', u, main'.irp)
    <3>1. CASE MainStays \/ UNCHANGED main
      BY <1>0, <2>0, <3>1 DEF MainStays, Popping
    <3>2. CASE MainPop
      BY <1>0, <2>1, <3>2, PoppedWaited
    <3>3. CASE MainAccept \/ MainPush
      BY <3>3 DEF IInv, Types, MainType, MainAccept, MainPush, Popping
    <3>. QED
      BY <3>1, <3>2, <3>3, MainMoves
  <2>5. Cutting' => NotLater(log', u, main'.irp)
    <3>1. CASE MainStays \/ UNCHANGED main
      BY <1>0, <2>0, <3>1 DEF MainStays, Cutting
    <3>2. CASE MainPop
      BY <3>2, PoppedWaited DEF Cutting
    <3>3. CASE MainAccept
      <4>1. Popping /\ main'.irp = main.irp
        BY <3>3 DEF IInv, Types, MainType, MainAccept, Popping
      <4>. QED
        BY <1>0, <2>0, <4>1 DEF NotLater
    <3>4. CASE MainPush
      <4>1. Cutting /\ main'.irp = main.irp
        BY <3>4 DEF IInv, Types, MainType, MainPush, Cutting
      <4>. QED
        BY <1>0, <2>0, <4>1
    <3>. QED
      BY <3>1, <3>2, <3>3, <3>4, MainMoves
  <2>6. \A r \in ToAccess' : NotLater(log', u, r.irp)
    <3>1. MainPush => Cutting /\ Pushed.irp = main.irp
      BY DEF MainPush, Cutting, Pushed
    <3>. QED
      BY <1>0, <2>0, <3>1, AccessMoves
  <2>. QED
    BY <2>3, <2>4, <2>5, <2>6 DEF u
<1>2. CASE IoWrite /\ u = io.request.irp
  <2>1. /\ io.request \in Pipe /\ InIo = {io.request}
        /\ UNCHANGED <<main, mainQueue, ioQueue, log>> /\ io'.pc = "accessed"
    BY <1>2 DEF IInv, Types, IoType, Pipe, InIo, IoBusy, IoWrite, IoAt
  <2>2. ToAccess' = InIoQueue
    BY <2>1 DEF ToAccess, InAccess, InIoQueue
  <2>3. \A r \in InIoQueue : NotLater(log, u, r.irp)
    BY <1>2, <2>1 DEF IInv, Ordered, Order, Precedes, NotLater
  <2>4. Cutting => NotLater(log, u, main.irp)
    BY <1>2, <2>1 DEF IInv, Entered, Precedes, NotLater
  <2>5. /\ Popping => Sooner(log, u, main.irp)
        /\ \A n \in DOMAIN mainQueue : Sooner(log, u, mainQueue[n])
    BY <1>2, <2>1 DEF IInv, Entered, Queued
  <2>. HIDE DEF u
  <2>6. Popping' = Popping /\ Cutting' = Cutting
    BY <2>1 DEF Popping, Cutting
  <2>. QED
    BY <2>1, <2>2, <2>3, <2>4, <2>5, <2>6 DEF u
<1>. QED
  BY <1>1, <1>2, WriterMoves

\* A write that is no longer pending has landed, or failed.
LEMMA LandedStep == ASSUME IInv, Newest, Landed, [Next]_vars PROVE Landed'
<1>. SUFFICES ASSUME NEW w \in Irps, NEW s \in Sectors, irp'[w].at \in AtAccepted,
                     WritesIn(irp', w, s), irp'[w].status = "success"
              PROVE  Pending(w, s)' \/ (disk'[s].writer # NoIrp /\ NotLater(log', w, disk'[s].writer))
  BY DEF Landed
<1>0. \A v, x : NotLater(log, v, x) => NotLater(log', v, x)
  BY NotLaterGrows
<1>1. CASE AddQueue(w)
  BY <1>1, WaitsMoves DEF Pending, WaitsIn
<1>2. CASE irp[w].at \in AtAccepted
  <2>1. WritesIn(irp, w, s) /\ Writes(w) /\ s \in SectorsOf(w)
    BY <1>2, WritesStay DEF WritesIn, Writes, SectorsOf
  <2>2. ~(main.irp = w /\ MainDrops)
    <3>1. ~(main.irp = w /\ MainReadDone)
      BY <2>1 DEF IInv, MainHas, MainReadDone, MainAt
    <3>2. ~(main.irp = w /\ (MainRefuse \/ MainFail))
      BY DEF IInv, Types, IrpType, MainRefuse, MainFail, Complete
    <3>. QED
      BY <3>1, <3>2 DEF MainDrops
  <2>3. ~(io.request.irp = w /\ IoFail)
    BY DEF IInv, Types, IrpType, IoFail, Current
  <2>4. irp[w].status = "success"
    BY <1>2, <2>2, <2>3, StatusMoves DEF AtAccepted, Working, MainDrops
  <2>5. CASE disk[s].writer # NoIrp /\ NotLater(log, w, disk[s].writer)
    <3>1. CASE disk'[s].writer = disk[s].writer
      BY <1>0, <2>5, <3>1
    <3>2. CASE IoWrite /\ s = io.request.sector /\ disk'[s].writer = io.request.irp
      <4>1. io.request \in ToAccess /\ io.request.irp \in Irps
        BY <3>2 DEF IInv, Types, IoType, Piece, IoWrite, IoAt, ToAccess, InAccess
      <4>2. NotLater(log, disk[s].writer, io.request.irp)
        BY <2>5, <4>1 DEF Newest
      <4>3. NotLater(log, w, io.request.irp)
        BY <2>5, <4>2, NotLaterTransitive
      <4>. QED
        BY <1>0, <3>2, <4>1, <4>3, QueueAssumption
    <3>. QED
      BY <3>1, <3>2, WriterMoves
  <2>6. CASE Pending(w, s) /\ ~Pending(w, s)'
    <3>1. io.request.irp = w /\ io.request.sector = s /\ Accessed
      BY <1>2, <2>1, <2>2, <2>6, PendingMoves
    <3>2. IoWrite
      BY <2>1, <2>3, <2>4, <3>1 DEF Accessed, IoSkip, IoRead, Current, Failed
    <3>3. disk'[s].writer = w
      <4>1. disk \in [Sectors -> Content] /\ fragment[io.request.buffer].writer = io.request.irp
        BY <3>2 DEF IInv, Types, DeviceTypes, Encrypted, Filled, IoWrite, IoAt, Current
      <4>. QED
        BY <3>1, <3>2, <4>1 DEF IoWrite, Current
    <3>. QED
      BY <3>3, QueueAssumption DEF NotLater
  <2>. QED
    BY <1>2, <2>1, <2>4, <2>5, <2>6 DEF Landed
<1>. QED
  BY <1>1, <1>2, AcceptedMoves

\* What is to be accessed is on the way, and a fragment of an accepted request.
LEMMA AccessSound ==
    ASSUME IInv, NEW r \in ToAccess
    PROVE  r \in Pipe /\ r \in Piece /\ Sound(irp, r) /\ r.irp \in Irps /\ irp[r.irp].at \in AtAccepted
<1>1. r \in Pipe
  BY DEF ToAccess, InAccess, Pipe, InIo, IoBusy
<1>. QED
  BY <1>1, PipeSound DEF Piece, Sound, AtAccepted

\* No write that is let through touches a protected sector.
LEMMA ProtectingStep == ASSUME IInv, Protecting, [Next]_vars PROVE Protecting'
<1>1. ASSUME NEW s \in Sectors, disk'[s].writer # NoIrp PROVE s \notin Protected
  <2>1. CASE disk'[s].writer = disk[s].writer
    BY <1>1, <2>1 DEF Protecting
  <2>2. CASE IoWrite /\ s = io.request.sector /\ Writes(io.request.irp)
    BY <2>2 DEF Protecting, ToAccess, InAccess, IoWrite, IoAt
  <2>. QED
    BY <2>1, <2>2, WriterMoves
<1>2. Cutting => main.irp \in Irps /\ irp'[main.irp].op = irp[main.irp].op
  BY OpStays DEF OpKept, IInv, Types, MainType
<1>3. ASSUME NEW r \in ToAccess', irp'[r.irp].op.write PROVE r.sector \notin Protected
  <2>1. CASE r \in ToAccess
    BY <1>3, <2>1, AccessSound, WritesStay DEF Protecting, Writes
  <2>2. CASE MainPush /\ r = Pushed
    <3>1. Cutting /\ Pushed.irp = main.irp /\ Pushed.sector = main.sector
      BY <2>2 DEF MainPush, Cutting, Pushed
    <3>2. main.sector \in SectorsOf(main.irp)
      BY <3>1 DEF IInv, MainHas
    <3>. QED
      BY <1>2, <1>3, <2>2, <3>1, <3>2 DEF Protecting, Writes
  <2>. QED
    BY <2>1, <2>2, AccessMoves
<1>4. ASSUME Cutting', irp'[main'.irp].op.write
      PROVE  (irp'[main'.irp].op.first .. irp'[main'.irp].op.last) \cap Protected = {}
  <2>1. CASE MainStays \/ UNCHANGED main \/ MainPush
    <3>1. Cutting /\ main'.irp = main.irp
      BY <1>4, <2>1 DEF IInv, Types, MainType, MainStays, MainPush, Cutting
    <3>. QED
      BY <1>2, <1>4, <3>1 DEF Protecting, Writes, SectorsOf
  <2>2. CASE MainPop
    BY <1>4, <2>2, PoppedWaited DEF Cutting
  <2>3. CASE MainAccept
    <3>1. main'.irp = main.irp /\ UNCHANGED irp /\ ~Refused(main.irp)
      BY <2>3 DEF IInv, Types, MainType, MainAccept
    <3>. QED
      BY <1>4, <3>1 DEF Refused, Writes, SectorsOf
  <2>. QED
    BY <2>1, <2>2, <2>3, MainMoves
<1>. QED
  BY <1>1, <1>3, <1>4 DEF Protecting, Writes, SectorsOf

\* Once a write has been denied on a volume, every later one is.
LEMMA ActionStays == ASSUME IInv, [Next]_vars, protectionAction PROVE protectionAction'
<1>1. CASE Main
  BY <1>1 DEF Main, MainEmpty, MainWait, MainPop, MainTestSuspended, MainHeld, MainGetItem,
     MainWaitPool, MainRefuse, MainFail, MainRead, MainReadDone, MainUncount, MainSignal,
     MainFreeItem, MainAccept, MainFragment, MainGetRequest, MainAcquire, MainPush
<1>2. ASSUME NEW i \in Irps, AddIrp(i) \/ Work(i) PROVE UNCHANGED protectionAction
  BY <1>2, AddFrame, WorkFrame
<1>3. CASE Io \/ Completion \/ Hold \/ Stop
  BY <1>3, IoFrame, CompletionFrame, HoldFrame, StopFrame
<1>4. CASE UNCHANGED vars
  BY <1>4 DEF vars
<1>. QED
  BY <1>1, <1>2, <1>3, <1>4 DEF Next

\* A request is denied by MainRefuse.
LEMMA DeniedMoves ==
    ASSUME IInv, [Next]_vars, NEW v \in Irps, irp'[v].status = "denied"
    PROVE  irp[v].status = "denied" \/ (MainRefuse /\ v = main.irp)
<1>1. CASE irp[v].at = "new"
  <2>1. ASSUME NEW j \in Irps, AddIrp(j) \/ Work(j), \A k \in Irps \ {j} : irp'[k] = irp[k]
        PROVE  irp[v].status = "denied"
    <3>1. CASE j # v
      BY <2>1, <3>1
    <3>2. CASE AddIrp(v)
      <4>1. AddCount(v) \/ ~(irp[v].at = "new")
        BY <3>2 DEF AddIrp, AddTest, AddQueue, AddRefuse, AddRefuseSignal, At
      <4>. QED
        BY <1>1, <4>1 DEF IInv, Types, IrpType, AddCount
    <3>3. CASE Work(v)
      BY <1>1, <3>3 DEF Work, WorkComplete, WorkUncount, WorkSignal, WorkInactive, WorkSignalInactive,
         WorkReturn, WorkFreeItem, At
    <3>. QED
      BY <2>1, <3>1, <3>2, <3>3
  <2>2. MainRefuse \/ MainFail \/ MainReadDone \/ MainFreeItem => irp[main.irp].at # "new"
    BY DEF IInv, MainHas, Popping, Ending, MainRefuse, MainFail, MainReadDone, MainFreeItem, MainAt
  <2>3. IoFail \/ IoHand => irp[io.request.irp].at # "new"
    BY DEF IInv, IoHas, IoBusy, Sound, IoFail, IoHand, IoAt
  <2>4. CompletionHand => irp[completion.request.irp].at # "new"
    BY DEF IInv, CompletionHas, CompletionBusy, Sound, CompletionHand, CompletionAt
  <2>. QED
    BY <1>1, <2>1, <2>2, <2>3, <2>4, RequestMoves DEF RequestSteps
<1>2. CASE irp[v].at # "new"
  <2>1. ~(main.irp = v /\ (MainFail \/ MainReadDone))
    BY DEF IInv, Types, IrpType, MainFail, MainReadDone, Complete
  <2>2. ~(io.request.irp = v /\ IoFail)
    BY DEF IInv, Types, IrpType, IoFail, Current
  <2>. QED
    BY <1>2, <2>1, <2>2, StatusMoves
<1>. QED
  BY <1>1, <1>2

\* When a write has been denied, whatever is let through was accepted sooner.
LEMMA DenyingStep == ASSUME IInv, Newest, Denying, [Next]_vars PROVE Denying'
<1>. SUFFICES ASSUME NEW v \in Irps, ~IsFilterDevice, irp'[v].status = "denied"
              PROVE  /\ protectionAction'
                     /\ \A s \in Sectors : disk'[s].writer # NoIrp => Sooner(log', disk'[s].writer, v)
                     /\ \A r \in ToAccess' : irp'[r.irp].op.write => Sooner(log', r.irp, v)
                     /\ Cutting' /\ irp'[main'.irp].op.write => Sooner(log', main'.irp, v)
  BY DEF Denying, Writes
<1>0. \A x, y : Sooner(log, x, y) => Sooner(log', x, y)
  BY OrderGrows
<1>1. CASE irp[v].status = "denied"
  <2>0. /\ protectionAction
        /\ \A s \in Sectors : disk[s].writer # NoIrp => Sooner(log, disk[s].writer, v)
        /\ \A r \in ToAccess : Writes(r.irp) => Sooner(log, r.irp, v)
        /\ Cutting /\ Writes(main.irp) => Sooner(log, main.irp, v)
    BY <1>1 DEF Denying
  <2>1. protectionAction'
    BY <2>0, ActionStays
  <2>2. ASSUME NEW s \in Sectors, disk'[s].writer # NoIrp PROVE Sooner(log', disk'[s].writer, v)
    <3>1. CASE disk'[s].writer = disk[s].writer
      BY <1>0, <2>0, <2>2, <3>1
    <3>2. CASE IoWrite /\ disk'[s].writer = io.request.irp /\ Writes(io.request.irp)
      <4>1. io.request \in ToAccess
        BY <3>2 DEF ToAccess, InAccess, IoWrite, IoAt
      <4>. QED
        BY <1>0, <2>0, <3>2, <4>1
    <3>. QED
      BY <3>1, <3>2, WriterMoves
  <2>3. Cutting => main.irp \in Irps /\ irp'[main.irp].op = irp[main.irp].op
    BY OpStays DEF OpKept, IInv, Types, MainType
  <2>4. ASSUME NEW r \in ToAccess', irp'[r.irp].op.write PROVE Sooner(log', r.irp, v)
    <3>1. CASE r \in ToAccess
      BY <1>0, <2>0, <2>4, <3>1, AccessSound, WritesStay DEF Writes
    <3>2. CASE MainPush /\ r = Pushed
      <4>1. Cutting /\ Pushed.irp = main.irp
        BY <3>2 DEF MainPush, Cutting, Pushed
      <4>. QED
        BY <1>0, <2>0, <2>3, <2>4, <3>2, <4>1 DEF Writes
    <3>. QED
      BY <3>1, <3>2, AccessMoves
  <2>5. ASSUME Cutting', irp'[main'.irp].op.write PROVE Sooner(log', main'.irp, v)
    <3>1. CASE MainStays \/ UNCHANGED main \/ MainPush
      <4>1. Cutting /\ main'.irp = main.irp
        BY <2>5, <3>1 DEF IInv, Types, MainType, MainStays, MainPush, Cutting
      <4>. QED
        BY <1>0, <2>0, <2>3, <2>5, <4>1 DEF Writes
    <3>2. CASE MainPop
      BY <2>5, <3>2, PoppedWaited DEF Cutting
    <3>3. CASE MainAccept
      <4>1. main'.irp = main.irp /\ UNCHANGED irp /\ ~Refused(main.irp)
        BY <3>3 DEF IInv, Types, MainType, MainAccept
      <4>. QED
        BY <2>0, <2>5, <4>1 DEF Refused, Writes
    <3>. QED
      BY <3>1, <3>2, <3>3, MainMoves
  <2>. QED
    BY <2>1, <2>2, <2>4, <2>5
<1>2. CASE MainRefuse /\ v = main.irp
  <2>1. /\ Popping /\ protectionAction' /\ ~Cutting'
        /\ UNCHANGED <<disk, io, ioQueue>>
    BY <1>2, MainFrame DEF IInv, Types, MainType, MainRefuse, MainAt, Popping, Cutting
  <2>2. \A s \in Sectors : disk[s].writer # NoIrp => Sooner(log, disk[s].writer, v)
    BY <1>2, <2>1 DEF Newest
  <2>3. \A r \in ToAccess : Sooner(log, r.irp, v)
    BY <1>2, <2>1, AccessSound DEF IInv, Entered
  <2>4. ToAccess' = ToAccess
    BY <2>1 DEF ToAccess, InAccess, InIoQueue
  <2>. QED
    BY <1>0, <2>1, <2>2, <2>3, <2>4
<1>. QED
  BY <1>1, <1>2, DeniedMoves

\* At first nothing has been written, and nothing is on the way.
LEMMA InitDelivering == Init => Delivering
<1>. SUFFICES ASSUME Init PROVE Delivering
  OBVIOUS
<1>1. /\ main.pc = "wait" /\ io.pc = "wait" /\ mainQueue = <<>> /\ ioQueue = <<>>
      /\ \A i \in Irps : irp[i].at = "new" /\ irp[i].status = "success"
      /\ \A s \in Sectors : disk[s].writer = NoIrp
  BY DEF Init
<1>2. ToAccess = {} /\ ~Popping /\ ~Cutting
  BY <1>1 DEF ToAccess, InAccess, InIoQueue, Popping, Cutting
<1>. QED
  BY <1>1, <1>2 DEF Delivering, Newest, Written, Landed, Protecting, Denying, AtAccepted, Working

\* Delivering, by which what the device holds follows the order of acceptance: the writes
\* are neither overtaken nor lost from AddIrp to the device.
THEOREM DeliveringInvariant == Spec => []Delivering
<1>1. IInv /\ Delivering /\ [Next]_vars => Delivering'
  BY NewestStep, WrittenStep, LandedStep, ProtectingStep, DenyingStep DEF Delivering
<1>. QED
  BY <1>1, InitDelivering, Invariant, PTL DEF Spec

\* What is completed is no longer pending, so a completed write has landed.
LEMMA DeliveredLands == IInv /\ Delivering => WritesLand
<1>. SUFFICES ASSUME IInv, Delivering, NEW w \in Irps, NEW s \in Sectors,
                     WritesSector(w, s), ~Failed(w), Happened(<<"completed", w>>)
              PROVE  /\ WritesSector(disk[s].writer, s)
                     /\ ~Before(<<"accepted", disk[s].writer>>, <<"accepted", w>>)
  BY DEF WritesLand
<1>1. irp[w].at \in AtCompleted
  BY DEF IInv, Logged, Happened, Logs
<1>2. irp[w].at # "queued" /\ irp[w].at \in AtAccepted
  BY <1>1 DEF AtCompleted, AtAccepted, Working
<1>3. ~Pending(w, s)
  BY <1>2, AccessSound DEF Pending, IInv, MainHas, Sound
<1>4. WritesIn(irp, w, s) /\ irp[w].status = "success"
  BY DEF WritesSector, WritesIn, Writes, SectorsOf, Failed
<1>5. disk[s].writer # NoIrp /\ NotLater(log, w, disk[s].writer)
  BY <1>2, <1>3, <1>4 DEF Delivering, Landed
<1>6. WritesIn(irp, disk[s].writer, s)
  BY <1>5 DEF Delivering, Written
<1>7. ~Sooner(log, disk[s].writer, w)
  BY <1>5, SoonerStrict DEF NotLater, IInv, Types
<1>. QED
  BY <1>5, <1>6, <1>7 DEF WritesSector, WritesIn, Writes, SectorsOf, Before, Sooner

\* The device has nothing later than a denied write.
LEMMA DeliveredProtects == IInv /\ Delivering => ProtectionHolds
<1>. SUFFICES ASSUME IInv, Delivering, NEW s \in Sectors, disk[s].writer # NoIrp
              PROVE  /\ s \notin Protected
                     /\ ~IsFilterDevice =>
                            \A v \in Irps : irp[v].status = "denied" =>
                                ~Before(<<"accepted", v>>, <<"accepted", disk[s].writer>>)
  BY DEF ProtectionHolds
<1>1. s \notin Protected
  BY DEF Delivering, Protecting
<1>2. ASSUME ~IsFilterDevice, NEW v \in Irps, irp[v].status = "denied"
      PROVE  ~Before(<<"accepted", v>>, <<"accepted", disk[s].writer>>)
  <2>1. Sooner(log, disk[s].writer, v)
    BY <1>2 DEF Delivering, Denying
  <2>2. ~Sooner(log, v, disk[s].writer)
    BY <2>1, SoonerStrict DEF IInv, Types
  <2>. QED
    BY <2>2 DEF Before, Sooner
<1>. QED
  BY <1>1, <1>2

-----------------------------------------------------------------------------
(* Reads *)

\* What came before an event that the log has, came before it already.
LEMMA EarlierFixed ==
    ASSUME IInv, [Next]_vars, NEW e, NEW f, Logs(log, f), Earlier(log', e, f)
    PROVE  Earlier(log, e, f)
<1>1. /\ log \in Seq({"accepted", "completed"} \X Irps)
      /\ log' = log \/ \E x \in {"accepted", "completed"} \X Irps : log' = Append(log, x)
  BY LogGrows DEF IInv, Types, DataTypes
<1>2. PICK h \in DOMAIN log : log[h] = f
  BY DEF Logs
<1>3. PICK n, k \in DOMAIN log' : n < k /\ log'[n] = e /\ log'[k] = f
  BY DEF Earlier
<1>4. /\ DOMAIN log = 1 .. Len(log) /\ Len(log) \in Nat
      /\ DOMAIN log' = 1 .. Len(log) \/ DOMAIN log' = 1 .. Len(log) + 1
      /\ \A m \in DOMAIN log : log'[m] = log[m] /\ m \in DOMAIN log'
  <2>1. ASSUME NEW x \in {"accepted", "completed"} \X Irps, log' = Append(log, x)
        PROVE  /\ DOMAIN log' = 1 .. Len(log) + 1
               /\ \A m \in DOMAIN log : log'[m] = log[m] /\ m \in DOMAIN log'
    BY <1>1, <2>1, Appended
  <2>2. DOMAIN log = 1 .. Len(log) /\ Len(log) \in Nat
    BY <1>1
  <2>. QED
    BY <1>1, <2>1, <2>2
<1>5. k = h
  BY <1>2, <1>3, <1>4, LoggedStep DEF Logged
<1>6. n \in DOMAIN log
  BY <1>2, <1>3, <1>4, <1>5
<1>. QED
  BY <1>2, <1>3, <1>4, <1>5, <1>6 DEF Earlier

\* What has been written when a request is accepted is settled.
LEMMA LatestStays ==
    ASSUME IInv, [Next]_vars, NEW i \in Irps, irp[i].at \in AtAccepted, NEW c, NEW s,
           Latest(log, irp, c, s, i)
    PROVE  Latest(log', irp', c, s, i)
<1>. SUFFICES ASSUME NEW v \in Irps, WritesIn(irp', v, s), irp'[v].status = "success",
                     Earlier(log', <<"completed", v>>, <<"accepted", i>>)
              PROVE  c.writer \in Irps /\ NotLater(log', v, c.writer)
  BY DEF Latest
<1>1. Logs(log, <<"accepted", i>>)
  BY DEF IInv, Logged
<1>2. Earlier(log, <<"completed", v>>, <<"accepted", i>>)
  BY <1>1, EarlierFixed
<1>3. irp[v].at \in AtCompleted
  BY <1>2 DEF IInv, Logged, Logs, Earlier
<1>4. irp[v].at \in AtAccepted /\ irp[v].at # "new" /\ irp[v].at # "queued"
  BY <1>3 DEF AtCompleted, AtAccepted, Working
<1>5. WritesIn(irp, v, s)
  BY <1>4, WritesStay
<1>6. ~(main.irp = v /\ (MainRefuse \/ MainFail \/ MainReadDone))
  BY <1>4 DEF IInv, MainHas, Popping, MainRefuse, MainFail, MainReadDone, MainAt
<1>7. ~(io.request.irp = v /\ IoFail)
  BY <1>4 DEF IInv, IoHas, IoBusy, Sound, IoFail, IoAt
<1>8. irp[v].status = "success"
  BY <1>4, <1>6, <1>7, StatusMoves
<1>. QED
  BY <1>2, <1>5, <1>8, NotLaterGrows DEF Latest

\* The device has the latest of everything.
LEMMA DiskLatest ==
    ASSUME IInv, Landed, NEW s \in Sectors, NEW i
    PROVE  Latest(log, irp, disk[s], s, i)
<1>. SUFFICES ASSUME NEW v \in Irps, WritesIn(irp, v, s), irp[v].status = "success",
                     Earlier(log, <<"completed", v>>, <<"accepted", i>>)
              PROVE  disk[s].writer \in Irps /\ NotLater(log, v, disk[s].writer)
  BY DEF Latest
<1>1. irp[v].at \in AtCompleted
  BY DEF IInv, Logged, Logs, Earlier
<1>2. irp[v].at # "queued" /\ irp[v].at \in AtAccepted
  BY <1>1 DEF AtCompleted, AtAccepted, Working
<1>3. ~Pending(v, s)
  BY <1>2, AccessSound DEF Pending, IInv, MainHas, Sound
<1>4. disk[s] \in Content
  BY DEF IInv, Types, DeviceTypes
<1>. QED
  BY <1>2, <1>3, <1>4 DEF Landed, Content

\* A request does not recover from a failure, but the one the main thread has read.
LEMMA FailedStays ==
    ASSUME IInv, [Next]_vars, NEW i \in Irps, irp[i].at \in AtAccepted, irp'[i].status = "success"
    PROVE  ~Failed(i) \/ (MainReadDone /\ main.irp = i)
<1>1. ~(main.irp = i /\ (MainRefuse \/ MainFail))
  BY DEF IInv, Types, IrpType, MainRefuse, MainFail, Complete
<1>2. ~(io.request.irp = i /\ IoFail)
  BY DEF IInv, Types, IrpType, IoFail, Current
<1>. QED
  BY <1>1, <1>2, StatusMoves DEF Failed, AtAccepted, Working

\* What has been read for a sector of a request changes in four steps.
LEMMA GotMoves ==
    ASSUME IInv, [Next]_vars, NEW i \in Irps, NEW s \in Sectors
    PROVE  \/ got'[i][s] = got[i][s]
           \/ (MainRead \/ MainReadDone) /\ main.irp = i
           \/ IoReadDone /\ io.request.irp = i /\ io.request.sector = s
           \/ CompletionDecrypt /\ completion.request.irp = i /\ completion.request.sector = s
<1>0. got \in [Irps -> [Sectors -> Content]]
  BY DEF IInv, Types, DataTypes
<1>1. CASE UNCHANGED vars
  BY <1>1 DEF vars
<1>2. ASSUME NEW j \in Irps, AddIrp(j) \/ Work(j) PROVE UNCHANGED got
  BY <1>2, AddFrame, WorkFrame
<1>3. CASE Main
  <2>1. UNCHANGED got \/ MainRead \/ MainReadDone
    BY <1>3 DEF Main, MainEmpty, MainWait, MainPop, MainTestSuspended, MainHeld,
       MainGetItem, MainWaitPool, MainRefuse, MainFail, MainUncount, MainSignal, MainFreeItem,
       MainAccept, MainFragment, MainGetRequest, MainAcquire, MainPush
  <2>2. MainRead \/ MainReadDone => main.irp = i \/ got'[i] = got[i]
    BY <1>0 DEF MainRead, MainReadDone
  <2>. QED
    BY <2>1, <2>2
<1>4. CASE Io
  <2>1. UNCHANGED got \/ IoReadDone
    BY <1>4 DEF Io, IoWait, IoEmpty, IoPop, IoSkip, IoFail, IoWrite, IoRead, IoWritten,
       IoDeliver, IoReadAhead, IoUncount, IoSignal, IoFreeRequest, IoTakeWorkItem, IoHand
  <2>2. IoReadDone => (io.request.irp = i /\ io.request.sector = s) \/ got'[i][s] = got[i][s]
    BY <1>0 DEF IoReadDone, Received, Current
  <2>. QED
    BY <2>1, <2>2
<1>5. CASE Completion
  <2>1. UNCHANGED got \/ CompletionDecrypt
    BY <1>5 DEF Completion, CompletionWait, CompletionEmpty, CompletionPop,
       CompletionTakeWorkItem, CompletionHand, CompletionFreeRequest
  <2>2. CompletionDecrypt => \/ completion.request.irp = i /\ completion.request.sector = s
                             \/ got'[i][s] = got[i][s]
    BY <1>0 DEF CompletionDecrypt, Finishing
  <2>. QED
    BY <2>1, <2>2
<1>6. CASE Hold \/ Stop
  BY <1>6, HoldFrame, StopFrame
<1>. QED
  BY <1>1, <1>2, <1>3, <1>4, <1>5, <1>6 DEF Next

\* A fragment that has been accessed stays with the I/O thread until its buffer is released.
LEMMA AccessedMoves ==
    ASSUME IInv, [Next]_vars
    PROVE  /\ io'.pc = "accessed" =>
                  /\ io'.request = io.request
                  /\ Accessed \/ io.pc = "accessed"
           /\ io.pc = "accessed" =>
                  /\ io'.request = io.request
                  /\ io'.pc = "accessed" \/ (IoWritten /\ Writes(io.request.irp)) \/ IoReadDone
           /\ Accessed => io'.pc = "accessed" /\ io.pc = "access"
<1>1. CASE UNCHANGED io
  BY <1>1 DEF IInv, Types, IoType, Accessed, IoSkip, IoFail, IoWrite, IoRead, IoAt
<1>2. CASE Accessed
  BY <1>2 DEF IInv, Types, IoType, Accessed, IoSkip, IoFail, IoWrite, IoRead, IoAt
<1>3. CASE Io /\ ~Accessed
  <2>1. CASE IoWait \/ IoEmpty \/ IoPop \/ IoWritten \/ IoReadDone \/ IoDeliver \/ IoReadAhead
    BY <1>3, <2>1 DEF IInv, Types, IoType, IoAt, IoWait, IoEmpty, IoPop, IoWritten, IoReadDone,
       IoDeliver, IoReadAhead, Current
  <2>2. CASE IoUncount \/ IoSignal \/ IoFreeRequest \/ IoTakeWorkItem \/ IoHand
    BY <1>3, <2>2 DEF IInv, Types, IoType, IoAt, IoUncount, IoSignal, IoFreeRequest, IoTakeWorkItem,
       IoHand
  <2>. QED
    BY <1>3, <2>1, <2>2 DEF Io, Accessed
<1>4. ASSUME NEW i \in Irps, AddIrp(i) \/ Work(i) PROVE UNCHANGED io
  BY <1>4, AddFrame, WorkFrame
<1>5. CASE Main \/ Completion \/ Hold \/ Stop
  BY <1>1, <1>5, MainFrame, CompletionFrame, HoldFrame, StopFrame
<1>6. CASE UNCHANGED vars
  BY <1>1, <1>6 DEF vars
<1>. QED
  BY <1>1, <1>2, <1>3, <1>4, <1>5, <1>6 DEF Next, Accessed

\* The fragments to be decrypted come from IoReadDone, and go when they have been.
LEMMA DecryptMoves ==
    ASSUME IInv, [Next]_vars
    PROVE  /\ ToDecrypt' \subseteq ToDecrypt
              \/ (IoReadDone /\ ToDecrypt' = ToDecrypt \cup {io.request})
           /\ \/ ToDecrypt \subseteq ToDecrypt'
              \/ /\ CompletionDecrypt /\ completion.pc = "decrypt"
                 /\ ToDecrypt' = InDeliver \cup InCompletionQueue
                 /\ InDecrypt = {completion.request}
<1>1. CASE UNCHANGED <<io, completion, completionQueue>>
  BY <1>1 DEF ToDecrypt, InDeliver, InDecrypt, InCompletionQueue
<1>2. CASE Io
  <2>1. UNCHANGED completion
    BY <1>2, IoFrame
  <2>2. CASE IoDeliver
    <3>1. /\ completionQueue \in Seq(Piece) /\ io.request \in Piece
          /\ completionQueue' = Append(completionQueue, io.request)
          /\ io.pc = "deliver" /\ io'.pc # "deliver"
      BY <2>2 DEF IInv, Types, ListTypes, IoType, IoDeliver, Current
    <3>2. /\ DOMAIN completionQueue = 1 .. Len(completionQueue) /\ Len(completionQueue) \in Nat
          /\ DOMAIN completionQueue' = 1 .. Len(completionQueue) + 1
          /\ \A n \in DOMAIN completionQueue : completionQueue'[n] = completionQueue[n]
          /\ completionQueue'[Len(completionQueue) + 1] = io.request
      BY <3>1, Appended
    <3>3. InCompletionQueue' = InCompletionQueue \cup {io.request}
      BY <3>2 DEF InCompletionQueue
    <3>4. InDeliver = {io.request} /\ InDeliver' = {}
      BY <3>1 DEF InDeliver
    <3>. QED
      BY <2>1, <3>3, <3>4 DEF ToDecrypt, InDecrypt
  <2>3. CASE IoReadDone
    <3>1. /\ UNCHANGED completionQueue /\ io.pc = "accessed" /\ io'.pc = "deliver"
          /\ io'.request = io.request
      BY <2>3 DEF IInv, Types, IoType, IoReadDone
    <3>. QED
      BY <2>1, <2>3, <3>1 DEF ToDecrypt, InDeliver, InDecrypt, InCompletionQueue
  <2>4. CASE IoWait \/ IoEmpty \/ IoPop \/ IoSkip \/ IoFail \/ IoWrite \/ IoRead \/ IoWritten
    <3>1. UNCHANGED completionQueue /\ io.pc # "deliver" /\ io'.pc # "deliver"
      BY <2>4 DEF IInv, Types, IoType, IoAt, IoWait, IoEmpty, IoPop, IoSkip, IoFail, IoWrite, IoRead,
         IoWritten
    <3>. QED
      BY <2>1, <3>1 DEF ToDecrypt, InDeliver, InDecrypt, InCompletionQueue
  <2>5. CASE IoReadAhead \/ IoUncount \/ IoSignal \/ IoFreeRequest \/ IoTakeWorkItem \/ IoHand
    <3>1. UNCHANGED completionQueue /\ io.pc # "deliver" /\ io'.pc # "deliver"
      BY <2>5 DEF IInv, Types, IoType, IoAt, IoReadAhead, IoUncount, IoSignal, IoFreeRequest,
         IoTakeWorkItem, IoHand
    <3>. QED
      BY <2>1, <3>1 DEF ToDecrypt, InDeliver, InDecrypt, InCompletionQueue
  <2>. QED
    BY <1>2, <2>2, <2>3, <2>4, <2>5 DEF Io
<1>3. CASE Completion
  <2>1. UNCHANGED io
    BY <1>3, CompletionFrame
  <2>2. CASE CompletionPop
    <3>1. /\ completionQueue \in Seq(Piece) /\ completionQueue # <<>>
          /\ completionQueue' = Tail(completionQueue)
          /\ completion.pc = "pop" /\ completion'.pc = "decrypt"
          /\ completion'.request = Head(completionQueue)
      BY <2>2 DEF IInv, Types, ListTypes, CompletionPop
    <3>2. /\ Head(completionQueue) = completionQueue[1] /\ 1 \in DOMAIN completionQueue
          /\ \A n \in DOMAIN completionQueue' :
                 n + 1 \in DOMAIN completionQueue /\ completionQueue'[n] = completionQueue[n + 1]
          /\ DOMAIN completionQueue = 1 .. Len(completionQueue)
          /\ DOMAIN completionQueue' = 1 .. Len(completionQueue) - 1
          /\ Len(completionQueue) \in Nat
      BY <3>1, HeadTail
    <3>3. InDecrypt = {} /\ InDecrypt' = {completionQueue[1]}
      BY <3>1, <3>2 DEF InDecrypt
    <3>4. InCompletionQueue' \subseteq InCompletionQueue /\ completionQueue[1] \in InCompletionQueue
      BY <3>2 DEF InCompletionQueue
    <3>5. \A n \in DOMAIN completionQueue :
              completionQueue[n] \in InCompletionQueue' \cup {completionQueue[1]}
      <4>. SUFFICES ASSUME NEW n \in DOMAIN completionQueue, n # 1
                    PROVE  completionQueue[n] \in InCompletionQueue'
        OBVIOUS
      <4>1. n - 1 \in DOMAIN completionQueue' /\ completionQueue'[n - 1] = completionQueue[n]
        BY <3>2
      <4>. QED
        BY <4>1 DEF InCompletionQueue
    <3>6. InCompletionQueue \subseteq InCompletionQueue' \cup {completionQueue[1]}
      BY <3>5 DEF InCompletionQueue
    <3>. QED
      BY <2>1, <3>3, <3>4, <3>6 DEF ToDecrypt, InDeliver
  <2>3. CASE CompletionDecrypt
    <3>1. completion.pc = "decrypt" /\ completion'.pc # "decrypt" /\ UNCHANGED completionQueue
      BY <2>3 DEF IInv, Types, CompletionType, CompletionDecrypt, CompletionAt
    <3>2. /\ InDecrypt = {completion.request} /\ InDecrypt' = {}
          /\ InDeliver' = InDeliver /\ InCompletionQueue' = InCompletionQueue
      BY <2>1, <3>1 DEF InDeliver, InDecrypt, InCompletionQueue
    <3>. QED
      BY <2>3, <3>1, <3>2 DEF ToDecrypt
  <2>4. CASE CompletionWait \/ CompletionEmpty \/ CompletionTakeWorkItem \/ CompletionHand
             \/ CompletionFreeRequest
    <3>1. UNCHANGED completionQueue /\ completion.pc # "decrypt" /\ completion'.pc # "decrypt"
      BY <2>4 DEF IInv, Types, CompletionType, CompletionAt, CompletionWait, CompletionEmpty,
         CompletionTakeWorkItem, CompletionHand, CompletionFreeRequest
    <3>. QED
      BY <2>1, <3>1 DEF ToDecrypt, InDeliver, InDecrypt, InCompletionQueue
  <2>. QED
    BY <1>3, <2>2, <2>3, <2>4 DEF Completion
<1>4. ASSUME NEW i \in Irps, AddIrp(i) \/ Work(i) PROVE UNCHANGED <<io, completion, completionQueue>>
  BY <1>4, AddFrame, WorkFrame
<1>5. CASE Main \/ Hold \/ Stop
  BY <1>1, <1>5, MainFrame, HoldFrame, StopFrame
<1>6. CASE UNCHANGED vars
  BY <1>1, <1>6 DEF vars
<1>. QED
  BY <1>1, <1>2, <1>3, <1>4, <1>5, <1>6 DEF Next

\* What is to be decrypted is on the way, and a fragment of an accepted read.
LEMMA DecryptSound ==
    ASSUME IInv, NEW r \in ToDecrypt
    PROVE  /\ r \in Pipe /\ r \in Piece /\ Sound(irp, r) /\ r.irp \in Irps
           /\ irp[r.irp].at \in AtAccepted /\ r.sector \in Sectors
           /\ ~Writes(r.irp)
<1>1. r \in Pipe
  BY DEF ToDecrypt, InDeliver, InDecrypt, Pipe, InIo, IoBusy, InCompletion, CompletionBusy
<1>2. ~Writes(r.irp)
  BY DEF ToDecrypt, InDeliver, InDecrypt, InCompletionQueue, IInv, IoHas, CompletionHas, CompletionBusy
<1>. QED
  BY <1>1, <1>2, PipeSound DEF Piece, Sound, AtAccepted

\* The read-ahead buffer is changed by whoever makes it invalid, and by a read-ahead.
LEMMA CacheMoves ==
    ASSUME IInv, [Next]_vars
    PROVE  UNCHANGED readAhead \/ ~readAhead'.valid \/ IoReadAhead
<1>1. ASSUME NEW i \in Irps, AddIrp(i) \/ Work(i) PROVE UNCHANGED readAhead
  BY <1>1, AddFrame, WorkFrame
<1>2. CASE Main \/ Completion \/ Stop
  BY <1>2, MainFrame, CompletionFrame, StopFrame
<1>3. CASE Io
  BY <1>3 DEF Io, IoWait, IoEmpty, IoPop, IoSkip, IoFail, IoWrite, IoRead, IoWritten, IoReadDone,
     IoDeliver, IoUncount, IoSignal, IoFreeRequest, IoTakeWorkItem, IoHand, NoReadAhead
<1>4. CASE Hold
  BY <1>4 DEF Hold, HoldBegin, HoldTest, HoldWait, HoldFail, HoldIdle, HoldClear, HoldSuspend,
     HoldConfirm, HoldUndo, HoldUndone, HoldDone, SetupWrite, SetupMoveEnd, Resume, ResumeSignal,
     NoReadAhead
<1>5. CASE UNCHANGED vars
  BY <1>5 DEF vars
<1>. QED
  BY <1>1, <1>2, <1>3, <1>4, <1>5 DEF Next

\* The I/O thread has written through the read-ahead buffer, and will make it invalid.
WrittenThrough == io.pc = "accessed" /\ Writes(io.request.irp)

\* A write makes the read-ahead buffer invalid before anything else is read.
LEMMA CacheStep == ASSUME IInv, Cache, [Next]_vars PROVE Cache'
<1>. SUFFICES ASSUME readAhead'.valid
              PROVE  readAhead'.data = disk'[readAhead'.sector] \/ WrittenThrough'
  BY DEF Cache, WrittenThrough
<1>0. readAhead \in [valid : BOOLEAN, sector : Sectors, data : Content]
  BY DEF IInv, Types, DeviceTypes
<1>1. CASE IoReadAhead
  BY <1>0, <1>1 DEF IoReadAhead, NoReadAhead
<1>2. CASE UNCHANGED readAhead
  <2>1. WrittenThrough => WrittenThrough' \/ IoWritten
    <3>1. SUFFICES ASSUME io.pc = "accessed", Writes(io.request.irp) PROVE WrittenThrough' \/ IoWritten
      BY DEF WrittenThrough
    <3>2. ~IoReadDone
      BY <3>1 DEF IoReadDone, Current
    <3>3. irp'[io.request.irp].op = irp[io.request.irp].op
      BY <3>1, OpStays DEF OpKept, IoBusy
    <3>. QED
      BY <3>1, <3>2, <3>3, AccessedMoves DEF WrittenThrough, Writes
  <2>2. ~IoWritten
    BY <1>0, <1>2 DEF IoWritten, NoReadAhead
  <2>3. CASE DriveStays \/ SetupMoveEnd
    BY <1>2, <2>1, <2>2, <2>3 DEF Cache, WrittenThrough, DriveStays, SetupMoveEnd
  <2>4. CASE IoWrite
    BY <2>4 DEF IInv, Types, IoType, IoWrite, IoAt, Current, WrittenThrough, Writes
  <2>5. CASE SetupWrite
    <3>1. Holding
      BY <2>5 DEF SetupWrite, HoldAt, Holding
    <3>. QED
      BY <1>2, <3>1 DEF IInv, Settled
  <2>. QED
    BY <2>3, <2>4, <2>5, DriveMoves
<1>. QED
  BY <1>1, <1>2, CacheMoves

\* The main thread reads directly in one step and decrypts in the next.
LEMMA DirectMoves ==
    ASSUME IInv, [Next]_vars, main'.pc = "direct"
    PROVE  main'.irp = main.irp /\ (MainRead \/ UNCHANGED main)
<1>1. CASE Main
  <2>1. CASE MainRead
    BY <2>1 DEF IInv, Types, MainType, MainRead, MainAt
  <2>2. CASE MainEmpty \/ MainWait \/ MainPop \/ MainTestSuspended \/ MainHeld \/ MainGetItem
             \/ MainWaitPool \/ MainRefuse \/ MainFail
    BY <2>2 DEF IInv, Types, MainType, MainAt, MainEmpty, MainWait,
       MainPop, MainTestSuspended, MainHeld, MainGetItem, MainWaitPool, MainRefuse, MainFail
  <2>3. CASE MainReadDone \/ MainUncount \/ MainSignal \/ MainFreeItem \/ MainAccept \/ MainFragment
             \/ MainGetRequest \/ MainAcquire \/ MainPush
    BY <2>3 DEF IInv, Types, MainType, MainAt, MainReadDone, MainUncount, MainSignal, MainFreeItem,
       MainAccept, MainFragment, MainGetRequest, MainAcquire, MainPush
  <2>. QED
    BY <1>1, <2>1, <2>2, <2>3 DEF Main
<1>2. ASSUME NEW i \in Irps, AddIrp(i) \/ Work(i) PROVE UNCHANGED main
  BY <1>2, AddFrame, WorkFrame
<1>3. CASE Io \/ Completion \/ Hold \/ Stop
  BY <1>3, IoFrame, CompletionFrame, HoldFrame, StopFrame
<1>4. CASE UNCHANGED vars
  BY <1>4 DEF vars
<1>. QED
  BY <1>1, <1>2, <1>3, <1>4 DEF Next

\* What is on the device is encrypted as its place in the area demands, unless it is held.
LEMMA DiskPlain ==
    ASSUME IInv, ~Holding, NEW s \in Sectors
    PROVE  disk[s].encrypted = InEncryptedArea(s)
BY DEF IInv, Encrypting, DriveConsistent, Holding

\* EncryptedAreaEnd moves only while the queue is held.
LEMMA EndMoves == ASSUME IInv, [Next]_vars, ~Holding PROVE UNCHANGED encryptedEnd
<1>1. ~SetupMoveEnd /\ ~SetupWrite
  BY DEF SetupMoveEnd, SetupWrite, HoldAt, Holding
<1>. QED
  BY <1>1, DriveMoves DEF DriveStays, IoWrite, ioFrame

\* A direct read has what the device had.
LEMMA DirectReadStep == ASSUME IInv, Landed, DirectRead, [Next]_vars PROVE DirectRead'
<1>. SUFFICES ASSUME main'.pc = "direct"
              PROVE  \A s \in irp'[main'.irp].op.first .. irp'[main'.irp].op.last :
                         /\ Latest(log', irp', got'[main'.irp][s], s, main'.irp)
                         /\ got'[main'.irp][s].encrypted = (~IsFilterDevice \/ s <= encryptedEnd')
  BY DEF DirectRead, SectorsOf, InEncryptedArea
<1>1. /\ main'.irp = main.irp /\ main.irp \in Irps /\ Popping /\ ~Holding
      /\ irp[main.irp].at = "queued"
  <2>1. Popping /\ main.pc \in {"dispatch", "direct"}
    BY DirectMoves DEF Popping, MainRead, MainAt
  <2>2. ~Holding
    BY <2>1 DEF IInv, Settled
  <2>. QED
    BY <2>1, <2>2, DirectMoves DEF IInv, Types, MainType, MainHas
<1>2. UNCHANGED encryptedEnd /\ irp'[main.irp].op = irp[main.irp].op
  BY <1>1, EndMoves, OpStays DEF OpKept
<1>. SUFFICES ASSUME NEW s \in SectorsOf(main.irp)
              PROVE  /\ Latest(log', irp', got'[main.irp][s], s, main.irp)
                     /\ got'[main.irp][s].encrypted = InEncryptedArea(s)
  BY <1>1, <1>2 DEF SectorsOf, InEncryptedArea
<1>3. s \in Sectors
  BY <1>1, OpType DEF IInv, Types
<1>4. irp[main.irp].at \in AtAccepted
  BY <1>1 DEF AtAccepted
<1>5. CASE MainRead
  <2>1. got'[main.irp][s] = disk[s]
    BY <1>1, <1>3, <1>5 DEF IInv, Types, DataTypes, MainRead
  <2>2. Latest(log, irp, disk[s], s, main.irp) /\ disk[s].encrypted = InEncryptedArea(s)
    BY <1>1, <1>3, DiskLatest, DiskPlain
  <2>. QED
    BY <1>1, <1>4, <2>1, <2>2, LatestStays
<1>6. CASE UNCHANGED main
  <2>1. got'[main.irp][s] = got[main.irp][s]
    <3>1. ~MainRead /\ ~MainReadDone
      BY <1>6 DEF IInv, Types, MainType, MainRead, MainReadDone, MainAt
    <3>2. IoReadDone => io.request \in Pipe
      BY DEF IoReadDone, Pipe, InIo, IoBusy
    <3>3. CompletionDecrypt => completion.request \in Pipe
      BY DEF CompletionDecrypt, CompletionAt, Pipe, InCompletion, CompletionBusy
    <3>. QED
      BY <1>1, <1>3, <3>1, <3>2, <3>3, PoppedAlone, GotMoves
  <2>2. Latest(log, irp, got[main.irp][s], s, main.irp) /\ got[main.irp][s].encrypted = InEncryptedArea(s)
    BY <1>6 DEF DirectRead
  <2>. QED
    BY <1>1, <1>4, <2>1, <2>2, LatestStays
<1>. QED
  BY <1>5, <1>6, DirectMoves

\* A fragment buffer has what the device had, or the read-ahead buffer.
LEMMA FragmentReadStep == ASSUME IInv, Landed, Cache, FragmentRead, [Next]_vars PROVE FragmentRead'
<1>. DEFINE r == io.request
<1>. SUFFICES ASSUME io'.pc = "accessed", ~irp'[io'.request.irp].op.write,
                     irp'[io'.request.irp].status = "success"
              PROVE  /\ Latest(log', irp', fragment'[io'.request.buffer], io'.request.sector,
                               io'.request.irp)
                     /\ fragment'[io'.request.buffer].encrypted = io'.request.encrypted
  BY DEF FragmentRead, Writes, Failed
<1>1. /\ io'.request = r
      /\ Accessed \/ io.pc = "accessed"
      /\ io.pc \in {"access", "accessed"}
  BY AccessedMoves
<1>2. /\ r \in Pipe /\ r \in Piece /\ r.irp \in Irps /\ r.sector \in Sectors /\ r.buffer \in Buffers
      /\ irp[r.irp].at \in AtAccepted /\ IoBusy /\ ~Holding
      /\ fragment \in [Buffers -> Content]
  <2>1. IoBusy /\ r \in Pipe
    BY <1>1 DEF IoBusy, Pipe, InIo
  <2>2. ~Holding
    BY <1>1 DEF IInv, Settled
  <2>. QED
    BY <2>1, <2>2, PipeSound DEF Piece, Sound, AtAccepted, IInv, Types, DataTypes
<1>3. irp'[r.irp].op = irp[r.irp].op /\ ~Writes(r.irp)
  BY <1>1, <1>2, OpStays DEF OpKept, Writes
<1>4. ~Failed(r.irp)
  <2>1. ~(MainReadDone /\ main.irp = r.irp)
    BY <1>2, PoppedAlone DEF MainReadDone, MainAt, Popping
  <2>. QED
    BY <1>1, <1>2, <2>1, FailedStays
<1>5. r.encrypted = InEncryptedArea(r.sector)
  BY <1>2 DEF IInv, Encrypting
<1>6. CASE Accessed
  <2>1. io.pc = "access"
    BY <1>6, AccessedMoves
  <2>2. ~IoFail
    BY <1>1, <1>2 DEF IInv, Types, IrpType, IoFail, Current
  <2>3. IoRead
    BY <1>3, <1>4, <1>6, <2>2 DEF Accessed, IoSkip, IoWrite, Current
  <2>4. fragment'[r.buffer] = disk[r.sector]
    <3>1. Cached(r.sector) => readAhead.data = disk[r.sector]
      BY <2>1 DEF Cached, Cache
    <3>. QED
      BY <1>2, <2>3, <3>1 DEF IoRead, Current
  <2>5. Latest(log, irp, disk[r.sector], r.sector, r.irp)
    BY <1>2, DiskLatest
  <2>6. disk[r.sector].encrypted = r.encrypted
    BY <1>2, <1>5, DiskPlain
  <2>. QED
    BY <1>1, <1>2, <2>4, <2>5, <2>6, LatestStays
<1>7. CASE io.pc = "accessed"
  <2>1. fragment'[r.buffer] = fragment[r.buffer]
    <3>1. ~IoRead
      BY <1>7 DEF IoRead, IoAt
    <3>2. CASE MainAcquire
      <4>1. main.buffer # r.buffer
        BY <1>7, <3>2 DEF IInv, Exclusive, MainAcquire, Wait
      <4>. QED
        BY <1>2, <3>2, <4>1 DEF MainAcquire, Encrypt
    <3>. QED
      BY <3>1, <3>2, UsersMove
  <2>2. Latest(log, irp, fragment[r.buffer], r.sector, r.irp) /\ fragment[r.buffer].encrypted = r.encrypted
    BY <1>3, <1>4, <1>7 DEF FragmentRead
  <2>. QED
    BY <1>1, <1>2, <2>1, <2>2, LatestStays
<1>. QED
  BY <1>1, <1>6, <1>7

\* Fragments of one request that are read or decrypted at the same time are of
\* different sectors.
LEMMA DecryptAlone ==
    ASSUME IInv
    PROVE  /\ IoReadDone => \A r \in ToDecrypt : r.irp # io.request.irp \/ r.sector # io.request.sector
           /\ CompletionDecrypt => \A r \in InDeliver \cup InCompletionQueue :
                  r.irp # completion.request.irp \/ r.sector # completion.request.sector
<1>1. ASSUME NEW r \in Pipe, NEW t \in Pipe, Precedes(log, r, t)
      PROVE  r.irp # t.irp \/ r.sector # t.sector
  <2>1. r.sector \in Int /\ t.sector \in Int
    BY PipeSound, QueueAssumption DEF Piece, Sectors
  <2>. QED
    BY <1>1, <2>1 DEF Precedes
<1>2. ASSUME IoReadDone, NEW r \in ToDecrypt
      PROVE  r.irp # io.request.irp \/ r.sector # io.request.sector
  <2>1. /\ InIo = {io.request} /\ InDeliver = {} /\ io.request \in Pipe
        /\ r \in InCompletionQueue \cup InCompletion /\ r \in Pipe
    BY <1>2 DEF IoReadDone, InIo, IoBusy, InDeliver, InDecrypt, ToDecrypt, InCompletion,
       CompletionBusy, Pipe
  <2>2. Precedes(log, r, io.request)
    BY <2>1 DEF IInv, Ordered, Order
  <2>. QED
    BY <1>1, <2>1, <2>2
<1>3. ASSUME CompletionDecrypt, NEW r \in InDeliver \cup InCompletionQueue
      PROVE  r.irp # completion.request.irp \/ r.sector # completion.request.sector
  <2>1. /\ InCompletion = {completion.request} /\ completion.request \in Pipe
        /\ r \in InCompletionQueue \cup InIo /\ r \in Pipe
    BY <1>3 DEF CompletionDecrypt, CompletionAt, InIo, IoBusy, InDeliver, InCompletion,
       CompletionBusy, Pipe
  <2>2. Precedes(log, completion.request, r)
    BY <2>1 DEF IInv, Ordered, Order
  <2>. QED
    BY <1>1, <2>1, <2>2
<1>. QED
  BY <1>2, <1>3

\* What has been received stays in the requester's buffer until it is decrypted.
LEMMA TransitReadStep == ASSUME IInv, FragmentRead, TransitRead, [Next]_vars PROVE TransitRead'
<1>. SUFFICES ASSUME NEW r \in ToDecrypt', irp'[r.irp].status = "success"
              PROVE  /\ Latest(log', irp', got'[r.irp][r.sector], r.sector, r.irp)
                     /\ got'[r.irp][r.sector].encrypted = r.encrypted
  BY DEF TransitRead, Failed
<1>1. CASE r \in ToDecrypt
  <2>1. /\ r \in Pipe /\ r.irp \in Irps /\ r.sector \in Sectors /\ irp[r.irp].at \in AtAccepted
    BY <1>1, DecryptSound
  <2>2. ~(main.irp = r.irp /\ (MainRead \/ MainReadDone))
    BY <2>1, PoppedAlone DEF MainRead, MainReadDone, MainAt, Popping
  <2>3. ~Failed(r.irp)
    BY <2>1, <2>2, FailedStays
  <2>4. IoReadDone => r.irp # io.request.irp \/ r.sector # io.request.sector
    BY <1>1, DecryptAlone
  <2>5. CompletionDecrypt => r.irp # completion.request.irp \/ r.sector # completion.request.sector
    <3>1. ASSUME CompletionDecrypt PROVE r \in InDeliver \cup InCompletionQueue
      <4>1. /\ completion.pc = "decrypt" /\ completion'.pc # "decrypt" /\ UNCHANGED <<io, completionQueue>>
        BY <3>1 DEF IInv, Types, CompletionType, CompletionDecrypt, CompletionAt, completionFrame
      <4>. QED
        BY <4>1 DEF ToDecrypt, InDeliver, InCompletionQueue, InDecrypt
    <3>. QED
      BY <3>1, DecryptAlone
  <2>6. got'[r.irp][r.sector] = got[r.irp][r.sector]
    BY <2>1, <2>2, <2>4, <2>5, GotMoves
  <2>. QED
    BY <1>1, <2>1, <2>3, <2>6, LatestStays DEF TransitRead
<1>2. CASE IoReadDone /\ r = io.request
  <2>1. io.pc = "accessed" /\ ~Writes(r.irp) /\ UNCHANGED irp
    BY <1>2 DEF IoReadDone, Current
  <2>2. r.irp \in Irps /\ r.sector \in Sectors /\ irp[r.irp].at \in AtAccepted
    BY <1>2, <2>1 DEF IInv, Types, IoType, Piece, IoHas, IoBusy, Sound, AtAccepted
  <2>3. ~Failed(r.irp)
    BY <2>1 DEF Failed
  <2>4. /\ Latest(log, irp, fragment[r.buffer], r.sector, r.irp)
        /\ fragment[r.buffer].encrypted = r.encrypted
    BY <1>2, <2>1, <2>3 DEF FragmentRead
  <2>5. got'[r.irp][r.sector] = fragment[r.buffer]
    BY <1>2, <2>2, <2>3 DEF IInv, Types, DataTypes, IoReadDone, Received, Current
  <2>. QED
    BY <2>2, <2>4, <2>5, LatestStays
<1>. QED
  BY <1>1, <1>2, DecryptMoves

\* A direct read is decrypted, and a fragment is.
LEMMA ReadEnds ==
    ASSUME IInv, DirectRead, TransitRead, [Next]_vars, NEW i \in Irps, NEW s \in SectorsOf(i),
           irp[i].at \in AtAccepted
    PROVE  /\ MainReadDone /\ main.irp = i =>
                  Latest(log', irp', got'[i][s], s, i) /\ ~got'[i][s].encrypted
           /\ CompletionDecrypt /\ completion.request.irp = i /\ completion.request.sector = s
                  /\ ~Failed(i) => Latest(log', irp', got'[i][s], s, i) /\ ~got'[i][s].encrypted
<1>0. s \in Sectors /\ got \in [Irps -> [Sectors -> Content]] /\ got[i][s] \in Content
  BY OpType DEF IInv, Types, DataTypes
<1>1. ASSUME NEW c, Latest(log, irp, c, s, i), NEW d, d.writer = c.writer
      PROVE  Latest(log', irp', d, s, i)
  <2>1. Latest(log, irp, d, s, i)
    BY <1>1 DEF Latest
  <2>. QED
    BY <2>1, LatestStays
<1>2. ASSUME MainReadDone, main.irp = i
      PROVE  Latest(log', irp', got'[i][s], s, i) /\ ~got'[i][s].encrypted
  <2>1. Latest(log, irp, got[i][s], s, i) /\ got[i][s].encrypted = InEncryptedArea(s)
    BY <1>2 DEF DirectRead, MainReadDone, MainAt
  <2>2. got'[i][s] = IF InEncryptedArea(s) THEN Decrypted(got[i][s]) ELSE got[i][s]
    BY <1>0, <1>2 DEF MainReadDone
  <2>3. got'[i][s].writer = got[i][s].writer /\ ~got'[i][s].encrypted
    BY <1>0, <2>1, <2>2, DecryptedType
  <2>. QED
    BY <1>1, <2>1, <2>3
<1>3. ASSUME CompletionDecrypt, completion.request.irp = i, completion.request.sector = s, ~Failed(i)
      PROVE  Latest(log', irp', got'[i][s], s, i) /\ ~got'[i][s].encrypted
  <2>1. completion.request \in ToDecrypt
    BY <1>3 DEF CompletionDecrypt, CompletionAt, ToDecrypt, InDecrypt
  <2>2. Latest(log, irp, got[i][s], s, i) /\ got[i][s].encrypted = completion.request.encrypted
    BY <1>3, <2>1 DEF TransitRead
  <2>3. got'[i][s] = IF completion.request.encrypted THEN Decrypted(got[i][s]) ELSE got[i][s]
    BY <1>0, <1>3 DEF CompletionDecrypt, Finishing
  <2>4. got'[i][s].writer = got[i][s].writer /\ ~got'[i][s].encrypted
    BY <1>0, <2>2, <2>3, DecryptedType
  <2>. QED
    BY <1>1, <2>2, <2>4
<1>. QED
  BY <1>2, <1>3

\* A read that has not failed is pending, in transit or done, sector by sector.
LEMMA AllReadStep == ASSUME IInv, DirectRead, TransitRead, AllRead, [Next]_vars PROVE AllRead'
<1>. DEFINE Reading(t, i, s) == t.pc = "accessed" /\ t.request.irp = i /\ t.request.sector = s
            Moving(S, i, s) == \E r \in S : r.irp = i /\ r.sector = s
            Read(l, f, g, i, s) == Latest(l, f, g[i][s], s, i) /\ ~g[i][s].encrypted
<1>. SUFFICES ASSUME NEW i \in Irps, irp'[i].at \in AtAccepted, ~irp'[i].op.write,
                     irp'[i].status = "success", NEW s \in irp'[i].op.first .. irp'[i].op.last
              PROVE  Pending(i, s)' \/ Reading(io', i, s) \/ Moving(ToDecrypt', i, s)
                     \/ Read(log', irp', got', i, s)
  BY DEF AllRead, Writes, Failed, SectorsOf
<1>1. CASE AddQueue(i)
  BY <1>1, WaitsMoves DEF Pending, WaitsIn
<1>2. CASE irp[i].at \in AtAccepted
  <2>1. irp'[i].op = irp[i].op
    BY <1>2, WritesStay
  <2>2. s \in SectorsOf(i) /\ ~Writes(i) /\ s \in Sectors
    BY <2>1, OpType DEF SectorsOf, Writes, IInv, Types
  <2>3. CASE MainReadDone /\ main.irp = i
    BY <1>2, <2>2, <2>3, ReadEnds
  <2>4. CASE ~(MainReadDone /\ main.irp = i)
    <3>1. ~Failed(i)
      BY <1>2, <2>4, FailedStays
    <3>2. ~(main.irp = i /\ MainDrops)
      BY <2>4 DEF IInv, Types, IrpType, MainDrops, MainRefuse, MainFail, Complete
    <3>3. CASE Pending(i, s)
      <4>1. Pending(i, s)' \/ (io.request.irp = i /\ io.request.sector = s /\ Accessed)
        BY <1>2, <2>2, <3>2, <3>3, PendingMoves
      <4>2. Accessed => io'.pc = "accessed" /\ io'.request = io.request
        BY AccessedMoves
      <4>. QED
        BY <4>1, <4>2
    <3>4. CASE Reading(io, i, s)
      <4>1. io'.request = io.request /\ (io'.pc = "accessed" \/ IoReadDone)
        BY <2>2, <3>4, AccessedMoves
      <4>2. ASSUME IoReadDone PROVE io.request \in ToDecrypt'
        BY <4>1, <4>2 DEF IInv, Types, IoType, IoReadDone, ToDecrypt, InDeliver
      <4>. QED
        BY <3>4, <4>1, <4>2
    <3>5. CASE CompletionDecrypt /\ completion.request.irp = i /\ completion.request.sector = s
      BY <1>2, <2>2, <3>1, <3>5, ReadEnds
    <3>6. CASE Moving(ToDecrypt, i, s) /\ ~(CompletionDecrypt /\ completion.request.irp = i
                                                /\ completion.request.sector = s)
      <4>1. PICK r \in ToDecrypt : r.irp = i /\ r.sector = s
        BY <3>6
      <4>2. r \in ToDecrypt'
        BY <3>6, <4>1, DecryptMoves DEF ToDecrypt
      <4>. QED
        BY <4>1, <4>2
    <3>7. CASE /\ Read(log, irp, got, i, s)
               /\ ~(CompletionDecrypt /\ completion.request.irp = i /\ completion.request.sector = s)
      <4>1. CASE got'[i][s] = got[i][s]
        BY <1>2, <3>7, <4>1, LatestStays
      <4>2. CASE MainRead /\ main.irp = i
        BY <4>2 DEF IInv, Types, MainType, MainRead, MainAt, Pending, Popping
      <4>3. CASE IoReadDone /\ io.request.irp = i /\ io.request.sector = s
        <5>1. io.request \in ToDecrypt'
          BY <4>3 DEF IInv, Types, IoType, IoReadDone, ToDecrypt, InDeliver
        <5>. QED
          BY <4>3, <5>1
      <4>. QED
        BY <2>2, <2>4, <3>7, <4>1, <4>2, <4>3, GotMoves
    <3>8. Pending(i, s) \/ Reading(io, i, s) \/ Moving(ToDecrypt, i, s) \/ Read(log, irp, got, i, s)
      BY <1>2, <2>2, <3>1 DEF AllRead
    <3>. QED
      BY <3>3, <3>4, <3>5, <3>6, <3>7, <3>8
  <2>. QED
    BY <2>3, <2>4
<1>. QED
  BY <1>1, <1>2, AcceptedMoves

\* At first nothing has been read.
LEMMA InitReturning == Init => Returning
<1>. SUFFICES ASSUME Init PROVE Returning
  OBVIOUS
<1>1. /\ main.pc = "wait" /\ io.pc = "wait" /\ completion.pc = "wait" /\ completionQueue = <<>>
      /\ \A i \in Irps : irp[i].at = "new"
      /\ readAhead = NoReadAhead
  BY DEF Init
<1>2. ToDecrypt = {}
  BY <1>1 DEF ToDecrypt, InDeliver, InDecrypt, InCompletionQueue
<1>. QED
  BY <1>1, <1>2 DEF Returning, Cache, NoReadAhead, DirectRead, FragmentRead, TransitRead, AllRead,
     AtAccepted, Working

\* Returning, by which what a read has is the latest at every stage: on the device or in
\* the read-ahead buffer, in the fragment buffer and in the requester's.
THEOREM ReturningInvariant == Spec => []Returning
<1>1. IInv /\ Delivering /\ Returning /\ [Next]_vars => Returning'
  BY CacheStep, DirectReadStep, FragmentReadStep, TransitReadStep, AllReadStep DEF Returning, Delivering
<1>. QED
  BY <1>1, InitReturning, Invariant, DeliveringInvariant, PTL DEF Spec

\* A completed read has nothing pending and nothing in transit.
LEMMA ReturnedLatest == IInv /\ Returning => ReadsLatest
<1>. SUFFICES ASSUME IInv, Returning, NEW i \in Irps, Happened(<<"completed", i>>), ~Writes(i),
                     ~Failed(i), NEW s \in SectorsOf(i)
              PROVE  /\ ~got[i][s].encrypted
                     /\ NotOlder(got[i][s].writer, s, <<"accepted", i>>)
  BY DEF ReadsLatest
<1>1. irp[i].at \in AtCompleted
  BY DEF IInv, Logged, Happened, Logs
<1>2. irp[i].at # "queued" /\ irp[i].at \in AtAccepted
  BY <1>1 DEF AtCompleted, AtAccepted, Working
<1>3. ~Pending(i, s)
  BY <1>2, AccessSound DEF Pending, IInv, MainHas, Sound
<1>4. ~(io.pc = "accessed" /\ io.request.irp = i)
  BY <1>2 DEF IInv, IoHas, IoBusy, Sound
<1>5. \A r \in ToDecrypt : r.irp # i
  BY <1>2, DecryptSound DEF Sound
<1>6. Latest(log, irp, got[i][s], s, i) /\ ~got[i][s].encrypted
  BY <1>2, <1>3, <1>4, <1>5 DEF Returning, AllRead
<1>7. ASSUME NEW v \in Irps, WritesSector(v, s), ~Failed(v),
             Before(<<"completed", v>>, <<"accepted", i>>)
      PROVE  /\ got[i][s].writer # NoIrp
             /\ ~Before(<<"accepted", got[i][s].writer>>, <<"accepted", v>>)
  <2>1. /\ WritesIn(irp, v, s) /\ irp[v].status = "success"
        /\ Earlier(log, <<"completed", v>>, <<"accepted", i>>)
    BY <1>7 DEF WritesSector, WritesIn, Writes, SectorsOf, Failed, Before, Earlier
  <2>2. got[i][s].writer \in Irps /\ NotLater(log, v, got[i][s].writer)
    BY <1>6, <2>1 DEF Latest
  <2>3. ~Sooner(log, got[i][s].writer, v)
    BY <2>2, SoonerStrict DEF NotLater, IInv, Types
  <2>. QED
    BY <2>2, <2>3, QueueAssumption DEF Before, Sooner
<1>. QED
  BY <1>6, <1>7 DEF NotOlder

\* WritesLand: a write that has been completed with success is on the device, or a
\* write accepted later is.
THEOREM WritesReachTheDevice == Spec => []WritesLand
BY Invariant, DeliveringInvariant, DeliveredLands, PTL

\* ProtectionHolds: no protected sector is written, and once a write to a volume has
\* been denied no write accepted after it reaches the device.
THEOREM ProtectedStaysProtected == Spec => []ProtectionHolds
BY Invariant, DeliveringInvariant, DeliveredProtects, PTL

\* ReadsLatest: a read that succeeds returns decrypted data, in each sector none older
\* than the last write completed before the read was accepted.
THEOREM ReadsAreCurrent == Spec => []ReadsLatest
BY Invariant, ReturningInvariant, ReturnedLatest, PTL
=============================================================================
