-------------------------- MODULE EncryptedIoQueue --------------------------
(***************************************************************************)
(* The I/O queue of a mounted volume or of the filtered system drive       *)
(* (src/Driver/EncryptedIoQueue.c).                                        *)
(*                                                                         *)
(* A request (IRP) that AddIrp accepts passes through three threads.  The  *)
(* main thread takes an item from a pool, cuts the request into fragments, *)
(* encrypts what is to be written and hands each fragment, in one of two   *)
(* fragment buffers, to the I/O thread.  The I/O thread reads or writes    *)
(* the device; it hands reads to the completion thread, which decrypts     *)
(* them, and it may read ahead.  Whoever finishes the last fragment of a   *)
(* request has a system work item complete it.                             *)
(*                                                                         *)
(* A thread that transforms the drive in place (DriveFilter.c) first holds *)
(* the queue, that is, waits until no request is outstanding and keeps the *)
(* main thread from starting another.  Stop ends the threads and frees     *)
(* everything.                                                             *)
(*                                                                         *)
(* The unit of the model is a sector, and a fragment is one sector.  What  *)
(* a sector holds is the request that wrote it and whether it is           *)
(* encrypted.  Events are members of the set signalled while they are set; *)
(* all but NoActiveWorkItemsEvent are auto-reset.                          *)
(***************************************************************************)
EXTENDS Integers, Sequences, FiniteSets

CONSTANTS
    Irps,           \* the requests
    Ops,            \* what a request may ask for
    SectorCount,    \* sectors of the device
    Items,          \* preallocated EncryptedIoQueueItem buffers
    Requests,       \* preallocated EncryptedIoRequest buffers
    WorkItems,      \* MaxWorkItems
    IsFilterDevice, \* the queue of the system drive, not of a volume
    Protected,      \* the sectors refused to writes: the header's sectors
                    \* of the drive, or the protected hidden volume
    InitialEnds,    \* where the encrypted area of a drive may end at first
    MaxHolds,       \* bound on the number of holds
    MayStop,        \* whether Stop is called
    MayFail,        \* whether a request may fail or be cancelled
    NoIrp           \* the writer of the initial contents

Sectors == 0 .. SectorCount - 1
Operation == [write : BOOLEAN, first : Sectors, last : Sectors,
              misaligned : BOOLEAN]

\* Start allocates at least one buffer of each size.  Only reads of the
\* filter device may be misaligned (lines 724 to 728), and only its queue is
\* ever held: DriveFilter.c alone calls HoldWhenIdle.
ASSUME QueueAssumption ==
    /\ SectorCount \in Nat \ {0} /\ Items \in Nat \ {0}
    /\ Requests \in Nat \ {0} /\ WorkItems \in Nat \ {0}
    /\ Ops \subseteq {o \in Operation : /\ o.first <= o.last
                                        /\ o.misaligned => IsFilterDevice /\ ~o.write}
    /\ Protected \subseteq Sectors
    /\ InitialEnds \subseteq -1 .. SectorCount - 1
    /\ IsFilterDevice \in BOOLEAN /\ MayStop \in BOOLEAN /\ MayFail \in BOOLEAN
    /\ MaxHolds \in Nat /\ (~IsFilterDevice => MaxHolds = 0)
    /\ NoIrp \notin Irps

VARIABLES
    signalled,          \* the events that are set
    outstanding,        \* OutstandingIoCount
    pendingRequests,    \* IoThreadPendingRequestCount
    activeWorkItems,    \* ActiveWorkItems
    permits,            \* count of WorkItemSemaphore
    itemsInUse, requestsInUse,                  \* buffers of the pool in use
    mainQueue, ioQueue, completionQueue,        \* the three lists
    suspended, suspendPending, stopPending, exitRequested,  \* the flags
    protectionAction,   \* CryptoInfo->bHiddenVolProtectionAction
    disk,               \* the device, sector by sector
    encryptedEnd,       \* EncryptedAreaEnd; the area starts at sector 0
    fragment,           \* FragmentBufferA and FragmentBufferB
    readAhead,          \* ReadAheadBufferValid, ReadAheadOffset and the buffer
    lastRead,           \* LastReadOffset
    main, io, completion, \* the threads: next step and locals
    hold, holds,        \* the holder's next step; the holds so far
    stop,               \* the next step of Stop
    irp,                \* each request: its operation, progress and status
    got,                \* what a read returned, sector by sector
    log                 \* history: requests accepted and completed, in order

queues    == <<mainQueue, ioQueue, completionQueue>>
pools     == <<itemsInUse, requestsInUse>>
workItems == <<activeWorkItems, permits>>
flags     == <<suspended, suspendPending, stopPending, exitRequested>>
device    == <<disk, encryptedEnd, readAhead, lastRead>>
threads   == <<main, io, completion>>
callers   == <<hold, holds, stop>>
requests  == <<irp, got, log>>
vars == <<signalled, outstanding, pendingRequests, workItems, pools, queues,
          flags, protectionAction, device, fragment, threads, callers, requests>>

\* For each part of the code, what it never changes (Frame), and what it may
\* change besides its next step and the events (Rest).
addFrame == <<pendingRequests, workItems, pools, ioQueue, completionQueue,
              flags, protectionAction, device, fragment, threads, callers, got>>
mainFrame == <<workItems, completionQueue, flags, device, io, completion,
               callers>>
mainRest == <<outstanding, pendingRequests, pools, mainQueue, ioQueue,
              protectionAction, fragment, requests>>
ioFrame == <<itemsInUse, mainQueue, flags, protectionAction, encryptedEnd,
             main, completion, callers, log>>
ioRest == <<outstanding, pendingRequests, workItems, requestsInUse, ioQueue,
            completionQueue, disk, readAhead, lastRead, fragment, irp, got>>
completionFrame == <<outstanding, pendingRequests, itemsInUse, mainQueue,
                     ioQueue, flags, protectionAction, device, fragment, main,
                     io, callers, log>>
completionRest == <<workItems, requestsInUse, completionQueue, irp, got>>
workFrame == <<pendingRequests, requestsInUse, queues, flags,
               protectionAction, device, fragment, threads, callers, got>>
holdFrame == <<outstanding, pendingRequests, workItems, pools, queues,
               stopPending, exitRequested, protectionAction, lastRead,
               fragment, threads, stop, requests>>
holdRest == <<suspended, suspendPending, disk, encryptedEnd, readAhead, holds>>
stopFrame == <<outstanding, pendingRequests, workItems, pools, queues,
               suspended, suspendPending, protectionAction, device, fragment,
               threads, hold, holds, requests>>

Blank == [writer |-> NoIrp, encrypted |-> FALSE]
NoReadAhead == [valid |-> FALSE, sector |-> 0, data |-> Blank]
Buffers == {"A", "B"}
Other(b) == IF b = "A" THEN "B" ELSE "A"

\* A request not yet made, and placeholders for locals that hold no value.
SomeOp == [write |-> FALSE, first |-> 0, last |-> 0, misaligned |-> FALSE]
SomeRequest(i) == [irp |-> i, sector |-> 0, buffer |-> "A", last |-> FALSE,
                   encrypted |-> FALSE]

SectorsOf(i) == irp[i].op.first .. irp[i].op.last
Writes(i) == irp[i].op.write
Failed(i) == irp[i].status # "success"

\* A sector is encrypted on the device when it lies in the encrypted area
\* (GetIntersection with the area); a volume is encrypted everywhere.
InEncryptedArea(s) == ~IsFilterDevice \/ s <= encryptedEnd

\* After a successful Start.
Init ==
    /\ signalled = {"A", "B"}
    /\ outstanding = 0 /\ pendingRequests = 0
    /\ activeWorkItems = 0 /\ permits = WorkItems
    /\ itemsInUse = 0 /\ requestsInUse = 0
    /\ mainQueue = <<>> /\ ioQueue = <<>> /\ completionQueue = <<>>
    /\ suspended = FALSE /\ suspendPending = FALSE
    /\ stopPending = FALSE /\ exitRequested = FALSE
    /\ protectionAction = FALSE
    /\ encryptedEnd \in InitialEnds
    /\ disk = [s \in Sectors |-> [writer |-> NoIrp, encrypted |-> InEncryptedArea(s)]]
    /\ fragment = [b \in Buffers |-> Blank]
    /\ readAhead = NoReadAhead
    /\ lastRead = 0
    /\ \E i \in Irps :
           /\ main = [pc |-> "wait", irp |-> i, sector |-> 0, buffer |-> "A",
                      encrypted |-> FALSE]
           /\ io = [pc |-> "wait", request |-> SomeRequest(i), ahead |-> FALSE]
           /\ completion = [pc |-> "wait", request |-> SomeRequest(i)]
    /\ hold = [pc |-> "idle", timed |-> FALSE] /\ holds = 0
    /\ stop = "idle"
    /\ irp = [i \in Irps |-> [op |-> SomeOp, at |-> "new", status |-> "success"]]
    /\ got = [i \in Irps |-> [s \in Sectors |-> Blank]]
    /\ log = <<>>

-----------------------------------------------------------------------------
(* Events, and the count of outstanding requests *)

Set(e) == signalled' = signalled \cup {e}
Wait(e) == e \in signalled /\ signalled' = signalled \ {e}

\* DecrementOutstandingIoCount is two steps: the decrement, and, by whoever
\* brought the count to zero, the test of the flags with KeSetEvent.
Uncount == outstanding' = outstanding - 1
LastOutstanding == outstanding = 1
SignalNoOutstanding ==
    signalled' = IF suspendPending \/ stopPending
                 THEN signalled \cup {"NoOutstandingIo"} ELSE signalled

At(i, from, to) == irp[i].at = from /\ irp' = [irp EXCEPT ![i].at = to]

-----------------------------------------------------------------------------
(* EncryptedIoQueueAddIrp *)

\* The request is counted before StopPending is read.
AddCount(i) ==
    /\ irp[i].at = "new"
    /\ \E o \in Ops :
           irp' = [irp EXCEPT ![i] = [op |-> o, at |-> "counted", status |-> "success"]]
    /\ outstanding' = outstanding + 1
    /\ UNCHANGED <<addFrame, signalled, mainQueue, log>>

\* if (queue->StopPending) goto err, then IoAcquireRemoveLock, which fails
\* once the device is being removed.
AddTest(i) ==
    /\ \/ At(i, "counted", "admitted") /\ ~stopPending
       \/ At(i, "counted", "refusing") /\ (stopPending \/ MayFail)
    /\ UNCHANGED <<addFrame, signalled, outstanding, mainQueue, log>>

\* Mutant of AddQueue: the request is inserted at the head of the list.
AddQueueFirst(i) ==
    /\ At(i, "admitted", "queued")
    /\ mainQueue' = <<i>> \o mainQueue
    /\ Set("MainQueue")
    /\ log' = Append(log, <<"accepted", i>>)
    /\ UNCHANGED <<addFrame, outstanding>>

AddQueue(i) ==
    /\ At(i, "admitted", "queued")
    /\ mainQueue' = Append(mainQueue, i)
    /\ Set("MainQueue")
    /\ log' = Append(log, <<"accepted", i>>)
    /\ UNCHANGED <<addFrame, outstanding>>

AddRefuse(i) ==
    /\ At(i, "refusing", IF LastOutstanding THEN "refusalSignal" ELSE "refused")
    /\ Uncount
    /\ UNCHANGED <<addFrame, signalled, mainQueue, log>>

AddRefuseSignal(i) ==
    /\ At(i, "refusalSignal", "refused")
    /\ SignalNoOutstanding
    /\ UNCHANGED <<addFrame, outstanding, mainQueue, log>>

AddIrp(i) == AddCount(i) \/ AddTest(i) \/ AddQueue(i) \/ AddRefuse(i) \/ AddRefuseSignal(i)

-----------------------------------------------------------------------------
(* MainThreadProc *)

MainAt(from, to) == main.pc = from /\ main' = [main EXCEPT !.pc = to]

\* The list is empty: leave if ThreadExitRequested, else wait again.
MainEmpty ==
    /\ mainQueue = <<>>
    /\ MainAt("pop", IF exitRequested THEN "exited" ELSE "wait")
    /\ UNCHANGED <<mainFrame, mainRest, signalled>>

MainWait ==
    /\ MainAt("wait", "pop")
    /\ Wait("MainQueue")
    /\ UNCHANGED <<mainFrame, mainRest>>

MainPop ==
    /\ main.pc = "pop" /\ mainQueue # <<>>
    /\ main' = [main EXCEPT !.pc = "popped", !.irp = Head(mainQueue)]
    /\ mainQueue' = Tail(mainQueue)
    /\ UNCHANGED <<mainFrame, signalled, outstanding, pendingRequests, pools,
                   ioQueue, protectionAction, fragment, requests>>

\* Mutant of MainTestSuspended: a popped request does not wait for the holder.
MainIgnoreSuspended ==
    /\ MainAt("popped", "item")
    /\ UNCHANGED <<mainFrame, mainRest, signalled>>

MainTestSuspended ==
    /\ MainAt("popped", IF suspended THEN "held" ELSE "item")
    /\ UNCHANGED <<mainFrame, mainRest, signalled>>

MainHeld ==
    /\ MainAt("held", "item")
    /\ Wait("QueueResumed")
    /\ UNCHANGED <<mainFrame, mainRest>>

\* GetPoolBuffer for an item: take a free one, or wait for PoolBufferFreeEvent
\* and look again.
MainGetItem ==
    /\ \/ /\ itemsInUse < Items
          /\ MainAt("item", "dispatch")
          /\ itemsInUse' = itemsInUse + 1
       \/ /\ itemsInUse = Items
          /\ MainAt("item", "itemWait")
          /\ UNCHANGED itemsInUse
    /\ UNCHANGED <<mainFrame, signalled, outstanding, pendingRequests,
                   requestsInUse, mainQueue, ioQueue, protectionAction,
                   fragment, requests>>

MainWaitPool ==
    /\ MainAt("itemWait", "item") \/ MainAt("requestWait", "request")
    /\ Wait("PoolBufferFree")
    /\ UNCHANGED <<mainFrame, mainRest>>

\* CompleteOriginalIrp on the main thread is three steps: complete the
\* request, DecrementOutstandingIoCount, free the item.
Complete(i, status) ==
    /\ irp' = [irp EXCEPT ![i].at = "completed", ![i].status = status]
    /\ log' = Append(log, <<"completed", i>>)

\* A write that touches a protected sector is refused; on a volume it also
\* makes every later write fail.
Refused(i) ==
    /\ Writes(i)
    /\ protectionAction \/ SectorsOf(i) \cap Protected # {}

\* Mutant of MainRefuse: a refused write does not make the later ones fail.
MainRefuseOnce ==
    /\ MainAt("dispatch", "uncount")
    /\ Refused(main.irp)
    /\ Complete(main.irp, "denied")
    /\ UNCHANGED <<mainFrame, signalled, outstanding, pendingRequests, pools,
                   mainQueue, ioQueue, protectionAction, fragment, got>>

MainRefuse ==
    /\ MainAt("dispatch", "uncount")
    /\ Refused(main.irp)
    /\ protectionAction' = (protectionAction \/ ~IsFilterDevice)
    /\ Complete(main.irp, "denied")
    /\ UNCHANGED <<mainFrame, signalled, outstanding, pendingRequests, pools,
                   mainQueue, ioQueue, fragment, got>>

\* The request was cancelled, is invalid, or its memory cannot be mapped.
MainFail ==
    /\ MayFail
    /\ MainAt("dispatch", "uncount")
    /\ Complete(main.irp, "error")
    /\ UNCHANGED <<mainFrame, signalled, outstanding, pendingRequests, pools,
                   mainQueue, ioQueue, protectionAction, fragment, got>>

\* A misaligned read of the drive: the main thread reads the device itself,
\* decrypts what lies in the encrypted area and completes the request.
MainRead ==
    /\ irp[main.irp].op.misaligned
    /\ MainAt("dispatch", "direct")
    /\ got' = [got EXCEPT ![main.irp] =
                  [s \in Sectors |-> IF s \in SectorsOf(main.irp) THEN disk[s] ELSE @[s]]]
    /\ UNCHANGED <<mainFrame, signalled, outstanding, pendingRequests, pools,
                   mainQueue, ioQueue, protectionAction, fragment, irp, log>>

Decrypted(c) == [c EXCEPT !.encrypted = ~@]

MainReadDone ==
    /\ MainAt("direct", "uncount")
    /\ got' = [got EXCEPT ![main.irp] =
                  [s \in Sectors |-> IF s \in SectorsOf(main.irp) /\ InEncryptedArea(s)
                                     THEN Decrypted(@[s]) ELSE @[s]]]
    /\ Complete(main.irp, "success")
    /\ UNCHANGED <<mainFrame, signalled, outstanding, pendingRequests, pools,
                   mainQueue, ioQueue, protectionAction, fragment>>

MainUncount ==
    /\ MainAt("uncount", IF LastOutstanding THEN "signal" ELSE "freeItem")
    /\ Uncount
    /\ UNCHANGED <<mainFrame, signalled, pendingRequests, pools, mainQueue,
                   ioQueue, protectionAction, fragment, requests>>

MainSignal ==
    /\ MainAt("signal", "freeItem")
    /\ SignalNoOutstanding
    /\ UNCHANGED <<mainFrame, mainRest>>

MainFreeItem ==
    /\ MainAt("freeItem", "pop")
    /\ irp' = [irp EXCEPT ![main.irp].at = "done"]
    /\ itemsInUse' = itemsInUse - 1
    /\ Set("PoolBufferFree")
    /\ UNCHANGED <<mainFrame, outstanding, pendingRequests, requestsInUse,
                   mainQueue, ioQueue, protectionAction, fragment, got, log>>

\* An admissible request is cut into fragments.
MainAccept ==
    /\ ~irp[main.irp].op.misaligned /\ ~Refused(main.irp)
    /\ main.pc = "dispatch"
    /\ main' = [main EXCEPT !.pc = "fragment", !.sector = irp[main.irp].op.first]
    /\ UNCHANGED <<mainFrame, mainRest, signalled>>

MainFragment ==
    /\ main.pc = "fragment"
    /\ main' = [main EXCEPT !.pc = "request", !.buffer = Other(@)]
    /\ pendingRequests' = pendingRequests + 1
    /\ UNCHANGED <<mainFrame, signalled, outstanding, pools, mainQueue, ioQueue,
                   protectionAction, fragment, requests>>

\* GetPoolBuffer for a request; the fragment's part of the encrypted area is
\* fixed here.
MainGetRequest ==
    /\ main.pc = "request"
    /\ \/ /\ requestsInUse < Requests
          /\ main' = [main EXCEPT !.pc = "acquire",
                                !.encrypted = InEncryptedArea(main.sector)]
          /\ requestsInUse' = requestsInUse + 1
       \/ /\ requestsInUse = Requests
          /\ main' = [main EXCEPT !.pc = "requestWait"]
          /\ UNCHANGED requestsInUse
    /\ UNCHANGED <<mainFrame, signalled, outstanding, pendingRequests,
                   itemsInUse, mainQueue, ioQueue, protectionAction, fragment,
                   requests>>

Encrypt == fragment' = [fragment EXCEPT ![main.buffer] =
                           IF Writes(main.irp)
                           THEN [writer |-> main.irp, encrypted |-> main.encrypted]
                           ELSE @]

\* Mutant of MainAcquire: the fragment buffer is taken without waiting for it.
MainAcquireBusy ==
    /\ MainAt("acquire", "push")
    /\ signalled' = signalled \ {main.buffer}
    /\ Encrypt
    /\ UNCHANGED <<mainFrame, outstanding, pendingRequests, pools, mainQueue,
                   ioQueue, protectionAction, requests>>

\* AcquireFragmentBuffer, then copy and encrypt what is to be written.
MainAcquire ==
    /\ MainAt("acquire", "push")
    /\ Wait(main.buffer)
    /\ Encrypt
    /\ UNCHANGED <<mainFrame, outstanding, pendingRequests, pools, mainQueue,
                   ioQueue, protectionAction, requests>>

MainPush ==
    /\ main.pc = "push"
    /\ LET last == main.sector = irp[main.irp].op.last IN
           /\ ioQueue' = Append(ioQueue, [irp |-> main.irp, sector |-> main.sector,
                                          buffer |-> main.buffer, last |-> last,
                                          encrypted |-> main.encrypted])
           /\ main' = IF last THEN [main EXCEPT !.pc = "pop"]
                      ELSE [main EXCEPT !.pc = "fragment", !.sector = @ + 1]
    /\ Set("IoQueue")
    /\ UNCHANGED <<mainFrame, outstanding, pendingRequests, pools, mainQueue,
                   protectionAction, fragment, requests>>

Main == \/ MainEmpty \/ MainWait \/ MainPop \/ MainTestSuspended \/ MainHeld
        \/ MainGetItem \/ MainWaitPool \/ MainRefuse \/ MainFail \/ MainRead
        \/ MainReadDone \/ MainUncount \/ MainSignal \/ MainFreeItem \/ MainAccept
        \/ MainFragment \/ MainGetRequest \/ MainAcquire \/ MainPush

-----------------------------------------------------------------------------
(* IoThreadProc *)

IoAt(from, to) == io.pc = from /\ io' = [io EXCEPT !.pc = to]
Current == io.request

IoWait ==
    /\ IoAt("wait", IF exitRequested THEN "exited" ELSE "pop")
    /\ Wait("IoQueue")
    /\ UNCHANGED <<ioFrame, ioRest>>

IoEmpty ==
    /\ ioQueue = <<>>
    /\ IoAt("pop", IF exitRequested THEN "exited" ELSE "wait")
    /\ UNCHANGED <<ioFrame, ioRest, signalled>>

IoPop ==
    /\ io.pc = "pop" /\ ioQueue # <<>>
    /\ io' = [io EXCEPT !.pc = "access", !.request = Head(ioQueue)]
    /\ ioQueue' = Tail(ioQueue)
    /\ pendingRequests' = pendingRequests - 1
    /\ UNCHANGED <<ioFrame, signalled, outstanding, workItems, requestsInUse,
                   completionQueue, disk, readAhead, lastRead, fragment, irp,
                   got>>

\* After a failure of the same request nothing more is done to the device.
IoSkip ==
    /\ Failed(Current.irp)
    /\ IoAt("access", "accessed")
    /\ UNCHANGED <<ioFrame, ioRest, signalled>>

IoFail ==
    /\ MayFail /\ ~Failed(Current.irp)
    /\ IoAt("access", "accessed")
    /\ irp' = [irp EXCEPT ![Current.irp].status = "error"]
    /\ UNCHANGED <<ioFrame, signalled, outstanding, pendingRequests, workItems,
                   requestsInUse, ioQueue, completionQueue, disk, readAhead,
                   lastRead, fragment, got>>

IoWrite ==
    /\ Writes(Current.irp) /\ ~Failed(Current.irp)
    /\ IoAt("access", "accessed")
    /\ disk' = [disk EXCEPT ![Current.sector] = fragment[Current.buffer]]
    /\ UNCHANGED <<ioFrame, signalled, outstanding, pendingRequests, workItems,
                   requestsInUse, ioQueue, completionQueue, readAhead, lastRead,
                   fragment, irp, got>>

\* TCCachedRead: from the read-ahead buffer if it holds the sector.
Cached(s) == readAhead.valid /\ readAhead.sector = s

IoRead ==
    /\ ~Writes(Current.irp) /\ ~Failed(Current.irp)
    /\ IoAt("access", "accessed")
    /\ fragment' = [fragment EXCEPT ![Current.buffer] =
                       IF Cached(Current.sector) THEN readAhead.data
                       ELSE disk[Current.sector]]
    /\ lastRead' = Current.sector
    /\ UNCHANGED <<ioFrame, signalled, outstanding, pendingRequests, workItems,
                   requestsInUse, ioQueue, completionQueue, disk, readAhead,
                   irp, got>>

IoWritten ==
    /\ Writes(Current.irp)
    /\ IoAt("accessed", IF Current.last THEN "complete" ELSE "free")
    /\ readAhead' = NoReadAhead
    /\ Set(Current.buffer)
    /\ UNCHANGED <<ioFrame, outstanding, pendingRequests, workItems,
                   requestsInUse, ioQueue, completionQueue, disk, lastRead,
                   fragment, irp, got>>

\* The read data moves to the requester's buffer and the fragment buffer is
\* released.  After the last fragment of a request, when the I/O thread has
\* nothing else to do, it will read ahead, and counts itself as outstanding
\* before the completion thread can finish the request.
ReadsAhead == /\ Current.last /\ ~Failed(Current.irp) /\ pendingRequests = 0
Received == got' = [got EXCEPT ![Current.irp][Current.sector] =
                       IF Failed(Current.irp) THEN @ ELSE fragment[Current.buffer]]

\* Mutant of IoReadDone: the read-ahead is not counted as outstanding.
IoReadUncounted ==
    /\ ~Writes(Current.irp) /\ io.pc = "accessed"
    /\ io' = [io EXCEPT !.pc = "deliver", !.ahead = ReadsAhead]
    /\ Received
    /\ Set(Current.buffer)
    /\ UNCHANGED <<ioFrame, outstanding, pendingRequests, workItems,
                   requestsInUse, ioQueue, completionQueue, disk, readAhead,
                   lastRead, fragment, irp>>

IoReadDone ==
    /\ ~Writes(Current.irp) /\ io.pc = "accessed"
    /\ io' = [io EXCEPT !.pc = "deliver", !.ahead = ReadsAhead]
    /\ Received
    /\ Set(Current.buffer)
    /\ outstanding' = IF ReadsAhead THEN outstanding + 1 ELSE outstanding
    /\ UNCHANGED <<ioFrame, pendingRequests, workItems, requestsInUse, ioQueue,
                   completionQueue, disk, readAhead, lastRead, fragment, irp>>

IoDeliver ==
    /\ io.pc = "deliver"
    /\ io' = [io EXCEPT !.pc = IF io.ahead THEN "ahead" ELSE "pop", !.ahead = FALSE]
    /\ completionQueue' = Append(completionQueue, Current)
    /\ Set("CompletionQueue")
    /\ UNCHANGED <<ioFrame, outstanding, pendingRequests, workItems,
                   requestsInUse, ioQueue, disk, readAhead, lastRead, fragment,
                   irp, got>>

\* Read the sector after the last one read, if the device has it.
IoReadAhead ==
    /\ IoAt("ahead", "aheadDone")
    /\ \E ok \in {lastRead + 1 < SectorCount} \cup (IF MayFail THEN {FALSE} ELSE {}) :
           readAhead' = IF ok THEN [valid |-> TRUE, sector |-> lastRead + 1,
                                    data |-> disk[lastRead + 1]]
                        ELSE NoReadAhead
    /\ UNCHANGED <<ioFrame, signalled, outstanding, pendingRequests, workItems,
                   requestsInUse, ioQueue, completionQueue, disk, lastRead,
                   fragment, irp, got>>

IoUncount ==
    /\ IoAt("aheadDone", IF LastOutstanding THEN "aheadSignal" ELSE "pop")
    /\ Uncount
    /\ UNCHANGED <<ioFrame, signalled, pendingRequests, workItems,
                   requestsInUse, ioQueue, completionQueue, disk, readAhead,
                   lastRead, fragment, irp, got>>

IoSignal ==
    /\ IoAt("aheadSignal", "pop")
    /\ SignalNoOutstanding
    /\ UNCHANGED <<ioFrame, ioRest>>

IoFreeRequest ==
    /\ IoAt("free", "pop")
    /\ requestsInUse' = requestsInUse - 1
    /\ Set("PoolBufferFree")
    /\ UNCHANGED <<ioFrame, outstanding, pendingRequests, workItems, ioQueue,
                   completionQueue, disk, readAhead, lastRead, fragment, irp,
                   got>>

-----------------------------------------------------------------------------
(* HandleCompleteOriginalIrp, on the I/O thread for a write, on the         *)
(* completion thread for a read                                            *)

\* Wait for WorkItemSemaphore.
TakeWorkItem == permits > 0 /\ permits' = permits - 1

\* Unless the threads are told to exit, queue the work item.
Hand(i) ==
    IF exitRequested THEN UNCHANGED <<activeWorkItems, signalled, irp>>
    ELSE /\ activeWorkItems' = activeWorkItems + 1
         /\ signalled' = signalled \ {"NoActiveWorkItems"}
         /\ irp' = [irp EXCEPT ![i].at = "handed"]

IoTakeWorkItem ==
    /\ IoAt("complete", "hand")
    /\ TakeWorkItem
    /\ UNCHANGED <<ioFrame, signalled, outstanding, pendingRequests,
                   activeWorkItems, requestsInUse, ioQueue, completionQueue,
                   disk, readAhead, lastRead, fragment, irp, got>>

IoHand ==
    /\ IoAt("hand", "free")
    /\ Hand(Current.irp)
    /\ UNCHANGED <<ioFrame, outstanding, pendingRequests, permits,
                   requestsInUse, ioQueue, completionQueue, disk, readAhead,
                   lastRead, fragment, got>>

Io == \/ IoWait \/ IoEmpty \/ IoPop \/ IoSkip \/ IoFail \/ IoWrite \/ IoRead
      \/ IoWritten \/ IoReadDone \/ IoDeliver \/ IoReadAhead \/ IoUncount
      \/ IoSignal \/ IoFreeRequest \/ IoTakeWorkItem \/ IoHand

-----------------------------------------------------------------------------
(* CompletionThreadProc *)

CompletionAt(from, to) ==
    completion.pc = from /\ completion' = [completion EXCEPT !.pc = to]
Finishing == completion.request

CompletionWait ==
    /\ CompletionAt("wait", IF exitRequested THEN "exited" ELSE "pop")
    /\ Wait("CompletionQueue")
    /\ UNCHANGED <<completionFrame, completionRest>>

CompletionEmpty ==
    /\ completionQueue = <<>>
    /\ CompletionAt("pop", IF exitRequested THEN "exited" ELSE "wait")
    /\ UNCHANGED <<completionFrame, completionRest, signalled>>

CompletionPop ==
    /\ completion.pc = "pop" /\ completionQueue # <<>>
    /\ completion' = [pc |-> "decrypt", request |-> Head(completionQueue)]
    /\ completionQueue' = Tail(completionQueue)
    /\ UNCHANGED <<completionFrame, signalled, workItems, requestsInUse, irp,
                   got>>

\* Decrypt what was in the encrypted area when the main thread made the
\* request, unless the request has failed.
CompletionDecrypt ==
    /\ CompletionAt("decrypt", IF Finishing.last THEN "complete" ELSE "free")
    /\ got' = IF Finishing.encrypted /\ ~Failed(Finishing.irp)
              THEN [got EXCEPT ![Finishing.irp][Finishing.sector] = Decrypted(@)]
              ELSE got
    /\ UNCHANGED <<completionFrame, signalled, workItems, requestsInUse,
                   completionQueue, irp>>

CompletionTakeWorkItem ==
    /\ CompletionAt("complete", "hand")
    /\ TakeWorkItem
    /\ UNCHANGED <<completionFrame, signalled, activeWorkItems, requestsInUse,
                   completionQueue, irp, got>>

CompletionHand ==
    /\ CompletionAt("hand", "free")
    /\ Hand(Finishing.irp)
    /\ UNCHANGED <<completionFrame, permits, requestsInUse, completionQueue,
                   got>>

CompletionFreeRequest ==
    /\ CompletionAt("free", "pop")
    /\ requestsInUse' = requestsInUse - 1
    /\ Set("PoolBufferFree")
    /\ UNCHANGED <<completionFrame, workItems, completionQueue, irp, got>>

Completion == \/ CompletionWait \/ CompletionEmpty \/ CompletionPop
              \/ CompletionDecrypt \/ CompletionTakeWorkItem \/ CompletionHand
              \/ CompletionFreeRequest

-----------------------------------------------------------------------------
(* CompleteIrpWorkItemRoutine *)

WorkComplete(i) ==
    /\ irp[i].at = "handed"
    /\ irp' = [irp EXCEPT ![i].at = "delivered"]
    /\ log' = Append(log, <<"completed", i>>)
    /\ UNCHANGED <<workFrame, signalled, outstanding, workItems, itemsInUse>>

WorkUncount(i) ==
    /\ At(i, "delivered", IF LastOutstanding THEN "signal" ELSE "uncounted")
    /\ Uncount
    /\ UNCHANGED <<workFrame, signalled, workItems, itemsInUse, log>>

\* Mutant of WorkSignal: nobody is told that the queue has become idle.
WorkSignalMissing(i) ==
    /\ At(i, "signal", "uncounted")
    /\ UNCHANGED <<workFrame, signalled, outstanding, workItems, itemsInUse,
                   log>>

WorkSignal(i) ==
    /\ At(i, "signal", "uncounted")
    /\ SignalNoOutstanding
    /\ UNCHANGED <<workFrame, outstanding, workItems, itemsInUse, log>>

WorkInactive(i) ==
    /\ At(i, "uncounted", IF activeWorkItems = 1 THEN "inactive" ELSE "returning")
    /\ activeWorkItems' = activeWorkItems - 1
    /\ UNCHANGED <<workFrame, signalled, outstanding, permits, itemsInUse, log>>

WorkSignalInactive(i) ==
    /\ At(i, "inactive", "returning")
    /\ Set("NoActiveWorkItems")
    /\ UNCHANGED <<workFrame, outstanding, workItems, itemsInUse, log>>

\* Return the work item to the free list and release the semaphore.
WorkReturn(i) ==
    /\ At(i, "returning", "returned")
    /\ permits' = permits + 1
    /\ UNCHANGED <<workFrame, signalled, outstanding, activeWorkItems,
                   itemsInUse, log>>

WorkFreeItem(i) ==
    /\ At(i, "returned", "done")
    /\ itemsInUse' = itemsInUse - 1
    /\ Set("PoolBufferFree")
    /\ UNCHANGED <<workFrame, outstanding, workItems, log>>

Work(i) == \/ WorkComplete(i) \/ WorkUncount(i) \/ WorkSignal(i) \/ WorkInactive(i)
           \/ WorkSignalInactive(i) \/ WorkReturn(i) \/ WorkFreeItem(i)

-----------------------------------------------------------------------------
(* EncryptedIoQueueHoldWhenIdle, what SetupThreadProc of DriveFilter.c does *)
(* while it holds the queue, and EncryptedIoQueueResumeFromHold            *)

HoldAt(from, to) == hold.pc = from /\ hold' = [hold EXCEPT !.pc = to]

\* A hold waits for the queue to become idle with or without a timeout.
HoldBegin ==
    /\ holds < MaxHolds /\ hold.pc = "idle" /\ ~stopPending
    /\ \E timed \in BOOLEAN : hold' = [pc |-> "test", timed |-> timed]
    /\ holds' = holds + 1
    /\ suspendPending' = TRUE
    /\ UNCHANGED <<holdFrame, signalled, suspended, disk, encryptedEnd,
                   readAhead>>

HoldTest ==
    /\ HoldAt("test", IF outstanding > 0 THEN "wait" ELSE "clear")
    /\ UNCHANGED <<holdFrame, holdRest, signalled>>

HoldWait ==
    /\ HoldAt("wait", "recheck")
    /\ Wait("NoOutstandingIo")
    /\ UNCHANGED <<holdFrame, holdRest>>

\* The wait timed out, or after it and a short sleep the queue is busy again.
HoldFail ==
    /\ \/ HoldAt("wait", "idle") /\ hold.timed
       \/ HoldAt("recheck", "idle") /\ outstanding > 0
    /\ suspendPending' = FALSE
    /\ UNCHANGED <<holdFrame, signalled, suspended, disk, encryptedEnd,
                   readAhead, holds>>

HoldIdle ==
    /\ outstanding = 0
    /\ HoldAt("recheck", "test")
    /\ UNCHANGED <<holdFrame, holdRest, signalled>>

HoldClear ==
    /\ HoldAt("clear", "suspend")
    /\ signalled' = signalled \ {"QueueResumed"}
    /\ UNCHANGED <<holdFrame, holdRest>>

HoldSuspend ==
    /\ HoldAt("suspend", "confirm")
    /\ suspended' = TRUE
    /\ UNCHANGED <<holdFrame, signalled, suspendPending, disk, encryptedEnd,
                   readAhead, holds>>

\* Mutant of HoldConfirm: the count is not read again after Suspended is set.
HoldUnconfirmed ==
    /\ HoldAt("confirm", "invalidate")
    /\ UNCHANGED <<holdFrame, holdRest, signalled>>

\* A request may have been counted before Suspended was set.
HoldConfirm ==
    /\ HoldAt("confirm", IF outstanding = 0 THEN "invalidate" ELSE "undo")
    /\ UNCHANGED <<holdFrame, holdRest, signalled>>

HoldUndo ==
    /\ HoldAt("undo", "undone")
    /\ suspended' = FALSE
    /\ UNCHANGED <<holdFrame, signalled, suspendPending, disk, encryptedEnd,
                   readAhead, holds>>

HoldUndone ==
    /\ HoldAt("undone", "test")
    /\ Set("QueueResumed")
    /\ UNCHANGED <<holdFrame, holdRest>>

\* Mutant of HoldDone: the read-ahead buffer stays valid across the hold.
HoldDoneCached ==
    /\ HoldAt("invalidate", "held")
    /\ suspendPending' = FALSE
    /\ UNCHANGED <<holdFrame, signalled, suspended, disk, encryptedEnd,
                   readAhead, holds>>

HoldDone ==
    /\ HoldAt("invalidate", "held")
    /\ readAhead' = NoReadAhead
    /\ suspendPending' = FALSE
    /\ UNCHANGED <<holdFrame, signalled, suspended, disk, encryptedEnd, holds>>

\* The setup thread encrypts the sector after the encrypted area, or decrypts
\* its last one; it writes the sector and then moves EncryptedAreaEnd.
SetupWrite ==
    /\ \/ /\ HoldAt("held", "encrypted") /\ encryptedEnd + 1 < SectorCount
          /\ disk' = [disk EXCEPT ![encryptedEnd + 1] = Decrypted(@)]
       \/ /\ HoldAt("held", "decrypted") /\ encryptedEnd >= 0
          /\ disk' = [disk EXCEPT ![encryptedEnd] = Decrypted(@)]
    /\ UNCHANGED <<holdFrame, signalled, suspended, suspendPending,
                   encryptedEnd, readAhead, holds>>

SetupMoveEnd ==
    /\ \/ HoldAt("encrypted", "resume") /\ encryptedEnd' = encryptedEnd + 1
       \/ HoldAt("decrypted", "resume") /\ encryptedEnd' = encryptedEnd - 1
    /\ UNCHANGED <<holdFrame, signalled, suspended, suspendPending, disk,
                   readAhead, holds>>

\* The holder may also resume without having transformed anything.
Resume ==
    /\ HoldAt("held", "resumed") \/ HoldAt("resume", "resumed")
    /\ suspended' = FALSE
    /\ UNCHANGED <<holdFrame, signalled, suspendPending, disk, encryptedEnd,
                   readAhead, holds>>

\* Mutant of ResumeSignal: the waiting main thread is not told.
ResumeSilently ==
    /\ HoldAt("resumed", "idle")
    /\ UNCHANGED <<holdFrame, holdRest, signalled>>

ResumeSignal ==
    /\ HoldAt("resumed", "idle")
    /\ Set("QueueResumed")
    /\ UNCHANGED <<holdFrame, holdRest>>

Hold == \/ HoldBegin \/ HoldTest \/ HoldWait \/ HoldFail \/ HoldIdle \/ HoldClear
        \/ HoldSuspend \/ HoldConfirm \/ HoldUndo \/ HoldUndone \/ HoldDone
        \/ SetupWrite \/ SetupMoveEnd \/ Resume \/ ResumeSignal

-----------------------------------------------------------------------------
(* EncryptedIoQueueStop.  The callers see to it that nobody holds the queue *)
(* when it is stopped: the setup thread is aborted before the driver shuts *)
(* down (Ntdriver.c, lines 551 to 557), and volumes are never held.        *)

StopAt(from, to) == stop = from /\ stop' = to

StopBegin ==
    /\ MayStop /\ hold.pc = "idle"
    /\ StopAt("idle", "test")
    /\ stopPending' = TRUE
    /\ UNCHANGED <<stopFrame, signalled, exitRequested>>

StopTest ==
    /\ StopAt("test", IF outstanding > 0 THEN "wait" ELSE "exit")
    /\ UNCHANGED <<stopFrame, signalled, stopPending, exitRequested>>

StopWait ==
    /\ \/ StopAt("wait", "test") /\ Wait("NoOutstandingIo")
       \/ StopAt("drainWait", "drain") /\ Wait("NoActiveWorkItems")
    /\ UNCHANGED <<stopFrame, stopPending, exitRequested>>

\* ThreadExitRequested, and TCStopThread for the main thread: set the event
\* it waits for, then wait for it to exit.
StopExit ==
    /\ StopAt("exit", "joinMain")
    /\ exitRequested' = TRUE
    /\ Set("MainQueue")
    /\ UNCHANGED <<stopFrame, stopPending>>

\* TCStopThread for the I/O and the completion thread, each after the join of
\* the one before; then the event of the work items is reset.
StopJoin ==
    /\ \/ StopAt("joinMain", "joinIo") /\ main.pc = "exited" /\ Set("IoQueue")
       \/ StopAt("joinIo", "joinCompletion") /\ io.pc = "exited" /\ Set("CompletionQueue")
       \/ /\ StopAt("joinCompletion", "drain") /\ completion.pc = "exited"
          /\ signalled' = signalled \ {"NoActiveWorkItems"}
    /\ UNCHANGED <<stopFrame, stopPending, exitRequested>>

\* Mutant of StopDrain: active work items are not waited for.
StopDrainNothing ==
    /\ StopAt("drain", "free")
    /\ UNCHANGED <<stopFrame, signalled, stopPending, exitRequested>>

StopDrain ==
    /\ StopAt("drain", IF activeWorkItems > 0 THEN "drainWait" ELSE "free")
    /\ UNCHANGED <<stopFrame, signalled, stopPending, exitRequested>>

\* The work items, the fragment buffers and the pools are freed.
StopFree ==
    /\ StopAt("free", "stopped")
    /\ UNCHANGED <<stopFrame, signalled, stopPending, exitRequested>>

Stop == \/ StopBegin \/ StopTest \/ StopWait \/ StopExit \/ StopJoin \/ StopDrain
        \/ StopFree

-----------------------------------------------------------------------------

Next == \/ \E i \in Irps : AddIrp(i) \/ Work(i)
        \/ Main \/ Io \/ Completion \/ Hold \/ Stop

Spec == Init /\ [][Next]_vars

\* The system schedules its threads and work items fairly; a holder does not
\* keep the queue, and a request that has been counted is added or refused.
\* Nobody must make a request, hold the queue or stop it.
FairSpec ==
    /\ Spec
    /\ WF_vars(Main) /\ WF_vars(Io) /\ WF_vars(Completion)
    /\ WF_vars(Hold /\ hold.pc # "idle")
    /\ WF_vars(Stop /\ stop # "idle")
    /\ \A i \in Irps : /\ WF_vars(Work(i))
                       /\ WF_vars(AddIrp(i) /\ irp[i].at # "new")

-----------------------------------------------------------------------------
(* Properties *)

Working ==
    {"handed", "delivered", "signal", "uncounted", "inactive", "returning", "returned"}

\* While the queue is held (HoldWhenIdle has returned success), no request
\* touches the device or a fragment buffer and nothing is read ahead: the
\* setup thread has the device and EncryptedAreaEnd to itself.
Holding == hold.pc \in {"held", "encrypted", "decrypted", "resume"}
HeldIsQuiet ==
    Holding =>
        /\ main.pc \in {"wait", "pop", "popped", "held", "signal", "freeItem", "exited"}
        /\ io.pc \in {"wait", "pop", "free", "aheadSignal", "exited"}
        /\ ioQueue = <<>> /\ completionQueue = <<>>
        /\ ~readAhead.valid

\* A sector of the drive is encrypted exactly when it lies in the encrypted
\* area, but for the one sector the setup thread has just transformed; so a
\* write never lands with the encryption of an older EncryptedAreaEnd.
DriveConsistent ==
    \A s \in Sectors :
        \/ disk[s].encrypted = InEncryptedArea(s)
        \/ hold.pc = "encrypted" /\ s = encryptedEnd + 1
        \/ hold.pc = "decrypted" /\ s = encryptedEnd

Happened(e) == \E n \in DOMAIN log : log[n] = e
Before(e, f) == \E n \in DOMAIN log, k \in DOMAIN log : n < k /\ log[n] = e /\ log[k] = f
WritesSector(w, s) == w # NoIrp /\ Writes(w) /\ s \in SectorsOf(w)

\* w, or the initial contents, is not older than a write to s that was
\* completed with success before event e.
NotOlder(w, s, e) ==
    \A v \in Irps : WritesSector(v, s) /\ ~Failed(v) /\ Before(<<"completed", v>>, e)
        => w # NoIrp /\ ~Before(<<"accepted", w>>, <<"accepted", v>>)

\* A read that succeeds returns decrypted data, and in each sector no older
\* write than the last one completed before the read was accepted; through
\* fragments, encryption, read-ahead, holds and the transformation.
ReadsLatest ==
    \A i \in Irps :
        Happened(<<"completed", i>>) /\ ~Writes(i) /\ ~Failed(i) =>
            \A s \in SectorsOf(i) : /\ ~got[i][s].encrypted
                                    /\ NotOlder(got[i][s].writer, s, <<"accepted", i>>)

\* A write completed with success is on the device, unless a write accepted
\* later has replaced it: writes reach the device in the order of acceptance.
WritesLand ==
    \A w \in Irps, s \in Sectors :
        WritesSector(w, s) /\ ~Failed(w) /\ Happened(<<"completed", w>>) =>
            /\ WritesSector(disk[s].writer, s)
            /\ ~Before(<<"accepted", disk[s].writer>>, <<"accepted", w>>)

\* No fragment buffer is used by two requests at once, nor by any while its
\* event says that it is free.
FragmentUses(b) ==
    LET InQueue == {n \in DOMAIN ioQueue : ioQueue[n].buffer = b}
        InMain  == main.pc = "push" /\ main.buffer = b
        InIo    == io.pc \in {"access", "accessed"} /\ Current.buffer = b
    IN  Cardinality(InQueue) + (IF InMain THEN 1 ELSE 0) + (IF InIo THEN 1 ELSE 0)
FragmentExclusive ==
    \A b \in Buffers : FragmentUses(b) + (IF b \in signalled THEN 1 ELSE 0) <= 1

\* OutstandingIoCount counts the requests between AddIrp and completion, and
\* the read-ahead; the items, the requests and the work items in use are
\* accounted for and no more than the pools have, so that none is lost and no
\* wait for one is in vain.
Balanced ==
    /\ activeWorkItems \in 0 .. WorkItems /\ permits \in 0 .. WorkItems
    /\ itemsInUse \in 0 .. Items /\ requestsInUse \in 0 .. Requests
    /\ outstanding =
          Cardinality({i \in Irps : irp[i].at \in {"counted", "admitted", "queued",
                                                   "refusing", "handed", "delivered"}})
          + (IF main.pc = "uncount" THEN 1 ELSE 0)
          + (IF io.pc \in {"ahead", "aheadDone"} \/ (io.pc = "deliver" /\ io.ahead)
             THEN 1 ELSE 0)
    /\ permits = WorkItems
          - Cardinality({i \in Irps : irp[i].at \in Working \ {"returned"}})
          - (IF io.pc = "hand" THEN 1 ELSE 0) - (IF completion.pc = "hand" THEN 1 ELSE 0)
    /\ requestsInUse = Len(ioQueue) + Len(completionQueue)
          + (IF main.pc \in {"acquire", "push"} THEN 1 ELSE 0)
          + (IF io.pc \in {"access", "accessed", "deliver", "complete", "hand", "free"}
             THEN 1 ELSE 0)
          + (IF completion.pc \in {"decrypt", "complete", "hand", "free"} THEN 1 ELSE 0)

\* A protected sector is never written.  Once a write to a volume has been
\* denied to protect the hidden volume, no write accepted after it reaches
\* the device: the volume looks as if it had failed altogether.
ProtectionHolds ==
    \A s \in Sectors : disk[s].writer # NoIrp =>
        /\ s \notin Protected
        /\ ~IsFilterDevice =>
              ~\E v \in Irps : /\ irp[v].status = "denied"
                               /\ Before(<<"accepted", v>>, <<"accepted", disk[s].writer>>)

\* When Stop frees the buffers, the threads have exited, no work item is
\* active, every request it had accepted is completed, and no request is
\* left in a list.
StopIsQuiet ==
    stop \in {"free", "stopped"} =>
        /\ main.pc = "exited" /\ io.pc = "exited" /\ completion.pc = "exited"
        /\ activeWorkItems = 0 /\ requestsInUse = 0
        /\ \A i \in Irps : Happened(<<"accepted", i>>) => Happened(<<"completed", i>>)

\* ASSERT (!buffer->InUse || queue->StartPending) in FreePoolBuffers, which
\* Stop calls last (lines 141 and 1333).
PoolBuffersReturned == stop = "free" => itemsInUse = 0 /\ requestsInUse = 0

\* Every request accepted by AddIrp is completed, and its item returned.
AcceptedCompletes == \A i \in Irps : irp[i].at = "queued" ~> irp[i].at = "done"

\* A call of Stop returns.
StopEnds == stop = "test" ~> stop = "stopped"

\* A call of HoldWhenIdle returns, with or without success.
HoldEnds == hold.pc = "test" ~> hold.pc \in {"idle", "held"}
=============================================================================
