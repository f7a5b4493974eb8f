------------------------- MODULE SystemEncryptionSetup -------------------------
(***************************************************************************)
(* Encrypting and decrypting the system drive in place (SetupThreadProc    *)
(* and its surroundings in Driver/DriveFilter.c).                          *)
(*                                                                         *)
(* The setup thread takes one block after another, upwards to encrypt and  *)
(* downwards to decrypt: it holds the I/O queue of the drive, reads,       *)
(* transforms and writes the block, moves the end of the encrypted area    *)
(* and lets the queue go on.  The system uses the drive meanwhile.  Only   *)
(* now and then, and when the thread ends, is the end of the area saved in *)
(* the volume header, which is all that a restart finds.  Device           *)
(* operations may fail, the thread may be told to stop, and the machine    *)
(* may be shut down or crash at any step.                                  *)
(*                                                                         *)
(* The drive is a row of units, each larger than a byte.  An I/O queue     *)
(* that is held is quiet (HeldIsQuiet of EncryptedIoQueue), and its        *)
(* requests are single steps here.                                         *)
(***************************************************************************)
EXTENDS Integers, FiniteSets

CONSTANTS
    Last,       \* the last unit of the area that is configured for encryption
    BlockSize,  \* units that the thread handles at a time
    Threshold   \* units after which the thread saves the header

ASSUME SetupAssumption ==
    Last \in Nat \ {0} /\ BlockSize \in Nat \ {0} /\ Threshold \in Nat \ {0}

First == 1
None  == -1
Units == First .. Last

VARIABLES
    power,           \* whether the machine is on
    disk,            \* what each unit of the drive holds
    latest,          \* the data last written to each unit
    lost,            \* units whose data a crash or the device has destroyed
    header,          \* the volume header on the drive
    saved,           \* whether the last attempt to save the header succeeded
    areaStart,       \* Queue.EncryptedAreaStart
    areaEnd,         \* Queue.EncryptedAreaEnd
    configuredEnd,   \* ConfiguredEncryptedAreaEnd
    mounted,         \* DriveMounted
    held,            \* whether the thread holds the queue
    pc,              \* where the thread is
    mode,            \* SetupRequest.SetupMode
    wipe,            \* SetupRequest.WipeAlgorithm is not TC_WIPE_NONE
    offset,
    blockSize,       \* setupBlockSize
    sinceUpdate,     \* bytesWrittenSinceHeaderUpdate
    updateRequired,  \* headerUpdateRequired
    buffer,          \* the block as it was read
    mutex,           \* who owns RootDeviceControlMutex
    abortRequested,  \* EncryptionSetupThreadAbortRequested
    shuttingDown     \* DriverShuttingDown

drive   == <<disk, latest, lost>>
stored  == <<header, saved>>
area    == <<areaStart, areaEnd, configuredEnd, mounted>>
request == <<mode, wipe>>
locals  == <<offset, blockSize, sinceUpdate, updateRequired, buffer>>
control == <<mutex, abortRequested, shuttingDown>>
vars == <<power, drive, stored, area, held, pc, request, locals, control>>

-----------------------------------------------------------------------------
(* Data: a unit holds plain text, cipher text, or neither. *)

Plain(d)  == [form |-> "plain", data |-> d]
Cipher(d) == [form |-> "cipher", data |-> d]
Junk      == [form |-> "junk", data |-> 0]

Encrypt(c) == IF c.form = "plain" THEN Cipher(c.data) ELSE Junk
Decrypt(c) == IF c.form = "cipher" THEN Plain(c.data) ELSE Junk

\* Unit b as it is read, when the encrypted area is the given one.
View(c, b, encrypted) == IF b \in encrypted THEN Decrypt(c[b]) ELSE c[b]
Wrong(c, encrypted) == {b \in Units : View(c, b, encrypted) # Plain(latest[b])}

NoArea == areaStart = None \/ areaEnd = None
EncryptedArea == IF NoArea THEN {} ELSE areaStart .. areaEnd
HeaderArea(h) == IF h.present THEN First .. First + h.length - 1 ELSE {}

-----------------------------------------------------------------------------
(* The machine *)

Off ==
    /\ power' = FALSE
    /\ areaStart' = None /\ areaEnd' = None /\ configuredEnd' = None
    /\ mounted' = FALSE /\ held' = FALSE
    /\ pc' = "none" /\ mode' = "encrypt" /\ wipe' = FALSE
    /\ offset' = First /\ blockSize' = BlockSize /\ sinceUpdate' = 0
    /\ updateRequired' = FALSE /\ buffer' = <<>>
    /\ mutex' = "free" /\ abortRequested' = FALSE /\ shuttingDown' = FALSE

\* MountDrive: the area is what the header says it is.
MountDrive ==
    /\ ~power /\ power' = TRUE
    /\ mounted' = header.present
    /\ configuredEnd' = IF header.present THEN Last ELSE None
    /\ areaStart' = IF HeaderArea(header) = {} THEN None ELSE First
    /\ areaEnd' = IF HeaderArea(header) = {} THEN None ELSE First + header.length - 1
    /\ saved' = TRUE
    /\ UNCHANGED <<drive, header, held, pc, request, locals, control>>

\* The system writes a unit through the queue.
SystemWrites(b) ==
    /\ power /\ ~held
    /\ latest' = [latest EXCEPT ![b] = 1 - @]
    /\ disk' = [disk EXCEPT ![b] = IF b \in EncryptedArea THEN Cipher(1 - latest[b])
                                                          ELSE Plain(1 - latest[b])]
    /\ lost' = lost \ {b}
    /\ UNCHANGED <<power, stored, area, held, pc, request, locals, control>>

\* IRP_MJ_SHUTDOWN; it has the setup thread stopped (RequestAbort) and returns.
Shutdown ==
    /\ power /\ ~shuttingDown /\ shuttingDown' = TRUE
    /\ UNCHANGED <<power, drive, stored, area, held, pc, request, locals, mutex, abortRequested>>

PowerOff ==
    /\ shuttingDown /\ pc = "none" /\ mutex = "free"
    /\ lost' = Wrong(disk, HeaderArea(header))
    /\ Off
    /\ UNCHANGED <<disk, latest, stored>>

Block == offset .. offset + blockSize - 1

\* The block as it should be written, and as a write leaves it that is cut short.
Transformed == [b \in Block |-> IF mode = "encrypt" THEN Encrypt(buffer[b])
                                                    ELSE Decrypt(buffer[b])]
Wiped == [b \in Block |-> Junk]
Put(new, where) == [b \in Units |-> IF b \in where THEN new[b] ELSE disk[b]]

Writing == CASE pc = "write" -> Transformed
             [] pc = "wipe"  -> Wiped
             [] pc = "undo"  -> buffer
             [] OTHER        -> <<>>

Crash ==
    /\ power
    /\ \E written \in SUBSET DOMAIN Writing : disk' = Put(Writing, written)
    /\ lost' = Wrong(disk', HeaderArea(header))
    /\ Off
    /\ UNCHANGED <<latest, stored>>

-----------------------------------------------------------------------------
(* Device control requests, which own RootDeviceControlMutex *)

\* No process that could ask for a setup is left when the system shuts down.
StartBootEncryptionSetup(m, w) ==
    /\ power /\ ~shuttingDown /\ mutex = "free"
    /\ pc \in {"none", "done"} /\ mounted
    /\ pc' = "start" /\ mode' = m /\ wipe' = w
    /\ abortRequested' = FALSE
    /\ blockSize' = BlockSize /\ sinceUpdate' = 0 /\ updateRequired' = FALSE
    /\ buffer' = <<>>
    /\ UNCHANGED <<power, drive, stored, area, held, offset, mutex, shuttingDown>>

\* AbortBootEncryptionSetup: the mutex is owned until the thread has ended.
RequestAbort ==
    /\ power /\ mutex = "free" /\ pc # "none"
    /\ mutex' = "abort" /\ abortRequested' = TRUE
    /\ UNCHANGED <<power, drive, stored, area, held, pc, request, locals, shuttingDown>>

AbortReturns ==
    /\ mutex = "abort" /\ pc = "done"
    /\ mutex' = "free" /\ pc' = "none"
    /\ UNCHANGED <<power, drive, stored, area, held, request, locals, abortRequested, shuttingDown>>

-----------------------------------------------------------------------------
(* The setup thread *)

Goto(from, to) == pc = from /\ pc' = to

\* The queue is not idle in time, and the thread is told to stop.
HoldAborted ==
    /\ pc \in {"start", "hold"} /\ abortRequested
    /\ pc' = "end"
    /\ UNCHANGED <<power, drive, stored, area, held, request, locals, control>>

\* Start, or go on where an earlier setup ended (under a hold of the queue).
BeginEncryption ==
    /\ mode = "encrypt" /\ pc = "start"
    /\ IF NoArea
       THEN /\ areaStart' = First /\ areaEnd' = None
            /\ offset' = First /\ pc' = "loop"
       ELSE /\ pc' = IF areaEnd = configuredEnd THEN "end" ELSE "loop"
            /\ offset' = areaEnd + 1
            /\ UNCHANGED <<areaStart, areaEnd>>
    /\ UNCHANGED <<power, drive, stored, configuredEnd, mounted, held, request, blockSize,
                   sinceUpdate, updateRequired, buffer, control>>

BeginDecryption ==
    /\ mode = "decrypt" /\ pc = "start"
    /\ pc' = IF NoArea THEN "end" ELSE "loop"
    /\ offset' = IF NoArea THEN offset ELSE areaEnd + 1
    /\ UNCHANGED <<power, drive, stored, area, held, request, blockSize, sinceUpdate,
                   updateRequired, buffer, control>>

LoopAborted ==
    /\ Goto("loop", "end") /\ abortRequested
    /\ UNCHANGED <<power, drive, stored, area, held, request, locals, control>>

\* Mutant of NextUp: the end of the area is not noticed.
NextUpEndless ==
    /\ pc = "loop" /\ ~abortRequested /\ mode = "encrypt"
    /\ blockSize' = IF offset + blockSize > configuredEnd + 1
                    THEN configuredEnd + 1 - offset ELSE blockSize
    /\ pc' = "hold"
    /\ UNCHANGED <<power, drive, stored, area, held, request, offset, sinceUpdate,
                   updateRequired, buffer, control>>

\* The next block, which is smaller at the end of the area.
NextUp ==
    /\ pc = "loop" /\ ~abortRequested /\ mode = "encrypt"
    /\ blockSize' = IF offset + blockSize > configuredEnd + 1
                    THEN configuredEnd + 1 - offset ELSE blockSize
    /\ pc' = IF offset > configuredEnd THEN "end" ELSE "hold"
    /\ UNCHANGED <<power, drive, stored, area, held, request, offset, sinceUpdate,
                   updateRequired, buffer, control>>

\* Mutant of NextDown: the last block is not made smaller.
NextDownUncut ==
    /\ pc = "loop" /\ ~abortRequested /\ mode = "decrypt"
    /\ offset' = offset - blockSize
    /\ pc' = IF offset' < areaStart THEN "end" ELSE "hold"
    /\ UNCHANGED <<power, drive, stored, area, held, request, blockSize, sinceUpdate,
                   updateRequired, buffer, control>>

NextDown ==
    /\ pc = "loop" /\ ~abortRequested /\ mode = "decrypt"
    /\ blockSize' = IF offset - blockSize < areaStart THEN offset - areaStart ELSE blockSize
    /\ offset' = offset - blockSize'
    /\ pc' = IF blockSize' = 0 \/ offset' < areaStart THEN "end" ELSE "hold"
    /\ UNCHANGED <<power, drive, stored, area, held, request, sinceUpdate, updateRequired,
                   buffer, control>>

\* Mutant of Hold: the queue goes on.
HoldNothing ==
    /\ Goto("hold", "read")
    /\ UNCHANGED <<power, drive, stored, area, held, request, locals, control>>

Hold ==
    /\ Goto("hold", "read")
    /\ held' = TRUE
    /\ UNCHANGED <<power, drive, stored, area, request, locals, control>>

AfterRead == IF wipe /\ mode = "encrypt" THEN "wipe" ELSE "write"

ReadBlock ==
    /\ Goto("read", AfterRead)
    /\ buffer' = [b \in Block |-> disk[b]]
    /\ UNCHANGED <<power, drive, stored, area, held, request, offset, blockSize, sinceUpdate,
                   updateRequired, control>>

\* Sectors cannot be read, and the request says to zero or to discard them.
ReadRecovers ==
    /\ Goto("read", AfterRead)
    /\ \E bad \in (SUBSET Block) \ {{}} :
           /\ disk' = [b \in Units |-> IF b \in bad THEN Junk ELSE disk[b]]
           /\ lost' = lost \cup bad
    /\ buffer' = [b \in Block |-> disk'[b]]
    /\ UNCHANGED <<power, latest, stored, area, held, request, offset, blockSize, sinceUpdate,
                   updateRequired, control>>

ReadFails ==
    /\ Goto("read", "end")
    /\ UNCHANGED <<power, drive, stored, area, held, request, locals, control>>

WipeBlock ==
    /\ Goto("wipe", "write")
    /\ disk' = Put(Wiped, Block)
    /\ UNCHANGED <<power, latest, lost, stored, area, held, request, locals, control>>

\* The block is written, the area moves, and the queue goes on.
WriteBlock ==
    /\ pc = "write"
    /\ disk' = Put(Transformed, Block)
    /\ offset' = IF mode = "encrypt" THEN offset + blockSize ELSE offset
    /\ areaEnd' = offset' - 1
    /\ updateRequired' = TRUE
    /\ held' = FALSE
    /\ sinceUpdate' = sinceUpdate + blockSize
    /\ pc' = IF sinceUpdate' >= Threshold THEN "save" ELSE "loop"
    /\ buffer' = <<>>
    /\ UNCHANGED <<power, latest, lost, stored, areaStart, configuredEnd, mounted, request,
                   blockSize, control>>

\* Part of the block may have been written.
WriteFails ==
    /\ pc \in {"wipe", "write"} /\ pc' = "undo"
    /\ \E written \in SUBSET Block : disk' = Put(Writing, written)
    /\ UNCHANGED <<power, latest, lost, stored, area, held, request, locals, control>>

UndoWrite ==
    /\ Goto("undo", "end")
    /\ disk' = Put(buffer, Block)
    /\ UNCHANGED <<power, latest, lost, stored, area, held, request, locals, control>>

UndoFails ==
    /\ Goto("undo", "end")
    /\ \E written \in SUBSET Block : disk' = Put(buffer, written)
    /\ lost' = lost \cup {b \in Block : disk'[b] # buffer[b]}
    /\ UNCHANGED <<power, latest, stored, area, held, request, locals, control>>

\* Mutant of SavedHeader: the header is zeroed whenever a decryption saves it.
SavedHeaderZero ==
    IF mode = "decrypt" THEN [present |-> FALSE, length |-> 0]
    ELSE IF NoArea THEN header ELSE [header EXCEPT !.length = areaEnd + 1 - areaStart]

\* What SaveDriveVolumeHeader writes.  After a decryption there is no header.
SavedHeader ==
    IF NoArea \/ areaEnd < areaStart
    THEN IF mode = "decrypt" THEN [present |-> FALSE, length |-> 0] ELSE header
    ELSE [header EXCEPT !.length = areaEnd + 1 - areaStart]

SaveDriveVolumeHeader(to) ==
    /\ pc' = to
    /\ header' = SavedHeader /\ saved' = TRUE

\* Mutant of SaveHeader: the header is only saved when the thread ends.
SaveHeaderLater ==
    /\ Goto("save", "loop")
    /\ sinceUpdate' = 0
    /\ UNCHANGED <<power, drive, stored, area, held, request, offset, blockSize, updateRequired,
                   buffer, control>>

SaveHeader ==
    /\ pc = "save"
    /\ SaveDriveVolumeHeader("loop")
    /\ sinceUpdate' = 0 /\ updateRequired' = FALSE
    /\ UNCHANGED <<power, drive, area, held, request, offset, blockSize, buffer, control>>

\* The header cannot be read or written; the next block tries again.
SaveFails ==
    /\ \/ Goto("save", "loop")
       \/ Goto("finalSave", "finish")
    /\ saved' = FALSE
    /\ UNCHANGED <<power, drive, header, area, held, request, locals, control>>

\* Labels abort and err.
End ==
    /\ pc = "end"
    /\ areaStart' = IF areaEnd = None THEN None ELSE areaStart
    /\ held' = FALSE
    /\ pc' = IF mode = "decrypt" /\ (areaEnd = None \/ areaEnd < areaStart) THEN "clear"
             ELSE IF updateRequired THEN "finalSave" ELSE "finish"
    /\ UNCHANGED <<power, drive, stored, areaEnd, configuredEnd, mounted, request, locals, control>>

\* The drive is decrypted (under a hold of the queue).
ClearArea ==
    /\ Goto("clear", "finalSave")
    /\ areaStart' = None /\ areaEnd' = None /\ configuredEnd' = None
    /\ updateRequired' = TRUE
    /\ UNCHANGED <<power, drive, stored, mounted, held, request, offset, blockSize, sinceUpdate,
                   buffer, control>>

\* Mutant of FinalSave: a thread that is told to stop saves no header.
FinalSaveUnlessAborted ==
    /\ pc = "finalSave"
    /\ IF abortRequested THEN pc' = "finish" /\ UNCHANGED stored
       ELSE SaveDriveVolumeHeader("finish")
    /\ UNCHANGED <<power, drive, area, held, request, locals, control>>

FinalSave ==
    /\ pc = "finalSave"
    /\ SaveDriveVolumeHeader("finish")
    /\ UNCHANGED <<power, drive, area, held, request, locals, control>>

Decrypted == mode = "decrypt" /\ configuredEnd = None /\ mounted

Finish ==
    /\ Goto("finish", "done") /\ ~Decrypted
    /\ UNCHANGED <<power, drive, stored, area, held, request, locals, control>>

AcquireMutex ==
    /\ Goto("finish", "dismount") /\ Decrypted
    /\ mutex = "free" /\ mutex' = "thread"
    /\ UNCHANGED <<power, drive, stored, area, held, request, locals, abortRequested, shuttingDown>>

\* Mutant of MutexAborted: the thread insists on the mutex.
MutexInsisted ==
    /\ Goto("finish", "dismount") /\ Decrypted
    /\ mutex = "free" /\ mutex' = "thread" /\ abortRequested
    /\ UNCHANGED <<power, drive, stored, area, held, request, locals, abortRequested, shuttingDown>>

\* Whoever waits for the thread to end owns the mutex.
MutexAborted ==
    /\ Goto("finish", "dismount") /\ Decrypted
    /\ mutex # "free" /\ abortRequested
    /\ UNCHANGED <<power, drive, stored, area, held, request, locals, control>>

DismountDrive ==
    /\ Goto("dismount", "done")
    /\ mounted' = FALSE
    /\ mutex' = IF abortRequested THEN mutex ELSE "free"
    /\ UNCHANGED <<power, drive, stored, areaStart, areaEnd, configuredEnd, held, request, locals,
                   abortRequested, shuttingDown>>

\* What comes after a call of HoldWhenIdle that has succeeded.  The thread calls
\* it until it does, which a busy system need not let happen.
AfterHold == BeginEncryption \/ BeginDecryption \/ Hold \/ ClearArea

\* Everything else the thread does; it does not depend on the system.
OnItsOwn ==
    \/ HoldAborted \/ LoopAborted \/ NextUp \/ NextDown
    \/ ReadBlock \/ ReadRecovers \/ ReadFails
    \/ WipeBlock \/ WriteBlock \/ WriteFails \/ UndoWrite \/ UndoFails
    \/ SaveHeader \/ SaveFails
    \/ End \/ FinalSave
    \/ Finish \/ AcquireMutex \/ MutexAborted \/ DismountDrive

SetupThreadProc == AfterHold \/ OnItsOwn

-----------------------------------------------------------------------------
(* A drive whose header has been written and whose area is still empty, as the
   pretest leaves it; or one that is encrypted. *)
Init ==
    /\ power = TRUE
    /\ latest = [b \in Units |-> 0] /\ lost = {} /\ saved = TRUE
    /\ header \in [present : {TRUE}, length : {0, Last}]
    /\ disk = [b \in Units |-> IF header.length = 0 THEN Plain(0) ELSE Cipher(0)]
    /\ areaStart = IF header.length = 0 THEN None ELSE First
    /\ areaEnd = IF header.length = 0 THEN None ELSE Last
    /\ configuredEnd = Last /\ mounted = TRUE /\ held = FALSE
    /\ pc = "none" /\ mode = "encrypt" /\ wipe = FALSE
    /\ offset = First /\ blockSize = BlockSize /\ sinceUpdate = 0
    /\ updateRequired = FALSE /\ buffer = <<>>
    /\ mutex = "free" /\ abortRequested = FALSE /\ shuttingDown = FALSE

Next ==
    \/ MountDrive \/ Shutdown \/ PowerOff \/ Crash
    \/ \E b \in Units : SystemWrites(b)
    \/ \E m \in {"encrypt", "decrypt"}, w \in BOOLEAN : StartBootEncryptionSetup(m, w)
    \/ RequestAbort \/ AbortReturns
    \/ SetupThreadProc

Spec == Init /\ [][Next]_vars

\* The thread and the request that waits for it are scheduled.  Each call of
\* HoldWhenIdle returns (HoldEnds of EncryptedIoQueue), after which the thread
\* tests for an abort, but nothing makes a hold succeed.
FairSpec == Spec /\ WF_vars(OnItsOwn) /\ WF_vars(AbortReturns)

-----------------------------------------------------------------------------
(* Properties *)

Content == [form : {"plain", "cipher", "junk"}, data : {0, 1}]
Places == {"none", "start", "loop", "hold", "read", "wipe", "write", "undo", "save", "end",
           "clear", "finalSave", "finish", "dismount", "done"}

\* Every variable keeps its type, and a block is never outside of the area.
TypeOK ==
    /\ power \in BOOLEAN /\ disk \in [Units -> Content] /\ latest \in [Units -> {0, 1}]
    /\ lost \in SUBSET Units
    /\ header \in [present : BOOLEAN, length : 0 .. Last] /\ saved \in BOOLEAN
    /\ areaStart \in {None, First} /\ areaEnd \in {None} \cup (0 .. Last)
    /\ configuredEnd \in {None, Last} /\ mounted \in BOOLEAN /\ held \in BOOLEAN
    /\ pc \in Places /\ mode \in {"encrypt", "decrypt"} /\ wipe \in BOOLEAN
    /\ offset \in First .. Last + 1 /\ blockSize \in 0 .. BlockSize
    /\ sinceUpdate \in Nat /\ updateRequired \in BOOLEAN
    /\ pc \in {"hold", "read", "wipe", "write", "undo"} => Block \subseteq Units
    /\ mutex \in {"free", "abort", "thread"}
    /\ abortRequested \in BOOLEAN /\ shuttingDown \in BOOLEAN

\* Whatever the system reads while the drive is encrypted or decrypted is what
\* it wrote last, before and after failed writes, aborts and restarts: except
\* where a crash or the device itself destroyed the data.
Readable == power /\ ~held => Wrong(disk, EncryptedArea) \subseteq lost

\* The header, and with it the keys, stays as long as data depend on it.
KeysKept == ~header.present => \A b \in Units \ lost : disk[b].form = "plain"

\* A setup that is stopped by a shutdown loses nothing, if its header could be
\* saved: the drive that is mounted next is the drive that was shut down.
ShutdownLosesNothing == [][PowerOff /\ saved => lost' \subseteq lost]_vars

BlocksToThreshold == (Threshold + BlockSize - 1) \div BlockSize

\* A crash destroys no more than what was written since the header was saved:
\* at most the blocks that it takes to reach the threshold.
CrashLosesLittle ==
    [][Crash /\ saved => Cardinality(lost' \ lost) <= BlocksToThreshold * BlockSize]_vars

\* Each abort returns: the thread does not wait for the mutex of the request
\* that waits for the thread.  Only the hold after a decryption is not given up
\* for an abort: if the system stays busy, thread and abort stay there.
AbortEnds == mutex = "abort" ~> (mutex # "abort" \/ [](pc = "clear"))

\* A setup that is started ends, unless from some time on the system is never
\* idle when the thread wants to hold the queue.
SetupEnds == pc = "start" ~> (pc \in {"done", "none"} \/ [](pc \in {"start", "hold", "clear"}))
================================================================================
