--------------------------- MODULE InPlaceEncryption ---------------------------
(***************************************************************************)
(* Encrypting and decrypting a partition in place (Format/InPlace.c), with *)
(* the wizard that starts, defers and resumes it (Format/Tcformat.c).      *)
(*                                                                         *)
(* A volume starts with a header, so its data lie one header group further *)
(* than the file system had them.  Encryption goes down from the end: it   *)
(* reads a chunk and writes it, encrypted, one group higher, where it      *)
(* overwrites what it has just read.  Decryption goes up and moves the     *)
(* data back.  Only the backup header, behind the data, says how far it    *)
(* got, and it is written now and then.  The primary header takes the      *)
(* place of the first data when all of them have been moved.  The start of *)
(* the file system is concealed, by an exclusive or, until it is complete. *)
(*                                                                         *)
(* The unit is the size of a header group: unit u of the file system is    *)
(* plain in cell u of the device and encrypted in cell u + 1.  The write   *)
(* of a header, or of the start of the file system when it is concealed,   *)
(* is atomic, that of a chunk is not.                                      *)
(***************************************************************************)
EXTENDS Integers, FiniteSets

CONSTANTS
    Size,       \* units of the volume
    ChunkSize,  \* units handled at a time
    Interval    \* units after which the backup header is written

ASSUME InPlaceAssumption ==
    Size \in Nat \ {0} /\ ChunkSize \in Nat \ {0} /\ Interval \in Nat \ {0}

Units == 0 .. Size - 1
Cells == 0 .. Size

VARIABLES
    cell,         \* what each cell of the device holds
    bad,          \* cells that cannot be read
    backup,       \* the backup header
    lost,         \* units that a crash or the device has destroyed
    cut,          \* whether a run was cut short with the concealment half done
    wizard,       \* whether the wizard is open, with the partition selected
    resumed,      \* bInPlaceEncNonSysResumed
    pc,           \* where the transform thread is
    mode,
    wipe,         \* wipeAlgorithm is not TC_WIPE_NONE
    before,       \* history: what a decryption of the whole found lost
    length,       \* EncryptedAreaLength of masterCryptoInfo
    changed,      \* bEncryptedAreaSizeChanged
    sinceUpdate,  \* lastHeaderUpdateDistance
    pause,        \* bPause
    buffer,       \* the chunk as it is to be written
    cancel,       \* bVolTransformThreadCancel
    status        \* how the last run ended

device == <<cell, bad, backup>>
ghosts == <<lost, cut>>
user   == <<wizard, resumed, cancel>>
job    == <<mode, wipe, before>>
locals == <<length, changed, sinceUpdate, pause, buffer>>
vars == <<device, ghosts, user, pc, job, locals, status>>

-----------------------------------------------------------------------------
(* Data *)

Data(u, e, v) == [unit |-> u, encrypted |-> e, concealed |-> v]
Junk   == Data(-1, FALSE, FALSE)
Header == Data(-2, FALSE, FALSE)

Encrypt(c) == IF c.unit < 0 \/ c.encrypted THEN Junk ELSE [c EXCEPT !.encrypted = TRUE]
Decrypt(c) == IF c.encrypted THEN [c EXCEPT !.encrypted = FALSE] ELSE Junk
Conceal(c) == IF c.unit = 0 /\ ~c.encrypted THEN [c EXCEPT !.concealed = ~@] ELSE c

NoBackup == [present |-> FALSE, length |-> 0, inPlace |-> FALSE]

\* The units that are not where a header with this length looks for them.
Wrong(c, len) ==
    {u \in Units : LET p == IF u >= Size - len THEN u + 1 ELSE u
                   IN c[p].unit # u \/ c[p].encrypted # (p = u + 1)}

Put(new, where) == [p \in Cells |-> IF p \in where THEN new[p] ELSE cell[p]]

\* The file system can be mounted.
Visible(c) == 0 \notin lost \cup bad /\ \A u \in Units \ lost : c[u] = Data(u, FALSE, FALSE)

\* The driver mounts a volume by this header.
Mounts(h) == h.present /\ (h.inPlace => h.length = Size)

\* The concealment is what the backup header lets a resumed run expect.
ConcealedRight(c, h) == h.present /\ h.length < Size /\ c[0].unit = 0 => c[0].concealed

-----------------------------------------------------------------------------
(* The chunk at hand *)

Remaining == IF mode = "encrypt" THEN Size - length ELSE length

\* Mutant of Work: what is left at the end is not made a chunk of its own.
WorkRoundedDown == IF Remaining < ChunkSize THEN 0 ELSE ChunkSize

Work == IF Remaining < ChunkSize THEN Remaining ELSE ChunkSize

Chunk == IF mode = "encrypt" THEN Size - length - Work .. Size - length - 1
                             ELSE Size - length .. Size - length + Work - 1

Source == IF mode = "encrypt" THEN Chunk ELSE {u + 1 : u \in Chunk}
Target == IF mode = "encrypt" THEN {u + 1 : u \in Chunk} ELSE Chunk

\* Mutant of Transformed: the concealment is left.
TransformedOnly(c) == IF mode = "encrypt" THEN Encrypt(c) ELSE Conceal(Decrypt(c))

\* What the buffer holds of unit u when its cell holds c: the concealment is
\* undone before the start of the file system is encrypted, and done after it
\* has been decrypted.
Transformed(c) == IF mode = "encrypt" THEN Encrypt(Conceal(c)) ELSE Conceal(Decrypt(c))

Aimed == [p \in Target |-> IF mode = "encrypt" THEN buffer[p - 1] ELSE buffer[p]]
Wiped == [p \in Target |-> Junk]

\* All but the first unit of the chunk lay where it was to be written.
Overwritten == Chunk \cap Target
Original == [u \in Overwritten |-> Decrypt(buffer[u])]

Writing == CASE pc = "write" -> Aimed
             [] pc = "wipe"  -> Wiped
             [] pc = "undo"  -> Original
             [] OTHER        -> <<>>

-----------------------------------------------------------------------------
(* The wizard *)

Start(m, place) ==
    /\ pc = "none" /\ pc' = place /\ mode' = m /\ cancel' = FALSE
    /\ wizard' = TRUE /\ status' = "running"
    /\ UNCHANGED <<device, ghosts, locals>>

\* The file system is mounted, and shrunk so that it leaves room for headers.
StartEncryption(w) ==
    /\ Visible(cell) /\ ~resumed
    /\ Start("encrypt", "begin") /\ wipe' = w /\ before' = {}
    /\ UNCHANGED resumed

\* The volume has been mounted by either header, to see that both work.
StartDecryption ==
    /\ cell[0] = Header /\ 0 \notin bad /\ Mounts(backup) /\ ~resumed
    /\ Start("decrypt", "open") /\ wipe' = FALSE /\ before' = lost
    /\ UNCHANGED resumed

\* "Resume", while the wizard still knows the partition.
NonSysInplaceEncResume(w) ==
    /\ wizard /\ resumed
    /\ Start(mode, "open") /\ wipe' = (w /\ mode = "encrypt")
    /\ UNCHANGED <<resumed, before>>

\* A later wizard searches the partitions, and the user says which way to go.
ResumeInPlaceEnc(m, w) ==
    /\ ~wizard /\ backup.present /\ backup.inPlace /\ backup.length # Size
    /\ Start(m, "open") /\ wipe' = (w /\ m = "encrypt") /\ before' = {}
    /\ resumed' = TRUE

CloseWizard ==
    /\ pc = "none" /\ wizard /\ wizard' = FALSE /\ resumed' = FALSE
    /\ UNCHANGED <<device, ghosts, cancel, pc, job, locals, status>>

\* "Pause", or "Defer", which closes the wizard when the thread has ended.
NonSysInplaceEncPause ==
    /\ pc # "none" /\ ~cancel
    /\ cancel' = TRUE
    /\ UNCHANGED <<device, ghosts, wizard, resumed, pc, job, locals, status>>

-----------------------------------------------------------------------------
(* Beginning to encrypt *)

Goto(from, to) == pc = from /\ pc' = to
Working == UNCHANGED <<user, job, status>>

\* The run ends; it is cut short if the concealment and the header disagree.
End(how) ==
    /\ pc' = "none" /\ status' = how
    /\ cut' = (cut \/ ~ConcealedRight(cell', backup'))
    /\ length' = 0 /\ changed' = FALSE /\ sinceUpdate' = 0 /\ pause' = FALSE
    /\ buffer' = <<>> /\ cancel' = FALSE
    /\ UNCHANGED <<wizard, job>>

\* The file system cannot be shrunk or dismounted; or the header cannot be
\* written, or not all that belongs to it.
BeginFails ==
    /\ pc = "begin"
    /\ backup' \in {backup, [present |-> TRUE, length |-> 0, inPlace |-> TRUE]}
    /\ UNCHANGED <<cell, bad, lost, resumed>>
    /\ End("error")

WriteBackupHeader ==
    /\ Goto("begin", "conceal")
    /\ backup' = [present |-> TRUE, length |-> 0, inPlace |-> TRUE]
    /\ Working /\ UNCHANGED <<cell, bad, ghosts, locals>>

ConcealNTFS ==
    /\ cell' = [cell EXCEPT ![0] = Conceal(@)]
    /\ UNCHANGED <<bad, backup>>

\* EncryptPartitionInPlaceResume follows, with the same handle.
BeginConceals ==
    /\ Goto("conceal", "open")
    /\ ConcealNTFS
    /\ Working /\ UNCHANGED <<ghosts, locals>>

\* From where ConcealNTFS is called, at the end of a decryption to reveal.
Concealing == pc = "conceal" \/ (pc = "finish" /\ mode = "decrypt")

\* The start of the file system cannot be read.
ConcealFails ==
    /\ Concealing
    /\ UNCHANGED <<device, lost, resumed>>
    /\ End("error")

\* It cannot be written, or not all of it ...
ConcealWriteFails ==
    /\ Concealing /\ pc' = "unconceal"
    /\ buffer' = [u \in {0} |-> cell[0]]
    /\ \E c \in {cell[0], Conceal(cell[0])} : cell' = [cell EXCEPT ![0] = c]
    /\ changed' = FALSE
    /\ Working /\ UNCHANGED <<bad, backup, ghosts, length, sinceUpdate, pause>>

\* ... and is written as it was, again and again until that succeeds.
Unconceal ==
    /\ pc = "unconceal"
    /\ cell' = [cell EXCEPT ![0] = buffer[0]]
    /\ UNCHANGED <<bad, backup, lost, resumed>>
    /\ End("error")

-----------------------------------------------------------------------------
(* The core of both directions *)

OpenBackupHeader ==
    /\ Goto("open", "loop")
    /\ backup.present
    /\ length' = backup.length
    /\ resumed' = TRUE
    /\ changed' = FALSE /\ sinceUpdate' = 0 /\ pause' = FALSE /\ buffer' = <<>>
    /\ UNCHANGED <<device, ghosts, wizard, cancel, job, status>>

OpenFails ==
    /\ pc = "open"
    /\ resumed' = (resumed \/ mode = "encrypt")
    /\ UNCHANGED <<device, lost>>
    /\ End("error")

Transformable == pc = "loop" /\ Remaining > 0
AfterRead == IF mode = "encrypt" /\ wipe THEN "wipe" ELSE "write"

ReadChunk ==
    /\ Transformable /\ Source \cap bad = {}
    /\ pc' = AfterRead
    /\ buffer' = [u \in Chunk |-> Transformed(cell[IF mode = "encrypt" THEN u ELSE u + 1])]
    /\ Working /\ UNCHANGED <<device, ghosts, length, changed, sinceUpdate, pause>>

\* Unreadable cells are zeroed, and the chunk is read again: some of the cells
\* may still be unreadable.
ZeroUnreadableSectors ==
    /\ Transformable /\ mode = "encrypt" /\ Source \cap bad # {} /\ ~cancel
    /\ cell' = [p \in Cells |-> IF p \in Source \cap bad THEN Junk ELSE cell[p]]
    /\ \E left \in SUBSET (Source \cap bad) : bad' = (bad \ Source) \cup left
    /\ lost' = lost \cup (Source \cap bad)
    /\ Working /\ UNCHANGED <<backup, cut, pc, locals>>

\* Unreadable cells are taken for zeros.
DiscardUnreadableSectors ==
    /\ Transformable /\ mode = "decrypt" /\ Source \cap bad # {} /\ ~cancel
    /\ pc' = "write"
    /\ buffer' = [u \in Chunk |-> IF u + 1 \in bad THEN Junk ELSE Transformed(cell[u + 1])]
    /\ lost' = lost \cup {u \in Chunk : u + 1 \in bad}
    /\ Working /\ UNCHANGED <<device, cut, length, changed, sinceUpdate, pause>>

ReadFails ==
    /\ Transformable
    /\ pc' = "close"
    /\ Working /\ UNCHANGED <<device, ghosts, locals>>

\* All passes over the place that the chunk goes to.
WipeChunk ==
    /\ Goto("wipe", "write")
    /\ cell' = Put(Wiped, Target) /\ bad' = bad \ Target
    /\ Working /\ UNCHANGED <<backup, ghosts, locals>>

WriteChunk ==
    /\ pc = "write"
    /\ cell' = Put(Aimed, Target) /\ bad' = bad \ Target
    /\ length' = IF mode = "encrypt" THEN length + Work ELSE length - Work
    /\ changed' = TRUE
    /\ sinceUpdate' = sinceUpdate + Work
    /\ pc' = IF sinceUpdate' >= Interval THEN "save" ELSE "next"
    /\ buffer' = <<>>
    /\ Working /\ UNCHANGED <<backup, ghosts, pause>>

\* Part of the chunk may have been written.  Only encryption undoes it.
WriteFails ==
    /\ pc \in {"wipe", "write"}
    /\ \E written \in SUBSET Target : cell' = Put(Writing, written)
    /\ IF mode = "encrypt" THEN pc' = "undo" /\ UNCHANGED lost
       ELSE pc' = "close" /\ lost' = lost \cup Wrong(cell', length)
    /\ Working /\ UNCHANGED <<bad, backup, cut, locals>>

\* Mutant of UndoWrite: the buffer is written as it is.
UndoWriteEncrypted ==
    /\ Goto("undo", "close")
    /\ cell' = Put(buffer, Overwritten)
    /\ Working /\ UNCHANGED <<bad, backup, ghosts, locals>>

UndoWrite ==
    /\ Goto("undo", "close")
    /\ cell' = Put(Original, Overwritten)
    /\ Working /\ UNCHANGED <<bad, backup, ghosts, locals>>

UndoFails ==
    /\ Goto("undo", "close")
    /\ \E written \in SUBSET Overwritten : cell' = Put(Original, written)
    /\ lost' = lost \cup Wrong(cell', length)
    /\ Working /\ UNCHANGED <<bad, backup, cut, locals>>

\* Mutant of FastVolumeHeaderUpdate: the flag stays as it is.
FastVolumeHeaderUpdateOnly ==
    /\ backup' = [backup EXCEPT !.length = length]
    /\ UNCHANGED <<cell, bad>>

\* The header becomes one of a volume that is encrypted in place, whatever
\* program created the volume.
FastVolumeHeaderUpdate ==
    /\ backup' = [backup EXCEPT !.length = length, !.inPlace = TRUE]
    /\ UNCHANGED <<cell, bad>>

\* Mutant of SaveHeader: the header is left for the end.
SaveHeaderLater ==
    /\ Goto("save", "next")
    /\ sinceUpdate' = 0
    /\ Working /\ UNCHANGED <<device, ghosts, length, changed, pause, buffer>>

SaveHeader ==
    /\ Goto("save", "next")
    /\ FastVolumeHeaderUpdate
    /\ sinceUpdate' = 0
    /\ Working /\ UNCHANGED <<ghosts, length, changed, pause, buffer>>

SaveFails ==
    /\ pc \in {"save", "update"} /\ pc' = "close"
    /\ pause' = FALSE
    /\ Working /\ UNCHANGED <<device, ghosts, length, changed, sinceUpdate, buffer>>

NextChunk ==
    /\ pc = "next"
    /\ pause' = cancel
    /\ pc' = IF cancel THEN "update" ELSE "loop"
    /\ Working /\ UNCHANGED <<device, ghosts, length, changed, sinceUpdate, buffer>>

LastChunkDone ==
    /\ Goto("loop", "update") /\ Remaining = 0
    /\ Working /\ UNCHANGED <<device, ghosts, locals>>

UpdateHeader ==
    /\ pc = "update"
    /\ pc' = IF pause THEN "close" ELSE "finish"
    /\ FastVolumeHeaderUpdate
    /\ Working /\ UNCHANGED <<ghosts, locals>>

\* Label closing_seq: a header that is not up to date is updated.
Close ==
    /\ pc = "close"
    /\ IF changed THEN FastVolumeHeaderUpdate ELSE UNCHANGED device
    /\ UNCHANGED <<lost, resumed>>
    /\ End(IF pause THEN "abort" ELSE "error")

CloseFails ==
    /\ pc = "close" /\ changed
    /\ lost' = lost \cup Wrong(cell, backup.length)
    /\ UNCHANGED <<device, resumed>>
    /\ End(IF pause THEN "abort" ELSE "error")

-----------------------------------------------------------------------------
(* Finishing *)

WritePrimaryHeader ==
    /\ Goto("finish", "settle") /\ mode = "encrypt"
    /\ cell' = [cell EXCEPT ![0] = Header]
    /\ Working /\ UNCHANGED <<bad, backup, ghosts, locals>>

\* The header is written in several passes and with random data around it.
PrimaryHeaderFails ==
    /\ Goto("finish", "close") /\ mode = "encrypt"
    /\ \E c \in {cell[0], Header, Junk} : cell' = [cell EXCEPT ![0] = c]
    /\ Working /\ UNCHANGED <<bad, backup, ghosts, locals>>

UndoConcealing ==
    /\ Goto("finish", "clear") /\ mode = "decrypt"
    /\ ConcealNTFS
    /\ changed' = FALSE
    /\ Working /\ UNCHANGED <<ghosts, length, sinceUpdate, pause, buffer>>

\* What is left of the cipher text is overwritten, then the backup header.
ClearCiphertext ==
    /\ Goto("clear", "clearHeader")
    /\ cell' = [cell EXCEPT ![Size] = Junk]
    /\ bad' = bad \ {Size}
    /\ Working /\ UNCHANGED <<backup, ghosts, locals>>

ClearHeader ==
    /\ Goto("clearHeader", "settle")
    /\ backup' = NoBackup
    /\ Working /\ UNCHANGED <<cell, bad, ghosts, locals>>

ClearFails ==
    /\ pc \in {"clear", "clearHeader"} /\ pc' = "close"
    /\ Working /\ UNCHANGED <<device, ghosts, locals>>

\* The wizard shows its last page.
Settle ==
    /\ pc = "settle"
    /\ resumed' = FALSE
    /\ UNCHANGED <<device, lost>>
    /\ End("finished")

TransformThread ==
    \/ BeginFails \/ WriteBackupHeader \/ BeginConceals
    \/ ConcealFails \/ ConcealWriteFails \/ Unconceal
    \/ OpenBackupHeader \/ OpenFails
    \/ ReadChunk \/ ZeroUnreadableSectors \/ DiscardUnreadableSectors \/ ReadFails
    \/ WipeChunk \/ WriteChunk \/ WriteFails \/ UndoWrite \/ UndoFails
    \/ SaveHeader \/ SaveFails \/ NextChunk \/ LastChunkDone \/ UpdateHeader
    \/ WritePrimaryHeader \/ PrimaryHeaderFails
    \/ UndoConcealing \/ ClearCiphertext \/ ClearHeader \/ ClearFails
    \/ Close \/ CloseFails \/ Settle

\* The machine stops at any step.
Crash ==
    /\ pc # "none"
    /\ \E written \in SUBSET DOMAIN Writing : cell' = Put(Writing, written)
    /\ lost' = lost \cup Wrong(cell', backup.length)
    /\ pc' = "none" /\ status' = "crashed"
    /\ cut' = (cut \/ ~ConcealedRight(cell', backup))
    /\ length' = 0 /\ changed' = FALSE /\ sinceUpdate' = 0 /\ pause' = FALSE
    /\ buffer' = <<>> /\ cancel' = FALSE /\ wizard' = FALSE /\ resumed' = FALSE
    /\ UNCHANGED <<bad, backup, job>>

-----------------------------------------------------------------------------
(* A partition with a file system, or a volume that the formatter created; at
   most one cell cannot be read. *)
Init ==
    /\ \E p \in {{}} \cup {{q} : q \in Cells} : bad = p
    /\ backup \in {NoBackup, [present |-> TRUE, length |-> Size, inPlace |-> FALSE]}
    /\ cell = [p \in Cells |-> IF ~backup.present
                               THEN IF p = Size THEN Junk ELSE Data(p, FALSE, FALSE)
                               ELSE IF p = 0 THEN Header ELSE Data(p - 1, TRUE, FALSE)]
    /\ lost = {} /\ cut = FALSE
    /\ wizard = FALSE /\ resumed = FALSE /\ cancel = FALSE
    /\ pc = "none" /\ mode = "encrypt" /\ wipe = FALSE /\ status = "none"
    /\ before = {}
    /\ length = 0 /\ changed = FALSE /\ sinceUpdate = 0 /\ pause = FALSE /\ buffer = <<>>

Next ==
    \/ StartDecryption
    \/ \E w \in BOOLEAN : StartEncryption(w) \/ NonSysInplaceEncResume(w)
    \/ \E m \in {"encrypt", "decrypt"}, w \in BOOLEAN : ResumeInPlaceEnc(m, w)
    \/ CloseWizard \/ NonSysInplaceEncPause
    \/ TransformThread
    \/ Crash

Spec == Init /\ [][Next]_vars

\* Where the thread repeats what has failed, without a limit: the write that
\* undoes a concealment, and the reading of a chunk that has been zeroed.
Repeats ==
    \/ pc = "unconceal"
    \/ Transformable /\ mode = "encrypt" /\ Source \cap bad # {} /\ ~cancel

\* The thread is scheduled by the system, whatever the user does; but what it
\* repeats need never succeed.
FairSpec == Spec /\ WF_vars(TransformThread /\ ~Repeats)

-----------------------------------------------------------------------------
(* Properties *)

\* Between runs, however the last one ended, the backup header tells where each
\* unit of the file system is, except those that a crash or an unreadable sector
\* has destroyed, a failed write that could not be undone, or a header that
\* could not be written when the run ended.
Recoverable == pc = "none" => Wrong(cell, backup.length) \subseteq lost

\* The driver does not mount a volume that is encrypted in part, by either
\* header, whatever was interrupted: only units that the device or an earlier
\* crash has destroyed are missing.  One case is excepted.  A decryption that
\* ends before its first update of the backup header, by a crash or because the
\* device fails, leaves a header that mounts; then, of what was there when it
\* was started, the first units are missing, no more than the interval and one
\* chunk make up.
MountedIsWhole ==
    Mounts(backup) \/ cell[0] = Header =>
        Wrong(cell, Size) \subseteq IF mode = "encrypt" THEN lost
                                    ELSE before \cup (0 .. Interval + ChunkSize - 3)

\* A run that finishes leaves the whole volume encrypted, with no plain text
\* beside it, or the whole file system visible again, with no header and no
\* cipher text behind it: except for destroyed units, and unless an earlier run
\* was cut short while the start of the file system was concealed, or revealed.
FinishedIsClean ==
    status = "finished" =>
        /\ \A p \in Cells : cell[p].unit >= 0 /\ (IF mode = "encrypt" THEN p - 1 ELSE p) \notin lost
                           => cell[p].encrypted = (mode = "encrypt")
        /\ backup.present = (mode = "encrypt")
        /\ ~cut => \A p \in Cells : ~cell[p].concealed

\* A crash destroys less than what was written since the header was updated,
\* which is less than the interval and one chunk.
CrashLosesLittle ==
    [][Crash => Cardinality(lost' \ lost) < Interval + ChunkSize - 1]_vars

\* Every run ends, also one that the user pauses at any time, unless from some
\* time on it repeats a write or a read that never succeeds.
RunEnds == pc # "none" ~> (pc = "none" \/ []Repeats)
================================================================================
