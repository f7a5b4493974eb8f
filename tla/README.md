# QubesDroid in TLA+

QubesDroid is a fork of VeraCrypt (disk encryption for Windows and Unix) with an Android
application beside it. This directory holds TLA+ modules of the parts of it whose
correctness depends on concurrency, on order or on failures, TLC configurations that check
them on small instances, and proofs that TLAPS checks for every instance.

## 1. Inventory

Paths are relative to the repository. "Hard" names what a test would hardly reach.

**Encryption thread pool (Windows: driver and applications), `src/Common/EncryptionThreadPool.c`.**
State: a ring of work items (free, ready, busy; a pointer to the operation's first item; a
count of unfinished fragments and a completion event in that first item), two ring positions,
two mutexes, two auto-reset events, the running and stopping flags. Operations: start, stop,
`DoWork` (encrypt or decrypt a buffer), `BeginKeyDerivation`, the worker thread. Used by the
I/O queue, by header reading and by every formatter. Hard: slots are given back before the
operation is over; wake-ups shared by all waiters; stop with one wake-up. Correct when each
call transforms its buffer exactly once and returns.

**Header key derivation, `src/Common/Volumes.c`.** `ReadVolumeHeader` tries every hash
algorithm; with the pool running it derives the keys concurrently and tests each as it
becomes ready, cancels the rest on success and frees the shared buffers when no derivation is
outstanding. State: the counter of outstanding derivations, two events, a flag per key, the
abort flag. Hard: counter and event are updated in two steps by each side. Correct when no
derivation uses a freed buffer and every algorithm is tried before the password is refused.

**Encrypted I/O queue, `src/Driver/EncryptedIoQueue.c`.** One queue per mounted volume or
filtered drive, with a main thread (splits requests into fragments, encrypts writes), an I/O
thread (reads and writes the device, reads ahead), a completion thread (decrypts reads) and
system work items (complete the requests). State: three lists, two fragment buffers with an
event each, a pool of buffers, a pool of work items under a semaphore, counters of
outstanding and active items, the encrypted area, the read-ahead buffer, the suspend, resume,
stop and exit flags. Operations: add a request, hold when idle, resume, start, stop. Hard:
suspension against new requests and read-ahead; back-pressure of four kinds of finite pool;
cached data; stopping while work items still run. Correct when each request completes exactly
once, a held queue touches no device, reads return the last completed write, and nothing is
freed while in use.

**Drive filter, `src/Driver/DriveFilter.c`.** System encryption: the setup thread encrypts or
decrypts the drive in place while Windows runs from it, holding the I/O queue for each block,
moving the end of the encrypted area and saving it in the volume header from time to time.
Hard: a crash, a power-down or an abort between the block write and the header save; a failed
write half way. Correct when every read returns what was last written, before and after a
restart, and the header never claims more or less than the drive holds.

**Other driver parts, `src/Driver/Ntdriver.c`, `Ntvol.c`, `VolumeFilter.c`, `DumpFilter.c`.**
Device control requests, mounting and unmounting of volumes, the thread of each volume, the
filters of a hidden system and of crash dumps. Hard: unmount against open handles and
outstanding requests.

**System encryption manager, `src/Common/BootEncryption.cpp`,** and the **boot loader,
`src/Boot/Windows`.** The user-mode side: installs the loader, drives the filter through
device control requests, keeps the rescue disk.

**Non-system in-place encryption, `src/Format/InPlace.c`.** Encrypts a partition from its end
to its start while it is dismounted, and decrypts it from its start to its end. Every chunk
moves by the size of a header group. State: the device, the backup header with the length of
the encrypted area, the primary header, a list of interrupted partitions, the wizard's flags.
Operations: start, pause, defer, resume, both directions. Hard: a crash between any two writes,
or in one; a header that is written only now and then; a sector that cannot be read or
written. Correct when whatever has happened the wizard can go on from the headers, and no data
are lost but those of the step that was interrupted.

**Volume formatting, `src/Common/Format.c`, `Fat.c`, `src/Format/Tcformat.c`,
`src/Core/VolumeCreator.cpp`, `FatFormatter.cpp`.** Header, backup header and file system of
a new volume; hidden volumes; abort half way.

**Volumes on Unix, `src/Volume`.** `EncryptionThreadPool.cpp` (the pool of the first
paragraph, with exceptions carried from the workers to the caller), `Volume.cpp` (opening a
volume over all layouts and algorithms, hidden-volume write protection), `VolumeHeader.cpp`,
`VolumeLayout.cpp`, `Keyfile.cpp`, `VolumePasswordCache.cpp`.

**Unix core, `src/Core`, `src/Core/Unix`.** `CoreUnix` and `CoreLinux` mount a volume in
several steps (directory, FUSE file system, loop device, kernel device mappings, file system)
and undo them when one fails. They keep no state and take no lock: what is mounted is read from
the table of mounted file systems and from the control file of each FUSE service, at several
moments of a call. `CoreService` runs a privileged process and talks to it over pipes;
`RandomNumberGenerator` mixes entropy. Hard: one step of several failing, two processes that
mount at the same time, a record that outlives its device. Correct when nothing is left of a
failed call, a slot or a device belongs to one volume, and a call for one volume leaves the
others alone.

**FUSE service, `src/Driver/Fuse/FuseService.cpp`.** The file system that exposes the
decrypted volume; concurrent reads and writes, control file, dismount.

**Password cache, keyfiles, random pool, wiping, `src/Common/Cache.c`, `Keyfiles.c`, `Random.c`,
`Wipe.c`, `Password.c`.** Small sequential algorithms with ring buffers and counters.

**Platform layer, `src/Platform`.** Threads, mutexes, auto-reset events, pipes, processes,
streams.

**Android application, `android/app/src/main`.** `CreateVolumeActivity` writes a volume file
(header, encrypted data area) and a key file; `MountVolumeActivity` reads the header, derives
the key and reveals the master key; `CryptoNative` and `jni/qubesdroid_crypto.c` wrap the
cryptography; both activities work on a background thread while the user goes on selecting
files. Hard: a failure half way through creation, a selection that changes while a mount
runs, and whether a volume that was created can be mounted at all.

**User interfaces, installers, third-party code.** `src/Mount`, `src/Main`, `src/Common/Dlgcode.c`,
`src/ExpandVolume`, `src/Setup`, `src/COMReg`, `src/Crypto`, `src/PKCS11`, `src/Common/lzma`,
`zlib`, `libzip`, smart-card classes, translations and documents. Not modelled.

## 2. Plan

The order follows what is lost when a part goes wrong: first the machinery every sector
passes through, then the code that rewrites the drive under a running system, then what opens
and creates volumes.

| | Module | Uses | State |
|---|---|---|---|
| 1 | `ParallelTransform` | | abstract specification of the thread pool; done |
| 2 | `EncryptionThreadPool` | implements 1 | done; safety and the refinement proved |
| 3 | `HeaderKeyDerivation` | abstracts the ring of 2 to a bounded FIFO | done; safety proved |
| 4 | `EncryptedIoQueue` | | done; safety proved |
| 5 | `SystemEncryptionSetup` | `HeldIsQuiet` of 4 | done; safety proved |
| 6 | `AndroidVolume` | | done; safety proved |
| 7 | `InPlaceEncryption` | | done; safety proved |
| 8 | `UnixMount` | | done; safety proved |
| 9 | decoy wipe | second thread of 5 | `DriveFilter.c`, 2100 to 2290 |
| 10 | `FragmentRemap` | pure operators | the hidden system's remapping of offsets (`EncryptedIoQueue.c`, 503 to 556), against a reference definition |
| 11 | C++ pool | implements 1 | `EncryptionThreadPool.cpp`: exceptions, a start that fails half way |
| 12 | `VolumeCreator`, `Format` | 11 | creation, abort, hidden volume |
| 13 | `PasswordCache` | pure operators | `Cache.c`, `VolumePasswordCache.cpp` |

Abstract specifications worth stating: `ParallelTransform` for both pools; a register per
sector (a read returns the last completed write) for the I/O queue, whose parts are the
properties `ReadsLatest` and `WritesLand`.

Every invariant and every action property that a passing run checks is proved. The theorems
worth proving next are those of the modules 9 to 13.

## 3. The modules

Each module describes one component. An action is one step another thread can fall between: a
lock, an interlocked operation, an event, a device access, or a stretch of code that touches
nothing shared. A thread's position is a name (`pc`, `at`) for the statement it comes to next.
`PROJECT.json` maps each definition to its lines. Definitions that begin with "Mutant of" are
plausible mistakes; the specifications do not use them, they serve to show that a property
notices. Paths in this section are below `src/` of the repository.

### 3.1 EncryptionThreadPool and ParallelTransform

`Common/EncryptionThreadPool.c`: `EncryptionThreadPoolDoWork` (`Call`, `DoWork(c)`),
`EncryptionThreadProc` (`Worker(w)`), `EncryptionThreadPoolStart` and `Stop` (`Start`,
`BeginStop`, `EndStop`). The ring is `itemState`, `item`, `firstFragment`, `outstanding` and
`itemCompleted`; the two mutexes have a holder, the two auto-reset events are flags that one
waiter consumes. A buffer is `data[c]`, how often each of its units was transformed, so that a
unit left out or transformed twice shows. `op[c]` holds the locals of a call, `Split` the
division into fragments. `queueSize` is `ThreadQueueSize`, which `Start` may enlarge for good.

The order in which a worker gives its slot back (free, signal, decrement, complete) is kept
step by step. What touches only locals is part of the step before it: the test for the first
fragment of `WorkerWork`, the return of `Signal`. The order matters: after the slot is free the worker still reads the slot's
`FirstFragment`, three times. `FollowsOwnOperation` says this is harmless, for a reason that
is nowhere written down: a client that would refill the slot must first pass the slot of
that operation's first fragment, which is not free. It compares the slot with `serving[w]`, a
history of whose operation the worker's fragment was part of when it was claimed: the slot's own
record would not do, because a refill overwrites it together with `FirstFragment`.
`NoLostWakeup` says why one auto-reset
event that all clients wait for is enough: a client that is woken for another's sake checks
its slot again, and any slot that is freed afterwards is signalled.

`ParallelTransform` is what clients rely on: between call and return each unit is transformed
once. The refinement maps `called` to the clients that are not idle and `units` to the local
of the call; `data` is the same variable.

Environment: `Stop` is called when no client is in a call. This is how the program calls it:
when the driver unloads, and when an application or the FUSE service ends. A call that finds
the pool not running works on the calling thread. `Sizes` are the numbers of units a call may
have; a call with no units returns at once and is left out.

### 3.2 HeaderKeyDerivation

`Common/Volumes.c`, `ReadVolumeHeader`, with `EncryptionThreadPoolBeginKeyDerivation` and the
key derivation branch of the worker. The caller queues a derivation for the next algorithm
while fewer are queued than the pool has threads (`count`, `clear` and `push` are the three
steps of `BeginKeyDerivation`), then scans the items for a finished one, tests its key, and
waits when there is none. A worker derives, marks the item, sets `keyDone`, decrements
`outstanding` and, when it has reached zero, sets `noneLeft` in a second step. With one thread
or a selected algorithm the caller derives the keys itself. The pool is a bounded queue here:
its ring is the subject of 3.1. What opens the header is an input: an algorithm, or none.

`ResultRight` compares the outcome with the search over all admissible algorithms: `wrong` is
answered only if none of them opens the header, `success` only with the right one. The
interplay behind it is subtle: an item may be finished between the scan and the wait, two
workers may set the auto-reset event before the caller wakes once, the ring may be full.

### 3.3 EncryptedIoQueue

`Driver/EncryptedIoQueue.c`. `AddIrp(i)` runs in the thread that issued the request, `Main`,
`Io`, `Completion` are the three threads, `Work(i)` the system work item that completes a
request, `Hold` is `EncryptedIoQueueHoldWhenIdle` and `ResumeFromHold` with what their caller
does in between, `Stop` is `EncryptedIoQueueStop`. A sector holds the request that wrote it
and whether it is encrypted. `log`, `got` and the status of a request are the history that the
properties speak about.

Kept: the two fragment buffers and their events, the four counters and what is set when one
reaches zero, the work item semaphore, the pool of items and requests with the wait for a free
one, the misaligned read that the main thread makes itself, read-ahead and its invalidation,
the refusal of writes that would reach a protected hidden volume or the header of the drive,
failures of the device, cancelled requests, the hold with its time limit and its second look
at the count after `Suspended` is set, stop with the threads joined one after the other.
A fragment is one sector. Left out: the remapping of a hidden system's drive, sizes and
alignment, the registry settings, throughput accounting.

Environment: a hold and a stop do not overlap, and there is one holder at a time (the setup
thread, which refuses a hidden system, or the wipe thread, which requires one). While it
holds the queue, the holder may transform the sector at the end of the encrypted area and
move that end.

### 3.4 SystemEncryptionSetup

`Driver/DriveFilter.c`: `SetupThreadProc`, `SaveDriveVolumeHeader`, `MountDrive`,
`DismountDrive`, `StartBootEncryptionSetup`, `AbortBootEncryptionSetup`; the shutdown of
`Driver/Ntdriver.c`. `pc` is where the thread is: it waits for the hold, reads, wipes, writes
or undoes a block, moves the end of the area and perhaps saves the header. `disk` says of each
unit what form its data has; `latest` what was last written to it; `lost` which units a crash
or the device has destroyed, the only excuse `Readable` accepts. `View` is what a read of the
system returns, given the encrypted area the driver believes in.

A crash (`Crash`) turns the machine off at any step, also in the middle of a write, which then
has reached any part of the block. A write that fails reaches any part too, and is undone with
the buffer, which may fail as well. A read that fails is retried sector by sector, and what
cannot be read is replaced. A restart knows only `header`. The system writes to the drive
whenever the queue is not held: the module takes from 3.3 that a held queue is quiet.

The thread calls `HoldWhenIdle` again until it succeeds (`DriveFilter.c`, 1538, 1614, 1775), which
a busy system need not let happen. So its steps are in two parts: `AfterHold`, what comes after a
hold that has succeeded, and `OnItsOwn`, the rest; fairness is stated for the second only.
`StartBootEncryptionSetup` has a guard that the code has not: not while the system shuts down,
when no user process is left to call it.

### 3.5 AndroidVolume

`CreateVolumeActivity`, `MountVolumeActivity` and `jni/qubesdroid_crypto.c` of the Android
application. An attempt to create a volume goes through the stages of `createVolumeFile`; it
outlives the activity it was started in, so several may be under way. It writes the key file,
then the volume, cell by cell; any stage may fail and the process may be killed. The mount
activity has a background thread with a queue of tasks and a user interface thread with posts;
`volumeHeader` is shared by both. A cell is known by the attempt that wrote it.
`DeriveKey` has the one condition of the native code that matters: the length of the salt.

### 3.6 InPlaceEncryption

`Format/InPlace.c`: `EncryptPartitionInPlaceBegin` and `Resume`, `DecryptPartitionInPlace`,
`FastVolumeHeaderUpdate`, `ConcealNTFS`, and the part of `Format/Tcformat.c` that starts, defers
and resumes them. `cell` is the device in units of a header group, by which the data move:
unit `u` of the file system lies plain in cell `u` and encrypted in cell `u + 1`, so a chunk
that is written overwrites what was just read. `pc` is where the transform thread is: it
conceals the start of the file system, reads, wipes, writes or undoes a chunk, updates the
backup header, and finishes with the primary header; in the other direction the primary
header goes first. `Wrong` says which units are not where a header with a given length looks
for them; `ConcealedRight` what the concealment must be for a resumed run.

A crash stops everything at any step, and a chunk being written may have reached the device in
any part. A write that fails may also have reached any part; encryption then undoes it from
the buffer, decryption does not. A concealment that cannot be written is undone by a write that
is repeated until it succeeds (`Unconceal`; `InPlace.c`, 2100 to 2105), and a chunk in which
sectors were zeroed is read again from its start, until nothing fails (951). Neither has a limit;
`Repeats` says when the thread is at one of them. At most one cell cannot be read. After a restart the wizard
finds the partition by its backup header and resumes it in the direction it asks for, if it
finds it at all. `lost`, `cut` and `before` are history: what a crash or the device has
destroyed, whether one came between the concealment and the header that goes with it, and what a
decryption that was started on the whole volume found destroyed.

Abstracted: headers and the concealment are written atomically; wiping a chunk or a header in
several passes is one step; dialogs choose freely. Left out: shrinking and dismounting the file
system, the count of partitions in the settings and the startup sequence built on it. No other
program writes to the partition while it is being transformed.

### 3.7 UnixMount

`Core/Unix/CoreUnix.cpp`, `Core/Unix/Linux/CoreLinux.cpp` and the mount and control file of
`Driver/Fuse/FuseService.cpp`, for file-hosted volumes on default mount points. The system is
five tables: FUSE services (each with what its control file remembers), directories made for
them, default mount directories, devices with what each is over, and mounted file systems. A
caller is a process; `pc` is the command it comes to next, `arg` what it was asked, `my` its
locals, such as the list of mounted volumes it has read. Each command that is executed and
each look at a table is a step: another process may fall between any two.

`Layers` are the numbers of ciphers: with 0 the loop device is over the image in the FUSE
directory, otherwise the kernel decrypts and a cascade of device mappings is over the loop
device. A command fails when the kernel must refuse it (in use, exists, gone) or by one of
`MaxFaults` failures with no reason in the model. What the code does then is its undoing, in its
order; where the code ignores the failure, so does the model. `overlapped`, `leaked` and `half`
are history: whether calls at odds have overlapped (both mount, both unmount, or both are about
one volume), what a failed call has left for good, and whether an unmount failed after it had
detached its loop device. The three properties of `unix_mount` are claimed under these
conditions, and section 5 says what happens outside them.

Abstracted: the slot is always the first free one; waiting for a device succeeds unless its
creation failed; the devices of a cascade are removed in one step; a second attempt to mount
with other options is folded into the first. Left out: device-hosted volumes, mount points the
user chooses, a FUSE service that unmounts itself on a signal.

## 4. What is checked

Each run is a configuration of an `MC` module. Unless "not" is said, TLC finds no error.

| Run | Configuration | Shows |
|---|---|---|
| `pool` | `EncryptionThreadPool.cfg` | Slots are exclusive, a worker follows its own operation, no wake-up is lost, the pool implements `ParallelTransform`, each call returns and each stop ends. |
| `header` | `HeaderKeyDerivation.cfg` | The concurrent search gives the sequential answer, shares no item, and returns. |
| `header_cleanup` | `HeaderKeyDerivationFree.cfg` | Not: the caller may free what a worker still uses. |
| `ioqueue_hold` | `EncryptedIoQueueHold.cfg` | A held queue is quiet; no sector is written with the wrong encryption; reads return the latest write. |
| `ioqueue_stop` | `EncryptedIoQueue.cfg` | Fragment buffers are exclusive, writes land in order, counters balance, the protection of a hidden volume holds, a stop leaves nothing behind. |
| `ioqueue_ends` | `EncryptedIoQueueLive.cfg` | Accepted requests complete, holds and stops return. |
| `ioqueue_pool_freed` | `EncryptedIoQueueFree.cfg` | Not: a stop may free a pool while a work item still returns its buffer. |
| `setup` | `SystemEncryptionSetup.cfg` | The system reads what it wrote, the header is kept while it is needed, a shutdown loses nothing, a crash loses no more than the blocks between two saves; setups and aborts end unless the system is never idle again. |
| `inplace` | `InPlaceEncryption.cfg` | From whatever a crash leaves, a header leads to all data that were not destroyed; a volume that can be mounted is whole, but for the first units where a decryption was cut short at once (section 5), and so is a file system that was decrypted; a crash destroys less than the units between two header updates and a chunk; a run ends, unless it repeats for ever what the device refuses. |
| `unix_mount` | `UnixMount.cfg` | A call that fails leaves nothing, a slot or a device serves one volume, a mounted volume stays mounted whole while others come and go. |
| `unix_stale` | `UnixMountStale.cfg` | Not: unmounting one volume unmounts another. |
| `android` | `AndroidVolume.cfg` | A mount needs a header; a volume that was reported survives attempts that do not overlap with its own; the activity is released. |

### Bounds

- *Pool*: two workers and two clients, the fewest that contend on each side. The ring has two
  slots, or three once the pool is started with several processor groups. In the first an
  operation may find its first slot still held by the one before it; in the second an operation
  of two fragments wraps within itself, at every offset, and may find its second slot held.
  Three units over two threads have a remainder; a call of one unit does not use the pool.
- *Header*: three algorithms, two threads, a ring of three: the ring is reused, one algorithm
  is refused when booting, and the last is found after others were tested. The run that fails
  needs only two algorithms.
- *I/O queue*: two fragment buffers, as in the code, two sectors and up to two requests. In the
  stop run requests may have two fragments and there are two items, three request buffers and one
  work item, so that both requests are in flight: fragment buffers, request buffers and the work
  item are waited for. The hold run has one item, which the second request waits for, two request
  buffers and one hold. The liveness run has one of each pool, one request, two holds and a stop:
  there each fragment waits for the request buffer of the one before. Two sectors suffice for a
  request of two fragments, for reading ahead of another request, and for an area whose end moves
  between them. A read-ahead that is stale after a write, and then used, would take three requests
  and lies beyond the run; `ReadsLatest` is proved for any number of them (section 6).
- *System encryption*: three units in blocks of two, so that the last block is smaller. The
  header is saved after two units: after the first block, and for the last one when the thread
  ends, or later when saving fails; a crash may destroy two of the three units. Crashes,
  restarts, shutdowns, failures and requests are not bounded. Data are single bits, changed by
  each write.
- *In-place encryption*: five units in chunks of two, so that the last chunk is smaller and three
  chunks are needed; the backup header is written when three units have passed, so a chunk
  lies between two updates. Crashes, pauses, deferrals and resumptions are not bounded.
- *Unix*: two processes, two volumes, two slots and three calls, so that two calls overlap after
  or before a third; one failure, while `NothingIsLost` (section 6) speaks of any number. The run
  that fails needs one process and four calls.
- *Android*: two attempts under one name, one block, two pending tasks and posts. The second
  attempt may be started before, during or after the first.

Symmetry is used in runs without liveness only: for the requests of the I/O queue, and for the
processes and the volumes of the Unix mounts. Deadlock is checked for the pool, the header and
the system encryption. The I/O queue may stop, and all of its requests may be done; a partition
whose headers no wizard finds stays as it is; the calls of the Unix run may be used up; the
user of the Android application may be idle.

### Fairness

- *Pool*: weak for each thread, because the scheduler runs what can run; strong for obtaining
  `EnqueueMutex`, because kernel mutexes are granted to waiters in turn. Nobody has to call,
  start or begin to stop.
- *Header*: weak for the caller and each thread.
- *I/O queue*: weak for the threads, for each work item, and for a hold, a stop or an `AddIrp`
  that has begun.
- *System encryption*: weak for what the setup thread does on its own (`OnItsOwn`) and for the
  return of an abort. Nothing is assumed of a hold: `HoldEnds` of the I/O queue says that a call
  returns, not that it succeeds. So `SetupEnds` excepts a thread that from some time on is always
  where it waits for a hold, and `AbortEnds` one that is always at the hold after a decryption
  (`clear`), which is not given up for an abort. Reads, writes and saves may fail each time.
- *In-place encryption*: weak for the transform thread, except where it repeats what has failed
  (`Repeats`): the device need not recover, and `RunEnds` excepts a thread that stays there.
  Nobody has to resume, pause or defer.
- *Unix*: none; there is no liveness property.
- *Android*: weak for each attempt, which runs on a thread of its own. Nothing is assumed of
  the user.

### Mutants

For every property of a passing run a plausible mistake is listed for which TLC finds the
property violated: a slot freed before its last use, an event set before the request is in its
list, a count not read again, a hold left out, a cache not invalidated, a header saved too
late, a failed write undone with what was to be written, a device left by an undo.

## 5. What the code does not keep

- `ioqueue_pool_freed`. `CompleteIrpWorkItemRoutine` decrements `ActiveWorkItems` before it
  gives back the work item, the semaphore and the item's buffer. `EncryptedIoQueueStop` waits
  for that count only, and may free the pools in between (`EncryptedIoQueue.c`, 328 and 1308),
  against the assertion in `FreePoolBuffers`.
- `header_cleanup`. A worker that finishes the last outstanding derivation sets
  `noOutstandingWorkItemEvent` in a second step. If the caller counts and queues the next one
  in between and clears the event first, the event is set while a derivation is outstanding,
  and the wait before the cleanup passes at once (`EncryptionThreadPool.c`, 283 and 569).
- `unix_stale`. An unmount that has detached the loop device and then fails to unmount the FUSE
  directory leaves a service that remembers the device (`CoreUnix.cpp`, 179 to 214). When
  another volume has got the same loop device, `GetMountedVolumes` finds its mount point for
  the first volume (391 to 397): unmounting the first again unmounts the file system of the
  other and detaches its device.

The following facts are built into the models and limit what the properties claim.

*System encryption.* When the last save of the drive's header fails, nothing saves it later
(`CrashLosesLittle` and `ShutdownLosesNothing` speak of a header that was saved). A system that is
never idle keeps the thread at its hold (`DriveFilter.c`, 1538, 1614, 1775). At the last of these,
after a decryption, an abort does not end the wait, so the abort waits too.

*In-place encryption.*

- The wizard finds interrupted partitions by their backup header, and only those whose encrypted
  area is not complete (`Tcformat.c`, 384 to 389 and 428 to 432). A pause or a deferral during
  the last chunk, or a crash between the last update of the backup header and the primary
  header, leaves a volume that only its backup header opens, and nothing writes the primary
  header later. `Recoverable` counts the backup header.
- `ConcealNTFS` is a toggle. A crash or an error between it and the header that goes with it
  (`InPlace.c`, 672 and 1697) makes a resumed run toggle it back: the run finishes, and the start
  of the file system stays concealed (`FinishedIsClean` excepts `cut`).
- A write that fails while decrypting is not undone (1634): what was overwritten is lost.
- A decryption that ends before its first update of the backup header, by a crash or because the
  device fails, leaves a header that says that everything is encrypted, though the first chunks
  are not. Such a volume can be mounted, encrypted in part; a comment at `InPlace.c`, 1882, names
  partial mounts as what its flag is there to prevent, and after the first update it does.
  `MountedIsWhole` bounds the units concerned: they are among the first `Interval + ChunkSize - 2`.
- Two repetitions have no limit: of the write that undoes a concealment (2100 to 2105), and of the
  reading of a chunk whose sectors were zeroed (951). A device that goes on failing keeps the
  thread there; a pause ends the second only.
- Starting a decryption twice counts the partition twice in the settings; no state that is
  modelled depends on it.

*Unix mounts.*

- No lock is held, and files are not locked (`Platform/Unix/File.cpp`, 289): two overlapping
  mounts of one volume may both pass the check that it is not mounted, and both succeed. The
  check afterwards (`CoreUnix.cpp`, 795) can never see two, since `GetMountedVolumes` stops at
  the first (402). If one of them fails, its undoing unmounts what the other has mounted (783 to
  787).
- A cascade whose later device cannot be created leaves the earlier ones and the loop device
  (`CoreLinux.cpp`, 412 and 482).
- A mount that is undone ignores that its own FUSE service cannot be unmounted (`CoreUnix.cpp`,
  198 to 214 and 790): the service stays, with the loop device if that could not be detached.
- A control file that is not seen in time leaves the FUSE mount (`CoreUnix.cpp`, 707 to 719); a
  failing change of owner leaves the mount directory (733 to 739); a failure to detach after the
  unmount is ignored and leaves the loop device (185).

*Android.* Two attempts to create a volume that overlap under one name both pass the check for
an existing file, and the later one replaces the volume of the earlier (`ReportedAloneIntact`
speaks of attempts without rivals). And no volume that the application creates can be mounted:
the salt in the header is 16 bytes padded to 32; the native derivation accepts only 16 and
returns null, which ends the process. With a key, the nonce would be wrong too: it is random
when the volume is created and is not stored. So what follows a derived key in
`MountVolumeActivity` is not reached by a volume of the application's own.

## 6. What is proved

The theorems hold for all values of the constants that the named assumptions allow. The module
of a theorem is that of its component with `_proofs` at the end; the refinement and the safety
of the pool are in `ParallelTransform_proofs`.

| Component | Theorem | States | Assumption |
|---|---|---|---|
| Thread pool | `TypeCorrect` | `Spec => []TypeOK` | `PoolAssumption` |
| | `FirstFragmentHolds` | `Spec => []FollowsOwnOperation` | |
| | `OneWorkerPerSlot` | `Spec => []ExclusiveSlot` | |
| | `WakeupsArrive` | `Spec => []NoLostWakeup` | |
| | `PoolTransforms` | `Spec => AbstractSpec`, the refinement | |
| Header | `HeaderTypes` | `Spec => []TypeOK` | `HeaderAssumption` |
| | `DerivationsExclusive` | `Spec => []SlotExclusive` | |
| | `SearchRight` | `Spec => []ResultRight` | |
| I/O queue | `CountsAreRight` | `Spec => []Balanced` | `QueueAssumption` |
| | `OneBufferUser` | `Spec => []FragmentExclusive` | |
| | `HoldIsExclusive` | `Spec => []HeldIsQuiet` | |
| | `AreaIsRight` | `Spec => []DriveConsistent` | |
| | `StopFreesUnused` | `Spec => []StopIsQuiet` | |
| | `WritesReachTheDevice` | `Spec => []WritesLand` | |
| | `ProtectedStaysProtected` | `Spec => []ProtectionHolds` | |
| | `ReadsAreCurrent` | `Spec => []ReadsLatest` | |
| System encryption | `TypeCorrect` | `Spec => []TypeOK` | `SetupAssumption` |
| | `ReadsRight` | `Spec => []Readable` | |
| | `KeysStay` | `Spec => []KeysKept` | |
| | `ShutdownIsSafe` | `Spec => ShutdownLosesNothing`, an action property | |
| | `CrashIsSmall` | `Spec => CrashLosesLittle`, an action property | |
| In-place encryption | `HeaderTells` | `Spec => []Recoverable` | `InPlaceAssumption` |
| | `NeverInPart` | `Spec => []MountedIsWhole` | |
| | `CleanFinish` | `Spec => []FinishedIsClean` | |
| | `CrashIsBounded` | `Spec => CrashLosesLittle`, an action property | |
| Unix mounts | `MountedOnce` | `Spec => []Alone` | `UnixMountAssumption` |
| | `Soundness` | `Spec => [](IInv /\ OInv /\ SInv)` | |
| | `MountedIsKept` | `Spec => []MountedStaysWhole` | |
| | `NothingIsLost` | `Spec => []Accounted` | |
| Android | `ReportedStays` | `Spec => []ReportedAloneIntact` | `AndroidAssumption` |
| | `MountHasHeader` | `Spec => []HeaderBeforeMount` | |

Each invariant was first checked by TLC on the instance of its run. Below is the argument of each
component: what must be added to the property so that every step preserves it.

*Assumptions.* They exclude what the code excludes. `PoolAssumption`: at least one thread, in
either ring at least as many slots as threads (the code has twice as many), calls of at least
one unit, and an owner for a free mutex. `HeaderAssumption`: at least one algorithm and a ring
of at least one slot; nothing relates the ring to the number of threads. `QueueAssumption`: at
least one of each resource, requests that are not empty, misaligned ones only for reads of the
drive filter, and holds only of a queue of the drive filter, because `DriveFilter.c` alone calls
`EncryptedIoQueueHoldWhenIdle`. `SetupAssumption`, `InPlaceAssumption` and `AndroidAssumption`:
sizes, blocks and intervals of at least one. `UnixMountAssumption`: at least one slot, and a
`None` that is neither a volume nor a device nor a number.

*The pool's types.* `TypeOK` alone is not inductive: `DoWork` decrements the length of a
fragment when the remainder is used up, and the length would leave the natural numbers if it
were zero. `Shortenable` adds that it is not while a remainder is left.

*The pool's slots and the refinement.* The slots that an operation has filled follow its first
one (`Held`) and stay its own (`Owned`), because the head of the ring never gets past a first
slot that is not free (`Ahead`); that slot is given back only when the count has come to zero,
and the count is the number of fragments still to be done (`Counted`, a fact about
cardinalities). So the slot a worker looks at again has not been refilled. For the refinement
the fragments of an operation tile its buffer (`Tiled`), no unit belongs to two of them
(`Shared`), and a unit has been transformed once when its fragment has been done
(`Transformed`). Every step of the pool is then a step of `ParallelTransform` or a stutter.
`WakeupsArrive` needs that only the holder of `EnqueueMutex` waits for a slot: there is never a
second waiter to take the event.

*The header's result.* The inductive invariant is

    IInv == TypeOK /\ Control /\ SlotExclusive /\ KeysRight /\ Covered /\ ItemsCounted /\ ResultRight

`Covered` carries the argument: an algorithm that the loop has passed and that opens the header
still has its item, or its key is being tested. So "wrong password" can be answered only when
no admissible algorithm opens the header, provided that no item is left when the loop ends;
that is `ItemsCounted`: `queued` is the number of items in use, a fact about cardinalities that
rests on the theorems of `FiniteSetTheorems`. `KeysRight` says that the key of a finished item
is complete, since nothing is aborted before the answer is known; that the key belongs to the
item's algorithm rests on `SlotExclusive`. `Control` says where the caller may be.

*The I/O queue.* The first part follows the fragments. They pass through the three lists and the
three threads in the order in which `AddIrp` accepted the requests, and those of one request in
the order of their sectors (`Queued`, `Entered`, `Ordered`). So behind the last fragment of a
request there is none of the same request, whoever finishes it finishes the request, and the
counters are the cardinalities of what is left (`Balanced`). When the count is zero while the
queue is suspended or being stopped, nothing is on the way: a held queue is quiet, and a stop
frees what nobody uses. The second part follows the data. `Delivering`: nothing on the device is
later than what is yet to be written to the same sector, every accepted write is pending or has
landed, and a write that was refused never gets there. `Returning`: at each stage of a read (in
the read-ahead buffer, read directly, in a fragment, in the completion list, given back) the data
are the latest that had been written when the read was accepted, or later. The three invariants
are proved one after the other, each with the ones before it.

*System encryption.* While a block is on its way, the buffer stands for it (`Right`); the block
lies at the end of the encrypted area, on the side that is about to change (`Positioned`); the
header tells the area unless an update is required or the last save failed (`Current`), and is
behind by no more than the units that were counted since (`Counted`).

*In-place encryption.* A cell holds the unit of its own number or, encrypted, the one before
(`Near`). Each unit is where the length says, or in the buffer (`Right`); the backup header is
behind by no more than the units counted (`Behind`); a primary header is there only when
everything is encrypted (`Whole`); the start of the file system is concealed while it is moved
(`Confined`, `Veiled`, `Prepared`), and what undoes a failed concealment is what was there
(`Undone`). `NeverInPart` needs `Mountable` besides: while a decryption has not updated the header
of a whole volume, it has moved only units below the interval and one chunk. That is the exception
that `MountedIsWhole` states and section 5 explains.

*Unix mounts.* Four invariants, each proved with the ones before it. `IInv`: without overlapping
calls at odds there are at most one mount and one unmount, about two volumes (`Apart`), and what
`CheckMounted` and the choice of a slot have found remains true until the service is mounted
(`Listing`). `OInv`: directories differ (`Dirs`); each caller past the start of its mount has one
service, whose record agrees with the caller's variables (`HasService`); there is one file system
to a slot (`Slotted`), and devices have the names the code gives them (`Shape`, `Named`).

`SInv` holds while no unmount has failed halfway, and says what belongs to whom: a live service
(`Devised`) and a mount under way (`Held`) have their loop device to themselves; a cascade lies in
the slot of its service over its loop device, as far as it is built (`Built`); a file system is on
a device that exists (`Filesystems`); a volume whose mount has returned has all of it
(`Completed`). What a step removes is then the caller's own (`LostIsOwn`), so a mounted volume,
whose service is nobody's, is spared. The condition `~half` is needed where it is used: a service
that remembers a detached loop device is the divergence of `unix_stale`. `MountedIsKept` needs
from `Soundness` that a cascade of any length reads through to the volume's own file.

`AInv` carries `Accounted`, and must do without `~half`: whatever has failed, it says what each
device is for. Every device is a loop device over a volume or over the image of a FUSE directory
that is mounted, or is one of a cascade over the former (`Rooted`). A loop device over a volume of
which nothing was left behind is remembered by the volume's service, or belongs to the mount that
made it and has still to record or to undo it (`Claimed`, `Mine`); a service whose mount is not
complete has its caller (`Begun`), which, when it comes to unmount that service, has removed what
was attached to its image (`Shown`, `Clear`). The steps that remove something are where this could
fail: `RemoveDevices` takes a cascade as a whole or not at all, since the devices of a slot are
stacked, a device that is mounted blocks its removal, and only the upper one can be mounted
(`RemovableIsAll`); a loop device is detached only with nothing over it; and a service is
unmounted only when its image is not in use (`ImageStays`). When all callers are idle, no mount
has anything still to undo, so a service is left to list each device. The proof attempt showed a
case the model had not recorded in `leaked`: the undone mount whose own service
stays (section 5), which takes two failures and so lies beyond the run's bound.

*Android.* Two attempts under one name that are both past the check for an existing file have
overlapped, and know each other as rivals (`Apart`), because a volume that is being written
exists. So the files of an attempt without rivals are written by it alone (`Own`).

## 7. What is only model-checked, and what is not modelled

Only model-checked: liveness (out of the prover's reach: fairness and ENABLED), that is the
return of calls, derivations, holds, stops, setups, runs and attempts. The runs that expect a
violation have no theorem either: their traces are the evidence.

Not modelled, each with its reason in `PROJECT.json`: the parts that section 2 plans; the
boot loader and the user interfaces, whose state is that of a single thread or a dialogue;
cryptographic primitives, whose correctness is a matter of arithmetic over large data; installers
and third-party code. `PROJECT.json` also lists the hazards that no property covers yet.
Weak memory and word-level tearing are not modelled: shared flags are read and written whole
and in program order, as the interlocked operations and the kernel's wait functions ensure
where the modules use them, and as x86 does for plain flags.
