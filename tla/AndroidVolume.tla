----------------------------- MODULE AndroidVolume -----------------------------
(***************************************************************************)
(* Creating and mounting volumes in the Android application                *)
(* (CreateVolumeActivity, MountVolumeActivity and the cryptography in      *)
(* jni/qubesdroid_crypto.c).                                               *)
(*                                                                         *)
(* Each attempt to create a volume runs on the background thread of the    *)
(* activity it was started in.  Leaving the activity, or turning the       *)
(* device, does not end the attempt; a new activity may start another one, *)
(* under the same name.  The process may be killed at any time, and any    *)
(* step may fail.  What remains are the files: the secret key <name>.key,  *)
(* and the volume <name>.qd, a header and Blocks blocks.                   *)
(*                                                                         *)
(* An attempt is identified with the master key, the key pair, the salt    *)
(* and the password it chose: all that matters of a cell of a file is      *)
(* which attempt wrote it.                                                 *)
(***************************************************************************)
EXTENDS Naturals, Sequences, FiniteSets

CONSTANTS
    Names,        \* names of volumes
    MaxAttempts,  \* bound on the attempts to create a volume
    Blocks,       \* blocks of a volume
    MaxTasks      \* bound on the tasks and posts pending in the mount activity

ASSUME AndroidAssumption ==
    MaxAttempts \in Nat \ {0} /\ Blocks \in Nat \ {0} /\ MaxTasks \in Nat \ {0}

Attempts == 1 .. MaxAttempts
Nobody   == 0                 \* a cell that is not written; an invalid file
Foreign  == MaxAttempts + 1   \* a volume made on another device
Writers  == Nobody .. MaxAttempts
Headers  == Nobody .. Foreign

VARIABLES
    attempt,  \* each attempt: its stage, name, next block and rivals
    front,    \* the attempt that the activity on the screen waits for, or Nobody
    keyFile,  \* for each name, who wrote the key file
    volume,   \* for each name, whether the file exists and who wrote each cell
    header,   \* volumeHeader of the mount activity
    shown,    \* the header shown on the screen; the mount button comes with it
    queue,    \* tasks of the mount activity's executorService
    posts,    \* how often the UI thread has still to show the header
    locked,   \* whether mountVolume has disabled the activity
    result    \* the last mount: header, password and outcome

files   == <<keyFile, volume>>
mountUi == <<header, shown, queue, posts, locked>>
vars == <<attempt, front, files, mountUi, result>>

Running(a) ==
    attempt[a].stage \in {"check", "keys", "openKey", "writeKey", "derive", "open",
                          "header", "blocks", "report"}

NoVolume == [exists |-> FALSE, cell |-> [i \in 0 .. Blocks |-> Nobody]]

Init ==
    /\ attempt = [a \in Attempts |-> [stage |-> "new", name |-> CHOOSE n \in Names : TRUE,
                                      block |-> 1, rivals |-> {}]]
    /\ front = Nobody
    /\ keyFile = [n \in Names |-> Nobody]
    /\ volume = [n \in Names |-> NoVolume]
    /\ header = Nobody /\ shown = Nobody
    /\ queue = <<>> /\ posts = 0 /\ locked = FALSE
    /\ result = [header |-> Nobody, password |-> Nobody, outcome |-> "none"]

-----------------------------------------------------------------------------
(* CreateVolumeActivity *)

\* The user starts the next attempt; the activity waits for it.
CreateVolume(n) ==
    /\ front = Nobody
    /\ \E a \in Attempts :
           /\ attempt[a].stage = "new" /\ \A b \in 1 .. a - 1 : attempt[b].stage # "new"
           /\ attempt' = [attempt EXCEPT ![a].stage = "check", ![a].name = n]
           /\ front' = a
    /\ UNCHANGED <<files, mountUi, result>>

\* The activity is left, or made anew because the device was turned.
Leave ==
    /\ front # Nobody
    /\ front' = Nobody
    /\ UNCHANGED <<attempt, files, mountUi, result>>

Goto(a, from, to) ==
    attempt[a].stage = from /\ attempt' = [attempt EXCEPT ![a].stage = to]

Rivals(a) == {b \in Attempts \ {a} : /\ attempt[b].name = attempt[a].name
                                     /\ Running(b) /\ attempt[b].stage # "check"}

\* Mutant of Check: an existing volume is no obstacle.
CheckNothing(a) ==
    /\ attempt[a].stage = "check"
    /\ attempt' = [attempt EXCEPT ![a].stage = "keys", ![a].rivals = Rivals(a)]
    /\ UNCHANGED <<front, files, mountUi, result>>

\* No volume of that name exists yet.
Check(a) ==
    /\ attempt[a].stage = "check" /\ ~volume[attempt[a].name].exists
    /\ attempt' = [attempt EXCEPT ![a].stage = "keys", ![a].rivals = Rivals(a)]
    /\ UNCHANGED <<front, files, mountUi, result>>

\* The master key and the ML-KEM key pair.
GenerateKeys(a) ==
    /\ Goto(a, "keys", "openKey")
    /\ UNCHANGED <<front, files, mountUi, result>>

\* FileOutputStream creates a file or truncates it.
OpenKeyFile(a) ==
    /\ Goto(a, "openKey", "writeKey")
    /\ keyFile' = [keyFile EXCEPT ![attempt[a].name] = Nobody]
    /\ UNCHANGED <<front, volume, mountUi, result>>

WriteKeyFile(a) ==
    /\ Goto(a, "writeKey", "derive")
    /\ keyFile' = [keyFile EXCEPT ![attempt[a].name] = a]
    /\ UNCHANGED <<front, volume, mountUi, result>>

\* Derive the key from the password; encrypt the master key; build the header.
DeriveKeyAndEncrypt(a) ==
    /\ Goto(a, "derive", "open")
    /\ UNCHANGED <<front, files, mountUi, result>>

OpenVolume(a) ==
    /\ Goto(a, "open", "header")
    /\ volume' = [volume EXCEPT ![attempt[a].name] = [NoVolume EXCEPT !.exists = TRUE]]
    /\ UNCHANGED <<front, keyFile, mountUi, result>>

WriteHeader(a) ==
    /\ Goto(a, "header", "blocks")
    /\ volume' = [volume EXCEPT ![attempt[a].name].cell[0] = a]
    /\ UNCHANGED <<front, keyFile, mountUi, result>>

WriteBlock(a) ==
    LET i == attempt[a].block IN
    /\ attempt[a].stage = "blocks"
    /\ volume' = [volume EXCEPT ![attempt[a].name].cell[i] = a]
    /\ attempt' = [attempt EXCEPT ![a].block = IF i < Blocks THEN i + 1 ELSE i,
                                  ![a].stage = IF i < Blocks THEN "blocks" ELSE "report"]
    /\ UNCHANGED <<front, keyFile, mountUi, result>>

FinishActivity(a) == front' = IF front = a THEN Nobody ELSE front

\* "Volume created successfully!", and the activity finishes.
Report(a) ==
    /\ Goto(a, "report", "done")
    /\ FinishActivity(a)
    /\ UNCHANGED <<files, mountUi, result>>

\* An exception: a volume of that name exists, a native function returned null,
\* or a file could not be written.  What was written remains.
Fails(a) ==
    \/ attempt[a].stage = "check" /\ volume[attempt[a].name].exists
    \/ attempt[a].stage \in {"keys", "openKey", "writeKey", "derive", "open",
                            "header", "blocks"}

\* Mutant of Fail: the activity stays disabled.
FailSilently(a) ==
    /\ Fails(a)
    /\ attempt' = [attempt EXCEPT ![a].stage = "failed"]
    /\ UNCHANGED <<front, files, mountUi, result>>

\* The error is shown and the activity is enabled again.
Fail(a) ==
    /\ Fails(a)
    /\ attempt' = [attempt EXCEPT ![a].stage = "failed"]
    /\ FinishActivity(a)
    /\ UNCHANGED <<files, mountUi, result>>

Create(a) == \/ Check(a) \/ GenerateKeys(a) \/ OpenKeyFile(a) \/ WriteKeyFile(a)
             \/ DeriveKeyAndEncrypt(a) \/ OpenVolume(a) \/ WriteHeader(a) \/ WriteBlock(a) \/ Report(a) \/ Fail(a)

-----------------------------------------------------------------------------
(* The cryptography: keys and ciphertexts are what they were made from. *)

NoKey == <<>>

\* deriveKeyFromPassword refuses a salt that is not 16 bytes long.
DeriveKey(password, salt) ==
    IF salt.length # 16 THEN NoKey ELSE <<password, salt.of>>

\* What the header of volume h holds: the salt padded to 32 bytes, and the
\* master key encrypted with a random nonce that is not stored.
StoredSalt(h) == [of |-> h, length |-> 32]
EncryptedMasterKey(h) ==
    [key |-> DeriveKey(h, [of |-> h, length |-> 16]), nonce |-> "random"]

\* mountVolume derives the key and tries the zero nonce.  A null key makes the
\* native code ask for the elements of a null array, which ends the process.
MountOutcome(h, password) ==
    LET key == DeriveKey(password, StoredSalt(h)) IN
    IF key = NoKey THEN "crashed"
    ELSE IF EncryptedMasterKey(h) = [key |-> key, nonce |-> "zero"] THEN "mounted"
    ELSE "incorrect"

-----------------------------------------------------------------------------
(* MountVolumeActivity *)

FreshActivity ==
    /\ header' = Nobody /\ shown' = Nobody
    /\ queue' = <<>> /\ posts' = 0 /\ locked' = FALSE

\* The activity is opened again, or made anew.  The tasks of the old one go on,
\* but they change nothing that the new one sees.
OpenMountActivity ==
    /\ FreshActivity
    /\ UNCHANGED <<attempt, front, files, result>>

\* Tasks and posts that are pending; their number is bounded.
Pending == Len(queue) + posts

\* Mutant of SelectVolume: the mount button is shown at once.
SelectAndShow(n) ==
    /\ ~locked /\ Pending < MaxTasks
    /\ volume[n].exists
    /\ queue' = Append(queue, [task |-> "read", file |-> n])
    /\ shown' = Foreign
    /\ UNCHANGED <<attempt, front, files, header, posts, locked, result>>

\* The directory listing offers a volume, of any name: the first that is found.
SelectVolume(n) ==
    /\ ~locked /\ Pending < MaxTasks
    /\ volume[n].exists
    /\ queue' = Append(queue, [task |-> "read", file |-> n])
    /\ UNCHANGED <<attempt, front, files, header, shown, posts, locked, result>>

\* Without volumes in the directory, the user picks a file, which is copied.
PickFile ==
    /\ ~locked /\ Pending < MaxTasks
    /\ \A n \in Names : ~volume[n].exists
    /\ \E h \in {Nobody, Foreign} : queue' = Append(queue, [task |-> "readCopy", header |-> h])
    /\ UNCHANGED <<attempt, front, files, header, shown, posts, locked, result>>

\* A complete header with the right signature is stored and then shown; else
\* the last header remains.
ReadHeader ==
    /\ queue # <<>> /\ Head(queue).task \in {"read", "readCopy"}
    /\ LET h == IF Head(queue).task = "read" THEN volume[Head(queue).file].cell[0]
                ELSE Head(queue).header
       IN  /\ header' = IF h = Nobody THEN header ELSE h
           /\ posts' = IF h = Nobody THEN posts ELSE posts + 1
    /\ queue' = Tail(queue)
    /\ UNCHANGED <<attempt, front, files, shown, locked, result>>

\* The UI thread shows the header that is the last one read by then.
DisplayVolumeInfo ==
    /\ posts > 0
    /\ shown' = header /\ posts' = posts - 1
    /\ UNCHANGED <<attempt, front, files, header, queue, locked, result>>

ClickMount(password) ==
    /\ shown # Nobody /\ ~locked /\ Pending < MaxTasks
    /\ locked' = TRUE
    /\ queue' = Append(queue, [task |-> "mount", password |-> password])
    /\ UNCHANGED <<attempt, front, files, header, shown, posts, result>>

\* The process ends: the attempts that run are over, their files remain.
ProcessEnds ==
    /\ attempt' = [a \in Attempts |-> [attempt[a] EXCEPT !.stage = IF Running(a) THEN "dead" ELSE @]]
    /\ front' = Nobody
    /\ FreshActivity
    /\ UNCHANGED files

\* A wrong password enables the activity again.
MountVolume ==
    /\ queue # <<>> /\ Head(queue).task = "mount"
    /\ result' = [header |-> header, password |-> Head(queue).password,
                  outcome |-> MountOutcome(header, Head(queue).password)]
    /\ IF result'.outcome = "crashed" THEN ProcessEnds
       ELSE /\ queue' = Tail(queue) /\ locked' = (result'.outcome = "mounted")
            /\ UNCHANGED <<attempt, front, files, header, shown, posts>>

\* The system kills the process, or it ends for lack of memory.
Kill ==
    /\ \E a \in Attempts : Running(a)
    /\ ProcessEnds
    /\ UNCHANGED result

Mount == \/ OpenMountActivity \/ PickFile \/ ReadHeader \/ DisplayVolumeInfo
         \/ MountVolume
         \/ \E n \in Names : SelectVolume(n)
         \/ \E p \in 1 .. Foreign : ClickMount(p)

Creation == \/ \E n \in Names : CreateVolume(n)
            \/ Leave \/ Kill
            \/ \E a \in Attempts : Create(a)

Next == Creation \/ Mount

Spec == Init /\ [][Next]_vars

\* The threads of the activities that create volumes are scheduled fairly.
FairSpec == Spec /\ \A a \in Attempts : WF_vars(Create(a))

-----------------------------------------------------------------------------
(* Properties *)

\* The volume and the key file of attempt a are a's, in all their parts.
Intact(a) == /\ keyFile[attempt[a].name] = a
             /\ \A i \in 0 .. Blocks : volume[attempt[a].name].cell[i] = a

\* A volume whose creation was reported stays as it was written, key file
\* included, whatever attempts under its name follow, fail or are killed: as
\* long as none overlapped with its creation. Of two that overlap, both may find
\* no file of the name, and the later one replaces the volume of the first.
Alone(a) == \A b \in Attempts : b \notin attempt[a].rivals /\ a \notin attempt[b].rivals
ReportedAloneIntact == \A a \in Attempts : attempt[a].stage = "done" /\ Alone(a) => Intact(a)

\* A mount runs only when a header has been read, although the header is read
\* by another thread than the one that shows the mount button.
HeaderBeforeMount ==
    queue # <<>> /\ Head(queue).task = "mount" => header # Nobody

\* The activity that waits for an attempt is finished or enabled again.
ActivityReleased == \A a \in Attempts : front = a ~> front # a
================================================================================
