------------------------------- MODULE UnixMount -------------------------------
(***************************************************************************)
(* Mounting and unmounting file-hosted volumes on Linux: CoreUnix and      *)
(* CoreLinux, called by several processes, with the FUSE service that each *)
(* mount starts.                                                           *)
(*                                                                         *)
(* A mount makes a directory and mounts a FUSE service on it, which shows  *)
(* the volume as a file and keeps, in a control file, what the volume is   *)
(* mounted as.  Then it attaches a loop device and mounts a file system:   *)
(* either the loop device is over the image in the FUSE directory, or it   *)
(* is over the volume file and a device mapping per cipher is over it.     *)
(* What is mounted is known only from the table of mounted file systems    *)
(* and from the control files; no lock is held.                            *)
(*                                                                         *)
(* Every command that is executed, and every look at the table, is a step. *)
(***************************************************************************)
EXTENDS Integers, Sequences, FiniteSets

CONSTANTS
    Callers,    \* processes that mount and unmount
    Volumes,
    Slots,      \* number of slots
    Layers,     \* numbers of ciphers; 0 if the kernel is not to decrypt
    Files,      \* whether a file system is to be mounted: a set of Booleans
    MaxCalls,   \* bound on the calls of all processes
    MaxFaults,  \* bound on the commands that fail for no reason of the model
    None        \* model value

Devices == {"loop", "dm"} \X Nat \X Nat

ASSUME UnixMountAssumption ==
    /\ Slots \in Nat \ {0} /\ Layers \subseteq Nat /\ Files \subseteq BOOLEAN
    /\ MaxCalls \in Nat /\ MaxFaults \in Nat
    /\ None \notin Volumes \cup Nat \cup Devices

VARIABLES
    fuse,        \* FUSE services that are mounted, in the order of the table
    dirs,        \* directories made for FUSE services
    points,      \* slots whose default mount directory exists
    on,          \* what each device is over
    fs,          \* file systems on default mount directories, in the order of the table
    pc,          \* where each caller is
    arg,         \* what it has been asked to mount
    my,          \* its local variables
    calls,       \* calls made
    faults,      \* commands that have failed
    overlapped,  \* whether two calls that are at odds have ever overlapped
    leaked,      \* volumes that a call has left something of that no call takes back
    half         \* whether an unmount has failed after it detached its loop device

system == <<fuse, dirs, points, on, fs>>
bounds == <<calls, faults>>
ghosts == <<overlapped, leaked, half>>
vars == <<system, pc, arg, my, bounds, ghosts>>

-----------------------------------------------------------------------------
(* Devices and what the tables show *)

File(v)  == <<"file", v, 0>>
Image(d) == <<"image", d, 0>>
Loop(n)  == <<"loop", n, 0>>

\* /dev/mapper/veracrypt<slot> for the upper device, and with _0, _1 ... below it.
Mapped(s, level) == <<"dm", s, level>>

Exists(d) == d \in DOMAIN on
FuseOn(d) == \E i \in DOMAIN fuse : fuse[i].dir = d
PointInUse(s) == \E i \in DOMAIN fs : fs[i].slot = s
UsedBy(d) == {e \in DOMAIN on : on[e] = d}
Busy(d) == UsedBy(d) # {} \/ \E i \in DOMAIN fs : fs[i].device = d

With(d, below) == [e \in DOMAIN on \cup {d} |-> IF e = d THEN below ELSE on[e]]
Without(devices) == [d \in DOMAIN on \ devices |-> on[d]]

\* The least member of S, if S has one; and a table without its i-th entry.
First(S) == {n \in S : \A m \in S : n <= m}
Dropped(table, i) == [j \in 1 .. Len(table) - 1 |-> IF j < i THEN table[j] ELSE table[j + 1]]

LoopNumbers == {d[2] : d \in {e \in DOMAIN on : e[1] = "loop"}}
FreeLoops == First((1 .. Cardinality(LoopNumbers) + 1) \ LoopNumbers)

\* DismountNativeVolume removes the device, and if its name is that of an upper
\* device those below it, until one does not exist or is busy.
Chain(d) ==
    {e \in DOMAIN on :
        /\ e[1] = "dm" /\ e[2] = d[2] /\ e[3] >= d[3] /\ (d[3] # 0 => e = d)
        /\ \A level \in d[3] .. e[3] : Exists(Mapped(d[2], level))}
Removable(d) ==
    {e \in Chain(d) : \A f \in Chain(d) : f[3] <= e[3] =>
        /\ \A i \in DOMAIN fs : fs[i].device # f
        /\ UsedBy(f) \subseteq Chain(d)}

\* GetMountedVolumes with a path; the callers take the first in the table.
Listed(v) == {i \in DOMAIN fuse : fuse[i].volume = v}

Info(e) ==
    [volume |-> e.volume, dir |-> e.dir, virtual |-> e.virtual, loop |-> e.loop,
     point |-> LET found == {i \in DOMAIN fs : fs[i].device = e.virtual}
               IN IF found = {} THEN None ELSE fs[CHOOSE i \in found : i \in First(found)].slot]

NoArg == [volume |-> None, layers |-> 0, files |-> FALSE]
NoInfo == [volume |-> None, dir |-> 0, virtual |-> None, loop |-> None, point |-> None]
Fresh == [slot |-> 0, dir |-> 0, seen |-> {}, loop |-> None, device |-> None, built |-> 0,
          pointMade |-> FALSE, mounted |-> FALSE, info |-> NoInfo]

-----------------------------------------------------------------------------
(* Steps *)

At(p, from) == pc[p] = from
Goto(p, to) == pc' = [pc EXCEPT ![p] = to]
Set(p, new) == my' = [my EXCEPT ![p] = new]

\* A command fails although nothing in the model prevents it.
Fault == faults < MaxFaults /\ faults' = faults + 1
NoFault == UNCHANGED faults

Leak(p) == leaked' = leaked \cup {arg[p].volume}
NoLeak == UNCHANGED leaked

Inside(p) == UNCHANGED <<arg, calls, overlapped, half>>

\* Two calls are at odds if both mount, both unmount, or both are about one volume.
AtOdds(q, mounts, v) ==
    /\ pc[q] # "idle"
    /\ (arg[q].volume # None) = mounts \/ v \in {arg[q].volume, my[q].info.volume}

Call(p, mounts, v) ==
    /\ At(p, "idle") /\ calls < MaxCalls
    /\ calls' = calls + 1
    /\ overlapped' = (overlapped \/ \E q \in Callers : AtOdds(q, mounts, v))
    /\ UNCHANGED <<faults, leaked, half>>

\* The call returns or throws.
End(p) ==
    /\ Goto(p, "idle") /\ Set(p, Fresh) /\ arg' = [arg EXCEPT ![p] = NoArg]
    /\ UNCHANGED <<calls, overlapped>>

Return(p) == End(p) /\ UNCHANGED half

-----------------------------------------------------------------------------
(* CoreUnix::MountVolume up to the FUSE service *)

MountVolume(p, v, layers, files) ==
    /\ Call(p, TRUE, v) /\ UNCHANGED system
    /\ arg' = [arg EXCEPT ![p] = [volume |-> v, layers |-> layers, files |-> files]]
    /\ Goto(p, "coalesce") /\ UNCHANGED my

FreeSlots == {s \in 1 .. Slots : ~PointInUse(s) /\ \A i \in DOMAIN fuse : fuse[i].slot # s}

CoalesceSlotNumberAndMountPoint(p) ==
    /\ At(p, "coalesce")
    /\ UNCHANGED <<system, faults, leaked>>
    /\ \/ FreeSlots = {} /\ Return(p)
       \/ \E s \in First(FreeSlots) :
              Set(p, [my[p] EXCEPT !.slot = s]) /\ Goto(p, "check") /\ Inside(p)

\* Mutant of CheckMounted: the volume is opened in any case.
CheckNothing(p) ==
    /\ At(p, "check")
    /\ UNCHANGED <<system, faults, leaked>>
    /\ Goto(p, "scan") /\ UNCHANGED my /\ Inside(p)

CheckMounted(p) ==
    /\ At(p, "check")
    /\ UNCHANGED <<system, faults, leaked>>
    /\ IF Listed(arg[p].volume) # {} THEN Return(p)
       ELSE Goto(p, "scan") /\ UNCHANGED my /\ Inside(p)

\* A wrong password, or a file that cannot be opened.
OpenFails(p) ==
    /\ At(p, "scan") /\ Fault
    /\ Return(p) /\ UNCHANGED <<system, leaked>>

NextDirs(seen, d) == First({i \in d + 1 .. d + 1 + Cardinality(seen) : i \notin seen})

\* The volume has been opened; the table is read once for the search that follows.
Scan(p) ==
    /\ At(p, "scan")
    /\ LET seen == {fuse[i].dir : i \in DOMAIN fuse}
       IN \E d \in NextDirs(seen, 0) : Set(p, [my[p] EXCEPT !.seen = seen, !.dir = d])
    /\ Goto(p, "clear") /\ Inside(p) /\ UNCHANGED <<system, faults, leaked>>

TryNextDir(p) ==
    /\ \E d \in NextDirs(my[p].seen, my[p].dir) : Set(p, [my[p] EXCEPT !.dir = d])
    /\ Goto(p, "clear") /\ UNCHANGED system

\* A directory that is left from an earlier mount is deleted first.
ClearDirectory(p) ==
    /\ At(p, "clear")
    /\ IF FuseOn(my[p].dir) THEN TryNextDir(p)
       ELSE /\ dirs' = dirs \ {my[p].dir} /\ Goto(p, "make")
            /\ UNCHANGED <<fuse, points, on, fs, my>>
    /\ Inside(p) /\ UNCHANGED <<faults, leaked>>

MakeDirectory(p) ==
    /\ At(p, "make")
    /\ IF my[p].dir \in dirs THEN TryNextDir(p)
       ELSE /\ dirs' = dirs \cup {my[p].dir} /\ Goto(p, "fuse")
            /\ UNCHANGED <<fuse, points, on, fs, my>>
    /\ Inside(p) /\ UNCHANGED <<faults, leaked>>

NewService(p) == [volume |-> arg[p].volume, slot |-> my[p].slot, dir |-> my[p].dir,
                  virtual |-> None, loop |-> None, files |-> arg[p].files, state |-> "new"]

CanMountFuse(p) == my[p].dir \in dirs /\ ~FuseOn(my[p].dir)

FuseServiceMount(p) ==
    /\ At(p, "fuse") /\ CanMountFuse(p)
    /\ fuse' = Append(fuse, NewService(p))
    /\ Goto(p, IF arg[p].files THEN "point" ELSE "attach")
    /\ Inside(p) /\ UNCHANGED <<dirs, points, on, fs, my, faults, leaked>>

\* It cannot be mounted; or it is mounted and the control file is not seen in time.
FuseServiceFails(p) ==
    /\ At(p, "fuse")
    /\ \/ /\ ~CanMountFuse(p) /\ NoFault /\ NoLeak /\ UNCHANGED fuse
       \/ Fault /\ NoLeak /\ UNCHANGED fuse
       \/ CanMountFuse(p) /\ Fault /\ Leak(p) /\ fuse' = Append(fuse, NewService(p))
    /\ Goto(p, "dropDir") /\ Inside(p) /\ UNCHANGED <<dirs, points, on, fs, my>>

DropDirectory(p) ==
    /\ At(p, "dropDir")
    /\ dirs' = IF FuseOn(my[p].dir) THEN dirs ELSE dirs \ {my[p].dir}
    /\ Return(p) /\ UNCHANGED <<fuse, points, on, fs, faults, leaked>>

\* The default mount directory.  If its owner cannot be set it is left.
MakePoint(p) ==
    /\ At(p, "point")
    /\ LET made == my[p].slot \notin points
       IN \/ /\ points' = points \cup {my[p].slot}
             /\ Set(p, [my[p] EXCEPT !.pointMade = made])
             /\ Goto(p, "attach") /\ NoFault
          \/ /\ made /\ Fault
             /\ points' \in {points, points \cup {my[p].slot}}
             /\ Goto(p, "recall") /\ UNCHANGED my
    /\ Inside(p) /\ UNCHANGED <<fuse, dirs, on, fs, leaked>>

-----------------------------------------------------------------------------
(* CoreLinux::MountVolumeNative, and CoreUnix::MountAuxVolumeImage *)

Native(p) == arg[p].layers > 0

Attach(p) ==
    /\ At(p, "attach")
    /\ Native(p) \/ FuseOn(my[p].dir)
    /\ \E n \in FreeLoops :
          /\ on' = With(Loop(n), IF Native(p) THEN File(arg[p].volume) ELSE Image(my[p].dir))
          /\ Set(p, [my[p] EXCEPT !.loop = Loop(n), !.device = Loop(n)])
    /\ Goto(p, IF Native(p) THEN "create" ELSE "send")
    /\ Inside(p) /\ UNCHANGED <<fuse, dirs, points, fs, faults, leaked>>

AttachFails(p) ==
    /\ At(p, "attach")
    /\ Fault \/ (~Native(p) /\ ~FuseOn(my[p].dir) /\ NoFault)
    /\ Goto(p, "dropPoint") /\ Inside(p) /\ UNCHANGED <<system, my, leaked>>

NewDevice(p) == Mapped(my[p].slot, arg[p].layers - 1 - my[p].built)
CanCreate(p) == ~Exists(NewDevice(p)) /\ Exists(my[p].device)

\* The devices of a cascade are created from the lowest up.
CreateDevice(p) ==
    /\ At(p, "create") /\ CanCreate(p)
    /\ on' = With(NewDevice(p), my[p].device)
    /\ Set(p, [my[p] EXCEPT !.device = NewDevice(p), !.built = @ + 1])
    /\ Goto(p, IF my[p].built + 1 < arg[p].layers THEN "create" ELSE "test")
    /\ Inside(p) /\ UNCHANGED <<fuse, dirs, points, fs, faults, leaked>>

\* nativeDevPath already names the device that could not be created, or that
\* has not been seen in time, and not those below it.
CreateFails(p) ==
    /\ At(p, "create")
    /\ \/ ~CanCreate(p) /\ NoFault /\ UNCHANGED on
       \/ Fault /\ UNCHANGED on
       \/ CanCreate(p) /\ Fault /\ on' = With(NewDevice(p), my[p].device)
    /\ leaked' = IF my[p].built > 0 \/ on' # on THEN leaked \cup {arg[p].volume} ELSE leaked
    /\ Set(p, [my[p] EXCEPT !.device = NewDevice(p)])
    /\ Goto(p, "undoDevice") /\ Inside(p) /\ UNCHANGED <<fuse, dirs, points, fs>>

\* The last sector is read and compared.
TestDevice(p) ==
    /\ At(p, "test")
    /\ \/ Exists(my[p].device) /\ NoFault /\ Goto(p, IF arg[p].files THEN "checkPoint" ELSE "send")
       \/ Fault /\ Goto(p, "undoDevice")
       \/ ~Exists(my[p].device) /\ NoFault /\ Goto(p, "undoDevice")
    /\ Inside(p) /\ UNCHANGED <<system, my, leaked>>

MountFails(p) == Goto(p, IF Native(p) THEN "undoDevice" ELSE "dropPoint")

CheckPoint(p) ==
    /\ At(p, "checkPoint")
    /\ IF PointInUse(my[p].slot) THEN MountFails(p) ELSE Goto(p, "mountFs")
    /\ Inside(p) /\ UNCHANGED <<system, my, faults, leaked>>

CanMountFs(p) == Exists(my[p].device) /\ my[p].slot \in points

MountFilesystem(p) ==
    /\ At(p, "mountFs") /\ CanMountFs(p)
    /\ fs' = Append(fs, [device |-> my[p].device, slot |-> my[p].slot])
    /\ Set(p, [my[p] EXCEPT !.mounted = TRUE])
    /\ Goto(p, IF Native(p) THEN "send" ELSE "confirm")
    /\ Inside(p) /\ UNCHANGED <<fuse, dirs, points, on, faults, leaked>>

MountFilesystemFails(p) ==
    /\ At(p, "mountFs")
    /\ Fault \/ (~CanMountFs(p) /\ NoFault)
    /\ MountFails(p) /\ Inside(p) /\ UNCHANGED <<system, my, leaked>>

\* The control file is found by its path, and takes the devices only once.
Reachable(p) == \E i \in DOMAIN fuse : fuse[i].dir = my[p].dir /\ fuse[i].loop = None

SendAuxDeviceInfo(p) ==
    /\ At(p, "send") /\ Reachable(p)
    /\ fuse' = [i \in DOMAIN fuse |->
                   IF fuse[i].dir = my[p].dir
                   THEN [fuse[i] EXCEPT !.virtual = my[p].device, !.loop = my[p].loop] ELSE fuse[i]]
    /\ Goto(p, IF ~Native(p) /\ arg[p].files THEN "checkPoint" ELSE "confirm")
    /\ Inside(p) /\ UNCHANGED <<dirs, points, on, fs, my, faults, leaked>>

SendFails(p) ==
    /\ At(p, "send")
    /\ Fault \/ (~Reachable(p) /\ NoFault)
    /\ Goto(p, IF Native(p) THEN "undoFs" ELSE "undoLoop")
    /\ Inside(p) /\ UNCHANGED <<system, my, leaked>>

\* Exactly one volume of this path is expected.
Confirm(p) ==
    /\ At(p, "confirm")
    /\ fuse' = [i \in DOMAIN fuse |->
                   IF fuse[i].dir = my[p].dir THEN [fuse[i] EXCEPT !.state = "mounted"] ELSE fuse[i]]
    /\ Return(p) /\ UNCHANGED <<dirs, points, on, fs, faults, leaked>>

-----------------------------------------------------------------------------
(* Undoing a mount: what fails here is ignored *)

\* umount takes the file system that was mounted last on the directory.
Unmounted(s) ==
    Dropped(fs, CHOOSE i \in DOMAIN fs :
                    fs[i].slot = s /\ \A j \in DOMAIN fs : fs[j].slot = s => j <= i)

UndoFilesystem(p) ==
    /\ At(p, "undoFs")
    /\ \/ fs' = (IF my[p].mounted /\ PointInUse(my[p].slot) THEN Unmounted(my[p].slot) ELSE fs) /\ NoFault /\ NoLeak
       \/ my[p].mounted /\ Fault /\ Leak(p) /\ UNCHANGED fs
    /\ Goto(p, "undoDevice") /\ Inside(p) /\ UNCHANGED <<fuse, dirs, points, on, my>>

\* Mutant of UndoDevice: nothing is removed.
UndoNoDevice(p) ==
    /\ At(p, "undoDevice")
    /\ Goto(p, "undoLoop") /\ Inside(p) /\ UNCHANGED <<system, my, faults, leaked>>

UndoDevice(p) ==
    /\ At(p, "undoDevice")
    /\ on' = IF my[p].built > 0 THEN Without(Removable(my[p].device)) ELSE on
    /\ Goto(p, "undoLoop") /\ Inside(p) /\ UNCHANGED <<fuse, dirs, points, fs, my, faults, leaked>>

UndoLoop(p) ==
    /\ At(p, "undoLoop")
    /\ \/ on' = (IF Busy(my[p].loop) THEN on ELSE Without({my[p].loop})) /\ NoFault /\ NoLeak
       \/ Fault /\ Leak(p) /\ UNCHANGED on
    /\ Goto(p, "dropPoint") /\ Inside(p) /\ UNCHANGED <<fuse, dirs, points, fs, my>>

DropPoint(p) ==
    /\ At(p, "dropPoint")
    /\ points' = IF my[p].pointMade /\ ~PointInUse(my[p].slot) THEN points \ {my[p].slot} ELSE points
    /\ Goto(p, "recall") /\ Inside(p) /\ UNCHANGED <<fuse, dirs, on, fs, my, faults, leaked>>

\* Mutant of Recall: the first of all that are listed is unmounted.
RecallFirst(p) ==
    /\ At(p, "recall")
    /\ UNCHANGED <<system, faults, leaked>>
    /\ IF fuse = <<>> THEN Return(p)
       ELSE Set(p, [my[p] EXCEPT !.info = Info(fuse[1])]) /\ Goto(p, "umount") /\ Inside(p)

\* What is listed under the path of the volume is unmounted.
Recall(p) ==
    /\ At(p, "recall")
    /\ UNCHANGED <<system, faults, leaked>>
    /\ \/ Listed(arg[p].volume) = {} /\ Return(p)
       \/ \E i \in First(Listed(arg[p].volume)) :
              Set(p, [my[p] EXCEPT !.info = Info(fuse[i])]) /\ Goto(p, "umount") /\ Inside(p)

-----------------------------------------------------------------------------
(* CoreUnix::DismountVolume *)

\* A user has chosen from the list of mounted volumes.
DismountVolume(p, i) ==
    /\ Call(p, FALSE, fuse[i].volume)
    /\ Set(p, [Fresh EXCEPT !.info = Info(fuse[i])])
    /\ fuse' = [fuse EXCEPT ![i].state = "leaving"]
    /\ Goto(p, "umount") /\ UNCHANGED <<dirs, points, on, fs, arg>>

\* The mount directory is deleted with the file system; neither may fail.
UmountFilesystem(p) ==
    /\ At(p, "umount")
    /\ LET s == my[p].info.point
           next == IF s # None /\ PointInUse(s) THEN Unmounted(s) ELSE fs
           free == \A i \in DOMAIN next : next[i].slot # s
       IN \/ /\ s = None \/ PointInUse(s)
             /\ fs' = next
             /\ points' = IF s # None /\ free THEN points \ {s} ELSE points
             /\ IF s = None \/ free THEN Goto(p, "remove") /\ UNCHANGED my /\ Inside(p) ELSE Return(p)
             /\ NoFault
          \/ /\ s # None
             /\ IF PointInUse(s) THEN Fault ELSE NoFault
             /\ Return(p) /\ UNCHANGED <<fs, points>>
    /\ UNCHANGED <<fuse, dirs, on, leaked>>

RemoveDevices(p) ==
    /\ At(p, "remove")
    /\ LET d == my[p].info.virtual
           native == d # None /\ d[1] = "dm"
           gone == IF native THEN Removable(d) ELSE {}
       IN \/ /\ on' = Without(gone) /\ NoFault
             /\ IF native /\ gone # Chain(d) THEN Return(p)
                ELSE Goto(p, "detach") /\ UNCHANGED my /\ Inside(p)
          \/ native /\ Fault /\ Return(p) /\ UNCHANGED on
    /\ UNCHANGED <<fuse, dirs, points, fs, leaked>>

\* A loop device that cannot be detached is left.
DetachLoop(p) ==
    /\ At(p, "detach")
    /\ LET d == my[p].info.loop
       IN \/ on' = (IF d = None \/ Busy(d) THEN on ELSE Without({d})) /\ NoFault /\ NoLeak
          \/ d # None /\ Fault /\ leaked' = leaked \cup {my[p].info.volume} /\ UNCHANGED on
    /\ Goto(p, "umountAux") /\ Inside(p) /\ UNCHANGED <<fuse, dirs, points, fs, my>>

\* The volume may have been looked up again, to see whether a hidden volume
\* was protected.  A mount that is undone ignores that its service stays.
UmountAux(p) ==
    /\ At(p, "umountAux")
    /\ \E d \in {my[p].info.dir} \cup {fuse[i].dir : i \in First(Listed(my[p].info.volume))} :
          LET free == FuseOn(d) /\ UsedBy(Image(d)) = {}
          IN \/ /\ free /\ NoFault /\ NoLeak
                /\ fuse' = Dropped(fuse, CHOOSE i \in DOMAIN fuse : fuse[i].dir = d)
                /\ dirs' = dirs \ {d}
                /\ UNCHANGED half
             \/ /\ \/ free /\ Fault /\ leaked' = leaked \cup ({arg[p].volume} \ {None})
                   \/ ~free /\ NoFault /\ NoLeak
                /\ half' = (half \/ my[p].info.loop # None)
                /\ UNCHANGED <<fuse, dirs>>
    /\ End(p) /\ UNCHANGED <<points, on, fs>>

-----------------------------------------------------------------------------
Init ==
    /\ fuse = <<>> /\ dirs = {} /\ points = {} /\ on = <<>> /\ fs = <<>>
    /\ pc = [p \in Callers |-> "idle"] /\ arg = [p \in Callers |-> NoArg] /\ my = [p \in Callers |-> Fresh]
    /\ calls = 0 /\ faults = 0 /\ overlapped = FALSE /\ leaked = {} /\ half = FALSE

Step(p) ==
    \/ CoalesceSlotNumberAndMountPoint(p) \/ CheckMounted(p) \/ OpenFails(p) \/ Scan(p)
    \/ ClearDirectory(p) \/ MakeDirectory(p) \/ FuseServiceMount(p) \/ FuseServiceFails(p)
    \/ DropDirectory(p) \/ MakePoint(p)
    \/ Attach(p) \/ AttachFails(p) \/ CreateDevice(p) \/ CreateFails(p) \/ TestDevice(p)
    \/ CheckPoint(p) \/ MountFilesystem(p) \/ MountFilesystemFails(p)
    \/ SendAuxDeviceInfo(p) \/ SendFails(p) \/ Confirm(p)
    \/ UndoFilesystem(p) \/ UndoDevice(p) \/ UndoLoop(p) \/ DropPoint(p) \/ Recall(p)
    \/ UmountFilesystem(p) \/ RemoveDevices(p) \/ DetachLoop(p) \/ UmountAux(p)

Next ==
    \E p \in Callers :
        \/ \E v \in Volumes, layers \in Layers, files \in Files : MountVolume(p, v, layers, files)
        \/ \E i \in DOMAIN fuse : DismountVolume(p, i)
        \/ Step(p)

Spec == Init /\ [][Next]_vars

-----------------------------------------------------------------------------
(* Properties *)

\* Device e is d, or a lower device of its cascade; d is in the end over file x.
Under(d, e) ==
    \/ e = d
    \/ /\ d[1] = "dm" /\ e[1] = "dm" /\ e[2] = d[2] /\ e[3] > d[3]
       /\ \A level \in d[3] .. e[3] - 1 :
              Exists(Mapped(d[2], level)) /\ on[Mapped(d[2], level)] = Mapped(d[2], level + 1)
Over(d, x) ==
    /\ Exists(d)
    /\ \E e \in DOMAIN on : Under(d, e) /\ (on[e] = x \/ (Exists(on[e]) /\ on[on[e]] = x))

\* The service that lists a device.
Lists(e, d) == Over(d, File(e.volume)) \/ Over(d, Image(e.dir))

AllIdle == \A p \in Callers : pc[p] = "idle"

\* When no call is running, every device belongs to a volume that is listed, and
\* nothing is listed that no mount has completed: a mount or an unmount that
\* fails, at one step or at several, leaves nothing that the user can neither see
\* nor unmount, except where the code is known to leave it (leaked).
Accounted ==
    AllIdle /\ ~overlapped =>
        /\ \A d \in DOMAIN on : \/ \E i \in DOMAIN fuse : Lists(fuse[i], d)
                              \/ \E v \in leaked : Over(d, File(v))
        /\ \A i \in DOMAIN fuse : fuse[i].state # "new" \/ fuse[i].volume \in leaked

\* A volume is mounted once: two mounts of a container would write it through
\* two caches.  And a slot, one of those there are, is taken once.  The checks at
\* the start of MountVolume are all that sees to it.
Alone ==
    ~overlapped => \A i \in DOMAIN fuse :
        /\ fuse[i].slot \in 1 .. Slots
        /\ \A j \in DOMAIN fuse : i # j => fuse[i].volume # fuse[j].volume /\ fuse[i].slot # fuse[j].slot

Whole(e) ==
    /\ Lists(e, e.virtual) /\ Lists(e, e.loop)
    /\ e.files => \E i \in DOMAIN fs : fs[i] = [device |-> e.virtual, slot |-> e.slot]

\* A volume whose mount has returned keeps its devices, over its own file, and
\* its file system until it is itself unmounted, whatever other mounts and
\* unmounts fail or are undone; unless two calls that are at odds have overlapped,
\* or an unmount has failed after it detached its loop device.
MountedStaysWhole ==
    ~overlapped /\ ~half => \A i \in DOMAIN fuse : fuse[i].state = "mounted" => Whole(fuse[i])

\* The same without the exception: unmounting a volume unmounts that volume and
\* not another one.  "This function allows you to unmount the VeraCrypt volume
\* selected in the drive list" (Main Program Window.html:59).
UnmountsTheSelected ==
    ~overlapped => \A i \in DOMAIN fuse : fuse[i].state = "mounted" => Whole(fuse[i])
================================================================================
