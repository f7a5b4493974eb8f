---------------------------- MODULE UnixMount_proofs ----------------------------
(***************************************************************************)
(* A volume is mounted once and a slot taken once, a volume whose mount    *)
(* has returned stays whole, and nothing that a call has begun is lost:    *)
(* for all numbers of callers, volumes, slots, ciphers, calls and failing  *)
(* commands.                                                               *)
(*                                                                         *)
(* The first invariant (IInv) follows who is about which volume: without   *)
(* calls that overlap at odds there is one mount and one unmount at a      *)
(* time, of two volumes, and what CheckMounted and the choice of a slot    *)
(* have found holds until the service is mounted.  The second (OInv) gives *)
(* each caller past the start of its mount one service, its devices their  *)
(* names, and each slot at most one file system.  These two hold whatever  *)
(* has failed.                                                             *)
(*                                                                         *)
(* The third (SInv) follows what is there of a mount while no unmount has  *)
(* failed halfway: no loop device is of two services, a cascade is in the  *)
(* slot of its service and over its loop device.  So what a call undoes or *)
(* unmounts is its own, and a mounted volume keeps all it has.  The fourth *)
(* (AInv) follows, again whatever has failed, what each device is for: it  *)
(* is over a volume or over the image of a service that is listed; what is *)
(* over a volume is known to a service, or to the mount that has made it   *)
(* and will undo it; and a service that is not complete has its caller.    *)
(***************************************************************************)
EXTENDS UnixMount, WellFoundedInduction, TLAPS

\* Where a caller is while it unmounts; while it mounts, before and after it has a
\* service; and from the loop device on.
UnmountStages == {"umount", "remove", "detach", "umountAux"}
EarlyStages   == {"coalesce", "check", "scan", "clear", "make", "fuse", "dropDir"}
HeldStages    == {"point", "attach", "create", "test", "checkPoint", "mountFs", "send", "confirm",
                  "undoFs", "undoDevice", "undoLoop", "dropPoint", "recall"}
MountStages   == EarlyStages \cup HeldStages
Building == {"create", "test", "checkPoint", "mountFs", "send", "confirm"}
Looped   == Building \cup {"undoFs", "undoDevice", "undoLoop"}
Stages        == {"idle"} \cup MountStages \cup UnmountStages

\* The types of the variables.
Device   == Devices \cup {None}
Request  == [volume : Volumes \cup {None}, layers : Nat, files : BOOLEAN]
Known    == [volume : Volumes \cup {None}, dir : Nat, virtual : Device, loop : Device,
             point : Nat \cup {None}]
Local    == [slot : Nat, dir : Nat, seen : SUBSET Nat, loop : Device, device : Device, built : Nat,
             pointMade : BOOLEAN, mounted : BOOLEAN, info : Known]
Service  == [volume : Volumes, slot : Nat, dir : Nat, virtual : Device, loop : Device,
             files : BOOLEAN, state : {"new", "mounted", "leaving"}]
Filesystem == [device : Devices, slot : Nat]

TableTypes   == fuse \in Seq(Service) /\ fs \in Seq(Filesystem) /\ DOMAIN on \subseteq Devices
ControlTypes ==
    pc \in [Callers -> Stages] /\ arg \in [Callers -> Request] /\ my \in [Callers -> Local]
Types == TableTypes /\ ControlTypes

\* What the two tables list.
Services == {fuse[i] : i \in DOMAIN fuse}
Mounts   == {fs[i] : i \in DOMAIN fs}

\* The role of a caller, and the volume it is about.
Mounting(p) == arg[p].volume # None
About(p)    == IF Mounting(p) THEN arg[p].volume ELSE my[p].info.volume

\* Each caller is somewhere in the one or the other role, and has what that takes.
Roles ==
    \A p \in Callers :
        /\ pc[p] = "idle" => arg[p] = NoArg /\ my[p] = Fresh
        /\ pc[p] \in MountStages => Mounting(p) /\ my[p].info = NoInfo
        /\ pc[p] \in UnmountStages => my[p].info.volume = About(p) /\ About(p) # None
        /\ pc[p] \in EarlyStages \cup {"point", "attach"} => my[p].built = 0
        /\ pc[p] = "create" => my[p].built < arg[p].layers
        /\ pc[p] \in Building => my[p].device \in Devices /\ my[p].loop \in Devices

\* No two calls that are at odds run.
Apart ==
    \A p, q \in Callers : p # q /\ pc[p] # "idle" /\ pc[q] # "idle" =>
        (Mounting(p) <=> ~Mounting(q)) /\ About(p) # About(q)

\* Services have their own volume and slot, and what a mount has found free is free.
Listing ==
    /\ \A i \in DOMAIN fuse :
        /\ fuse[i].slot \in 1 .. Slots
        /\ \A j \in DOMAIN fuse : i # j =>
              fuse[i].volume # fuse[j].volume /\ fuse[i].slot # fuse[j].slot
    /\ \A p \in Callers : pc[p] \in {"check", "scan", "clear", "make", "fuse"} =>
        /\ my[p].slot \in 1 .. Slots
        /\ \A i \in DOMAIN fuse : fuse[i].slot # my[p].slot
        /\ pc[p] # "check" => \A i \in DOMAIN fuse : fuse[i].volume # arg[p].volume

IInv == Types /\ Roles /\ (~overlapped => Apart /\ Listing)

\* The order by which a set of numbers has a first member.
Smaller == {pair \in Nat \X Nat : pair[1] < pair[2]}

\* The numbers are well-founded.
LEMMA SmallerIsWellFounded == IsWellFoundedOn(Smaller, Nat)
BY NatLessThanWellFounded, Zenon DEF OpToRel, Smaller

\* A set of numbers that is not empty has a first member.
LEMMA FirstIsThere ==
    ASSUME NEW S \in SUBSET Nat, S # {}
    PROVE  First(S) # {}
<1>1. PICK x \in S : \A y \in S : ~(<<y, x>> \in Smaller)
  BY SmallerIsWellFounded, WFMin, Zenon
<1>2. ASSUME NEW y \in S PROVE x <= y
  <2>1. x \in Nat /\ y \in Nat
    OBVIOUS
  <2>2. ~(y < x)
    BY <1>1, <2>1, Zenon DEF Smaller
  <2>. QED
    BY <2>1, <2>2
<1>3. x \in First(S)
  BY <1>2, Zenon DEF First
<1>. QED
  BY <1>3, Zenon

\* A table without an entry is a table of the same type.
LEMMA DropType ==
    ASSUME NEW S, NEW table \in Seq(S), NEW i, table # <<>>
    PROVE  Dropped(table, i) \in Seq(S)
<1>1. Len(table) \in Nat \ {0}
  OBVIOUS
<1>2. Dropped(table, i) \in [1 .. Len(table) - 1 -> S]
  BY <1>1 DEF Dropped
<1>. QED
  BY <1>1, <1>2

\* A table with one entry more is a table of the same type.
LEMMA AppendType ==
    ASSUME NEW S, NEW table \in Seq(S), NEW e \in S
    PROVE  Append(table, e) \in Seq(S)
OBVIOUS

\* A new service has its type.
LEMMA NewServiceType ==
    ASSUME Types, NEW p \in Callers, Mounting(p)
    PROVE  NewService(p) \in Service
BY DEF Types, ControlTypes, NewService, Service, Local, Request, Mounting, Device

\* The variables of a caller at rest have their types.
LEMMA NoneTypes == NoArg \in Request /\ NoInfo \in Known /\ Fresh \in Local
BY DEF NoArg, NoInfo, Fresh, Request, Known, Local, Device

\* Whatever a step assigns to a caller's variables has its type.
LEMMA LocalFields ==
    ASSUME NEW l \in Local
    PROVE  /\ \A s \in Nat : [l EXCEPT !.slot = s] \in Local /\ [l EXCEPT !.dir = s] \in Local
           /\ \A seen \in SUBSET Nat, d \in Nat : [l EXCEPT !.seen = seen, !.dir = d] \in Local
           /\ \A b \in BOOLEAN : [l EXCEPT !.pointMade = b] \in Local /\
              [l EXCEPT !.mounted = b] \in Local
           /\ \A d \in Devices : [l EXCEPT !.loop = d, !.device = d] \in Local /\
              [l EXCEPT !.device = d] \in Local
           /\ \A d \in Devices : [l EXCEPT !.device = d, !.built = @ + 1] \in Local
           /\ \A info \in Known : [l EXCEPT !.info = info] \in Local
<1>1. \A info \in Known : [l EXCEPT !.info = info] \in Local
  BY DEF Local
<1>2. \A s \in Nat : [l EXCEPT !.slot = s] \in Local /\ [l EXCEPT !.dir = s] \in Local
  BY DEF Local
<1>3. \A seen \in SUBSET Nat, d \in Nat : [l EXCEPT !.seen = seen, !.dir = d] \in Local
  BY DEF Local
<1>4. \A b \in BOOLEAN : [l EXCEPT !.pointMade = b] \in Local /\ [l EXCEPT !.mounted = b] \in Local
  BY DEF Local
<1>5. \A d \in Devices : [l EXCEPT !.loop = d, !.device = d] \in Local /\
      [l EXCEPT !.device = d] \in Local
  BY DEF Local, Device
<1>6. \A d \in Devices : [l EXCEPT !.device = d, !.built = @ + 1] \in Local
  <2>1. l.built + 1 \in Nat
    BY DEF Local
  <2>2. \A d \in Devices, n \in Nat : [l EXCEPT !.device = d, !.built = n] \in Local
    BY DEF Local, Device
  <2>3. \A d \in Devices : [l EXCEPT !.device = d, !.built = @ + 1] = [l EXCEPT !.device = d,
        !.built = l.built + 1]
    BY DEF Local
  <2>. QED
    BY <2>1, <2>2, <2>3
<1>. QED
  BY <1>1, <1>2, <1>3, <1>4, <1>5, <1>6

\* The entries of the tables have their types.
LEMMA EntryTypes ==
    ASSUME Types
    PROVE  /\ \A i \in DOMAIN fuse : fuse[i] \in Service
           /\ \A i \in DOMAIN fs : fs[i].device \in Devices /\ fs[i].slot \in Nat
           /\ DOMAIN fuse \subseteq Nat /\ DOMAIN fs \subseteq Nat
<1>1. DOMAIN fuse = 1 .. Len(fuse) /\ DOMAIN fs = 1 .. Len(fs) /\ Len(fuse) \in Nat /\
      Len(fs) \in Nat
  BY DEF Types, TableTypes
<1>2. \A i \in DOMAIN fuse : fuse[i] \in Service
  BY <1>1 DEF Types, TableTypes
<1>3. \A i \in DOMAIN fs : fs[i] \in Filesystem
  BY <1>1 DEF Types, TableTypes
<1>. QED
  BY <1>1, <1>2, <1>3 DEF Filesystem

\* What the tables tell of a service has its type.
LEMMA InfoType ==
    ASSUME Types, NEW e \in Service
    PROVE  Info(e) \in Known
<1>. DEFINE found == {i \in DOMAIN fs : fs[i].device = e.virtual}
            k == CHOOSE i \in found : i \in First(found)
<1>1. ASSUME found # {} PROVE fs[k].slot \in Nat
  <2>1. found \subseteq DOMAIN fs /\ DOMAIN fs \subseteq Nat
    BY EntryTypes
  <2>2. First(found) # {}
    BY <1>1, <2>1, FirstIsThere
  <2>3. k \in DOMAIN fs
    BY <2>2 DEF First
  <2>. QED
    BY <2>3, EntryTypes
<1>2. Info(e).point \in Nat \cup {None}
  BY <1>1 DEF Info
<1>. QED
  BY <1>2 DEF Info, Known, Service

\* The end of a call keeps the types of what is a caller's own.
LEMMA EndTypes ==
    ASSUME ControlTypes, NEW p \in Callers, End(p)
    PROVE  ControlTypes'
BY NoneTypes DEF ControlTypes, End, Goto, Set, Stages

\* A step within a call keeps the types of what is a caller's own.
LEMMA GoTypes ==
    ASSUME ControlTypes, NEW p \in Callers, NEW to \in Stages, Goto(p, to), UNCHANGED arg,
           my' = my \/ \E l \in Local : Set(p, l)
    PROVE  ControlTypes'
BY DEF ControlTypes, Goto, Set

\* A free loop device is a device, and new.
LEMMA LoopIsDevice == \A n \in FreeLoops : Loop(n) \in Devices /\ n \in Nat /\ ~Exists(Loop(n))
<1>. SUFFICES ASSUME NEW n \in FreeLoops PROVE Loop(n) \in Devices /\ n \in Nat /\ ~Exists(Loop(n))
  OBVIOUS
<1>1. n \in Int /\ 1 <= n /\ n \notin LoopNumbers
  BY DEF FreeLoops, First
<1>2. Loop(n) \in Devices
  BY <1>1 DEF Loop, Devices
<1>3. ~Exists(Loop(n))
  BY <1>1 DEF Exists, LoopNumbers, Loop
<1>. QED
  BY <1>1, <1>2, <1>3

\* The next device of a cascade is a device.
LEMMA NewIsDevice ==
    ASSUME Types, Roles, NEW p \in Callers, pc[p] = "create"
    PROVE  NewDevice(p) \in Devices
<1>1. my[p].built < arg[p].layers /\ my[p].built \in Nat /\ arg[p].layers \in Nat /\
      my[p].slot \in Nat
  BY DEF Types, ControlTypes, Roles, Local, Request
<1>. QED
  BY <1>1 DEF NewDevice, Mapped, Devices

\* The next directory is a number.
LEMMA NextDirIsNat == \A seen, d : d \in Nat => NextDirs(seen, d) \subseteq Nat
BY DEF NextDirs, First

\* A step keeps the types of what is a caller's own.
LEMMA ControlOfStep ==
    ASSUME Types, Roles, NEW p \in Callers, Step(p)
    PROVE  ControlTypes'
<1>0. my[p] \in Local /\ arg[p] \in Request /\ my[p].dir \in Nat
  BY DEF Types, ControlTypes, Local
<1>a. \A to \in Stages : UNCHANGED <<arg, my>> /\ Goto(p, to) => ControlTypes'
  BY GoTypes DEF Types
<1>b. \A to \in Stages, l \in Local : UNCHANGED arg /\ Set(p, l) /\ Goto(p, to) => ControlTypes'
  BY GoTypes DEF Types
<1>c. End(p) => ControlTypes'
  BY EndTypes DEF Types
<1>. USE <1>0, <1>a, <1>b, <1>c DEF Inside, Return
<1>1. CASE CoalesceSlotNumberAndMountPoint(p)
  <2>1. \A s \in First(FreeSlots) : s \in Nat
    BY UnixMountAssumption DEF First, FreeSlots
  <2>2. \A s \in First(FreeSlots) : [my[p] EXCEPT !.slot = s] \in Local
    BY <2>1, LocalFields
  <2>. QED
    BY <1>1, <2>2 DEF CoalesceSlotNumberAndMountPoint, Stages, MountStages, EarlyStages,
       HeldStages, UnmountStages, Building
<1>2. CASE CheckMounted(p)
  BY <1>2 DEF CheckMounted, Stages, MountStages, EarlyStages, HeldStages, UnmountStages, Building
<1>3. CASE OpenFails(p)
  BY <1>3 DEF OpenFails, Stages, MountStages, EarlyStages, HeldStages, UnmountStages, Building
<1>4. CASE Scan(p)
  <2>1. {fuse[i].dir : i \in DOMAIN fuse} \subseteq Nat
    BY EntryTypes DEF Service
  <2>2. \A seen \in SUBSET Nat : \A d \in NextDirs(seen, 0) : [my[p] EXCEPT !.seen = seen,
        !.dir = d] \in Local
    BY LocalFields, NextDirIsNat
  <2>. QED
    BY <1>4, <2>1, <2>2 DEF Scan, Stages, MountStages, EarlyStages, HeldStages, UnmountStages,
       Building
<1>5. CASE ClearDirectory(p)
  <2>1. \A d \in NextDirs(my[p].seen, my[p].dir) : [my[p] EXCEPT !.dir = d] \in Local
    BY LocalFields, NextDirIsNat
  <2>. QED
    BY <1>5, <2>1 DEF ClearDirectory, TryNextDir, Stages, MountStages, EarlyStages, HeldStages,
       UnmountStages, Building
<1>6. CASE MakeDirectory(p)
  <2>1. \A d \in NextDirs(my[p].seen, my[p].dir) : [my[p] EXCEPT !.dir = d] \in Local
    BY LocalFields, NextDirIsNat
  <2>. QED
    BY <1>6, <2>1 DEF MakeDirectory, TryNextDir, Stages, MountStages, EarlyStages, HeldStages,
       UnmountStages, Building
<1>7. CASE FuseServiceMount(p)
  BY <1>7 DEF FuseServiceMount, Stages, MountStages, EarlyStages, HeldStages, UnmountStages,
     Building
<1>8. CASE FuseServiceFails(p)
  BY <1>8 DEF FuseServiceFails, Stages, MountStages, EarlyStages, HeldStages, UnmountStages,
     Building
<1>9. CASE DropDirectory(p)
  BY <1>9 DEF DropDirectory, Stages, MountStages, EarlyStages, HeldStages, UnmountStages, Building
<1>10. CASE MakePoint(p)
  <2>1. \A b \in BOOLEAN : [my[p] EXCEPT !.pointMade = b] \in Local
    BY LocalFields
  <2>. QED
    BY <1>10, <2>1 DEF MakePoint, Stages, MountStages, EarlyStages, HeldStages, UnmountStages,
       Building
<1>11. CASE Attach(p)
  <2>1. \A n \in FreeLoops : [my[p] EXCEPT !.loop = Loop(n), !.device = Loop(n)] \in Local
    BY LocalFields, LoopIsDevice
  <2>. QED
    BY <1>11, <2>1 DEF Attach, Stages, MountStages, EarlyStages, HeldStages, UnmountStages, Building
<1>12. CASE AttachFails(p)
  BY <1>12 DEF AttachFails, Stages, MountStages, EarlyStages, HeldStages, UnmountStages, Building
<1>13. CASE CreateDevice(p)
  <2>1. [my[p] EXCEPT !.device = NewDevice(p), !.built = @ + 1] \in Local
    BY <1>13, LocalFields, NewIsDevice DEF CreateDevice, At
  <2>. QED
    BY <1>13, <2>1 DEF CreateDevice, Stages, MountStages, EarlyStages, HeldStages, UnmountStages,
       Building
<1>14. CASE CreateFails(p)
  <2>1. [my[p] EXCEPT !.device = NewDevice(p)] \in Local
    BY <1>14, LocalFields, NewIsDevice DEF CreateFails, At
  <2>. QED
    BY <1>14, <2>1 DEF CreateFails, Stages, MountStages, EarlyStages, HeldStages, UnmountStages,
       Building
<1>15. CASE TestDevice(p)
  BY <1>15 DEF TestDevice, Stages, MountStages, EarlyStages, HeldStages, UnmountStages, Building
<1>16. CASE CheckPoint(p)
  BY <1>16 DEF CheckPoint, MountFails, Stages, MountStages, EarlyStages, HeldStages, UnmountStages,
     Building
<1>17. CASE MountFilesystem(p)
  <2>1. [my[p] EXCEPT !.mounted = TRUE] \in Local
    BY LocalFields
  <2>. QED
    BY <1>17, <2>1 DEF MountFilesystem, Stages, MountStages, EarlyStages, HeldStages,
       UnmountStages, Building
<1>18. CASE MountFilesystemFails(p)
  BY <1>18 DEF MountFilesystemFails, MountFails, Stages, MountStages, EarlyStages, HeldStages,
     UnmountStages, Building
<1>19. CASE SendAuxDeviceInfo(p)
  BY <1>19 DEF SendAuxDeviceInfo, Stages, MountStages, EarlyStages, HeldStages, UnmountStages,
     Building
<1>20. CASE SendFails(p)
  BY <1>20 DEF SendFails, Stages, MountStages, EarlyStages, HeldStages, UnmountStages, Building
<1>21. CASE Confirm(p)
  BY <1>21 DEF Confirm, Stages, MountStages, EarlyStages, HeldStages, UnmountStages, Building
<1>22. CASE UndoFilesystem(p)
  BY <1>22 DEF UndoFilesystem, Stages, MountStages, EarlyStages, HeldStages, UnmountStages, Building
<1>23. CASE UndoDevice(p)
  BY <1>23 DEF UndoDevice, Stages, MountStages, EarlyStages, HeldStages, UnmountStages, Building
<1>24. CASE UndoLoop(p)
  BY <1>24 DEF UndoLoop, Stages, MountStages, EarlyStages, HeldStages, UnmountStages, Building
<1>25. CASE DropPoint(p)
  BY <1>25 DEF DropPoint, Stages, MountStages, EarlyStages, HeldStages, UnmountStages, Building
<1>26. CASE Recall(p)
  <2>1. \A i \in First(Listed(arg[p].volume)) : [my[p] EXCEPT !.info = Info(fuse[i])] \in Local
    BY LocalFields, InfoType, EntryTypes DEF First, Listed
  <2>. QED
    BY <1>26, <2>1 DEF Recall, Stages, MountStages, EarlyStages, HeldStages, UnmountStages, Building
<1>27. CASE UmountFilesystem(p)
  BY <1>27 DEF UmountFilesystem, Stages, MountStages, EarlyStages, HeldStages, UnmountStages,
     Building
<1>28. CASE RemoveDevices(p)
  BY <1>28 DEF RemoveDevices, Stages, MountStages, EarlyStages, HeldStages, UnmountStages, Building
<1>29. CASE DetachLoop(p)
  BY <1>29 DEF DetachLoop, Stages, MountStages, EarlyStages, HeldStages, UnmountStages, Building
<1>30. CASE UmountAux(p)
  BY <1>30 DEF UmountAux, Stages, MountStages, EarlyStages, HeldStages, UnmountStages, Building
<1>. QED
  BY <1>1, <1>2, <1>3, <1>4, <1>5, <1>6, <1>7, <1>8, <1>9, <1>10, <1>11, <1>12, <1>13, <1>14,
     <1>15, <1>16, <1>17, <1>18, <1>19, <1>20, <1>21, <1>22, <1>23, <1>24, <1>25, <1>26, <1>27,
          <1>28, <1>29, <1>30 DEF Step

\* What a step does to the table of services.
FuseStays   == fuse' = fuse
FuseGains(p) == pc[p] = "fuse" /\ CanMountFuse(p) /\ fuse' = Append(fuse, NewService(p))
FuseMarks   ==
    /\ DOMAIN fuse' = DOMAIN fuse
    /\ \A i \in DOMAIN fuse :
        /\ fuse'[i].volume = fuse[i].volume /\ fuse'[i].slot = fuse[i].slot
        /\ fuse'[i].dir = fuse[i].dir /\ fuse'[i].files = fuse[i].files
FuseDrops == \E k \in DOMAIN fuse : fuse' = Dropped(fuse, k)

\* It grows at one step only, by the caller's own service.
LEMMA FuseOfStep ==
    ASSUME Types, Roles, NEW p \in Callers, Step(p)
    PROVE  fuse' \in Seq(Service) /\ (FuseStays \/ FuseGains(p) \/ FuseMarks \/ FuseDrops)
<1>. fuse \in Seq(Service)
  BY DEF Types, TableTypes
<1>0. DOMAIN fuse = 1 .. Len(fuse) /\ \A i \in DOMAIN fuse : fuse[i] \in Service
  BY EntryTypes
<1>m. my[p] \in Local
  BY DEF Types, ControlTypes
<1>1. CASE CoalesceSlotNumberAndMountPoint(p) \/ CheckMounted(p) \/ OpenFails(p) \/ Scan(p) \/
           ClearDirectory(p) \/ MakeDirectory(p)
  BY <1>1 DEF CoalesceSlotNumberAndMountPoint, CheckMounted, OpenFails, Scan, ClearDirectory,
     MakeDirectory, TryNextDir, system, FuseStays
<1>2. CASE DropDirectory(p) \/ MakePoint(p) \/ Attach(p) \/ AttachFails(p) \/ CreateDevice(p) \/
           CreateFails(p) \/ TestDevice(p)
  BY <1>2 DEF DropDirectory, MakePoint, Attach, AttachFails, CreateDevice, CreateFails, TestDevice,
     TryNextDir, system, FuseStays
<1>3. CASE CheckPoint(p) \/ MountFilesystem(p) \/ MountFilesystemFails(p) \/ SendFails(p) \/
           UndoFilesystem(p) \/ UndoDevice(p) \/ UndoLoop(p)
  BY <1>3 DEF CheckPoint, MountFilesystem, MountFilesystemFails, SendFails, UndoFilesystem,
     UndoDevice, UndoLoop, TryNextDir, system, FuseStays
<1>4. CASE DropPoint(p) \/ Recall(p) \/ UmountFilesystem(p) \/ RemoveDevices(p) \/ DetachLoop(p)
  BY <1>4 DEF DropPoint, Recall, UmountFilesystem, RemoveDevices, DetachLoop, TryNextDir, system,
     FuseStays
<1>5. CASE FuseServiceMount(p) \/ FuseServiceFails(p)
  <2>1. CASE FuseStays
    BY <2>1 DEF FuseStays
  <2>2. CASE ~FuseStays
    <3>1. FuseGains(p)
      BY <1>5, <2>2 DEF FuseServiceMount, FuseServiceFails, At, FuseGains, FuseStays
    <3>2. NewService(p) \in Service
      BY <3>1, NewServiceType DEF FuseGains, Roles, MountStages, EarlyStages
    <3>. QED
      BY <3>1, <3>2, AppendType DEF FuseGains
  <2>. QED
    BY <2>1, <2>2
<1>6. CASE SendAuxDeviceInfo(p)
  <2>1. \A i \in DOMAIN fuse : [fuse[i] EXCEPT !.virtual = my[p].device,
        !.loop = my[p].loop] \in Service
    BY <1>0, <1>m DEF Service, Local
  <2>2. DOMAIN fuse' = 1 .. Len(fuse) /\ \A i \in DOMAIN fuse : fuse'[i] \in Service
    BY <1>0, <1>6, <2>1 DEF SendAuxDeviceInfo
  <2>5. fuse' \in [1 .. Len(fuse) -> Service]
    BY <1>0, <1>6, <2>2 DEF SendAuxDeviceInfo
  <2>3. fuse' \in Seq(Service)
    BY <2>5
  <2>4. FuseMarks
    BY <1>0, <1>6 DEF SendAuxDeviceInfo, FuseMarks, Service
  <2>. QED
    BY <2>3, <2>4
<1>7. CASE Confirm(p)
  <2>1. \A i \in DOMAIN fuse : [fuse[i] EXCEPT !.state = "mounted"] \in Service
    BY <1>0 DEF Service
  <2>3. fuse' \in Seq(Service)
    BY <1>0, <1>7, <2>1 DEF Confirm
  <2>4. FuseMarks
    BY <1>0, <1>7 DEF Confirm, FuseMarks, Service
  <2>. QED
    BY <2>3, <2>4
<1>8. CASE UmountAux(p)
  <2>1. CASE FuseStays
    BY <2>1 DEF FuseStays
  <2>2. CASE ~FuseStays
    <3>1. PICK d : FuseOn(d) /\ fuse' = Dropped(fuse, CHOOSE i \in DOMAIN fuse : fuse[i].dir = d)
      BY <1>8, <2>2, Zenon DEF UmountAux, FuseStays
    <3>. DEFINE k == CHOOSE i \in DOMAIN fuse : fuse[i].dir = d
    <3>2. k \in DOMAIN fuse
      BY <3>1 DEF FuseOn
    <3>3. fuse # <<>>
      BY <3>2
    <3>4. fuse' \in Seq(Service)
      BY <3>1, <3>3, DropType
    <3>. QED
      BY <3>1, <3>2, <3>4 DEF FuseDrops
  <2>. QED
    BY <2>1, <2>2
<1>. QED
  BY <1>1, <1>2, <1>3, <1>4, <1>5, <1>6, <1>7, <1>8 DEF Step

\* A step keeps the types of the file systems.
LEMMA FsOfStep ==
    ASSUME Types, Roles, NEW p \in Callers, Step(p)
    PROVE  fs' \in Seq(Filesystem)
<1>. fs \in Seq(Filesystem)
  BY DEF Types, TableTypes
<1>0. \A s : PointInUse(s) => Unmounted(s) \in Seq(Filesystem)
  <2>. SUFFICES ASSUME NEW s, PointInUse(s) PROVE Unmounted(s) \in Seq(Filesystem)
    OBVIOUS
  <2>1. fs # <<>>
    BY DEF PointInUse
  <2>. QED
    BY <2>1, DropType DEF Unmounted
<1>1. CASE CoalesceSlotNumberAndMountPoint(p) \/ CheckMounted(p) \/ OpenFails(p) \/ Scan(p) \/
           ClearDirectory(p) \/ MakeDirectory(p)
  BY <1>1 DEF CoalesceSlotNumberAndMountPoint, CheckMounted, OpenFails, Scan, ClearDirectory,
     MakeDirectory, TryNextDir, system
<1>2. CASE FuseServiceMount(p) \/ FuseServiceFails(p) \/ DropDirectory(p) \/ MakePoint(p) \/
           Attach(p) \/ AttachFails(p) \/ CreateDevice(p) \/ CreateFails(p) \/ TestDevice(p)
  BY <1>2 DEF FuseServiceMount, FuseServiceFails, DropDirectory, MakePoint, Attach, AttachFails,
     CreateDevice, CreateFails, TestDevice, TryNextDir, system
<1>3. CASE CheckPoint(p) \/ MountFilesystemFails(p) \/ SendAuxDeviceInfo(p) \/ SendFails(p) \/
           Confirm(p) \/ UndoDevice(p) \/ UndoLoop(p)
  BY <1>3 DEF CheckPoint, MountFilesystemFails, SendAuxDeviceInfo, SendFails, Confirm, UndoDevice,
     UndoLoop, TryNextDir, system
<1>4. CASE DropPoint(p) \/ Recall(p) \/ RemoveDevices(p) \/ DetachLoop(p) \/ UmountAux(p)
  BY <1>4 DEF DropPoint, Recall, RemoveDevices, DetachLoop, UmountAux, TryNextDir, system
<1>5. CASE MountFilesystem(p)
  <2>1. [device |-> my[p].device, slot |-> my[p].slot] \in Filesystem
    BY <1>5 DEF MountFilesystem, At, Roles, Building, Types, ControlTypes, Local, Filesystem
  <2>. QED
    BY <1>5, <2>1, AppendType DEF MountFilesystem
<1>6. CASE UndoFilesystem(p) \/ UmountFilesystem(p)
  BY <1>0, <1>6 DEF UndoFilesystem, UmountFilesystem
<1>. QED
  BY <1>1, <1>2, <1>3, <1>4, <1>5, <1>6 DEF Step

\* A step keeps the types of the devices.
LEMMA OnOfStep ==
    ASSUME Types, Roles, NEW p \in Callers, Step(p)
    PROVE  DOMAIN on' \subseteq Devices
<1>0. DOMAIN on \subseteq Devices
  BY DEF Types, TableTypes
<1>1. CASE CoalesceSlotNumberAndMountPoint(p) \/ CheckMounted(p) \/ OpenFails(p) \/ Scan(p) \/
           ClearDirectory(p) \/ MakeDirectory(p)
  BY <1>0, <1>1 DEF CoalesceSlotNumberAndMountPoint, CheckMounted, OpenFails, Scan, ClearDirectory,
     MakeDirectory, TryNextDir, system
<1>2. CASE FuseServiceMount(p) \/ FuseServiceFails(p) \/ DropDirectory(p) \/ MakePoint(p) \/
           AttachFails(p) \/ TestDevice(p)
  BY <1>0, <1>2 DEF FuseServiceMount, FuseServiceFails, DropDirectory, MakePoint, AttachFails,
     TestDevice, TryNextDir, system
<1>3. CASE CheckPoint(p) \/ MountFilesystem(p) \/ MountFilesystemFails(p) \/
           SendAuxDeviceInfo(p) \/ SendFails(p) \/ Confirm(p) \/ UndoFilesystem(p) \/
           UmountFilesystem(p)
  BY <1>0, <1>3 DEF CheckPoint, MountFilesystem, MountFilesystemFails, SendAuxDeviceInfo,
     SendFails, Confirm, UndoFilesystem, UmountFilesystem, TryNextDir, system
<1>4. CASE DropPoint(p) \/ Recall(p) \/ UmountAux(p)
  BY <1>0, <1>4 DEF DropPoint, Recall, UmountAux, TryNextDir, system
<1>5. CASE Attach(p)
  BY <1>0, <1>5, LoopIsDevice DEF Attach, With
<1>6. CASE CreateDevice(p) \/ CreateFails(p)
  <2>1. NewDevice(p) \in Devices
    BY <1>6, NewIsDevice DEF CreateDevice, CreateFails, At
  <2>. QED
    BY <1>0, <1>6, <2>1 DEF CreateDevice, CreateFails, With
<1>7. CASE UndoDevice(p) \/ UndoLoop(p) \/ RemoveDevices(p) \/ DetachLoop(p)
  BY <1>0, <1>7 DEF UndoDevice, UndoLoop, RemoveDevices, DetachLoop, Without
<1>. QED
  BY <1>1, <1>2, <1>3, <1>4, <1>5, <1>6, <1>7 DEF Step

\* A step changes nobody's place, request or variables but the caller's own.
LEMMA Turn ==
    ASSUME Types, NEW p \in Callers, Step(p), NEW q \in Callers, q # p
    PROVE  pc'[q] = pc[q] /\ arg'[q] = arg[q] /\ my'[q] = my[q]
<1>. USE DEF Types, ControlTypes, Goto, Set, Inside, Return, End
<1>1. CASE CoalesceSlotNumberAndMountPoint(p) \/ CheckMounted(p) \/ OpenFails(p) \/ Scan(p) \/
           ClearDirectory(p) \/ MakeDirectory(p) \/ FuseServiceMount(p) \/ FuseServiceFails(p)
  BY <1>1 DEF CoalesceSlotNumberAndMountPoint, CheckMounted, OpenFails, Scan, ClearDirectory,
     MakeDirectory, FuseServiceMount, FuseServiceFails, TryNextDir, MountFails
<1>2. CASE DropDirectory(p) \/ MakePoint(p) \/ Attach(p) \/ AttachFails(p) \/ CreateDevice(p) \/
           CreateFails(p) \/ TestDevice(p)
  BY <1>2 DEF DropDirectory, MakePoint, Attach, AttachFails, CreateDevice, CreateFails, TestDevice,
     TryNextDir, MountFails
<1>3. CASE CheckPoint(p) \/ MountFilesystem(p) \/ MountFilesystemFails(p) \/
           SendAuxDeviceInfo(p) \/ SendFails(p) \/ Confirm(p) \/ UndoFilesystem(p) \/ UndoDevice(p)
  BY <1>3 DEF CheckPoint, MountFilesystem, MountFilesystemFails, SendAuxDeviceInfo, SendFails,
     Confirm, UndoFilesystem, UndoDevice, TryNextDir, MountFails
<1>4. CASE UndoLoop(p) \/ DropPoint(p) \/ Recall(p) \/ UmountFilesystem(p) \/ RemoveDevices(p) \/
           DetachLoop(p) \/ UmountAux(p)
  BY <1>4 DEF UndoLoop, DropPoint, Recall, UmountFilesystem, RemoveDevices, DetachLoop, UmountAux,
     TryNextDir, MountFails
<1>. QED
  BY <1>1, <1>2, <1>3, <1>4 DEF Step

\* Until its call ends, a caller is about the same volume, in the same role.
LEMMA AboutStays ==
    ASSUME Types, Roles, NEW p \in Callers, Step(p)
    PROVE  /\ overlapped' = overlapped
           /\ pc[p] # "idle"
           /\ \/ pc'[p] = "idle" /\ arg'[p] = NoArg /\ my'[p] = Fresh
              \/ /\ pc'[p] # "idle" /\ arg' = arg
                 /\ About(p)' = About(p)
<1>. USE DEF Types, ControlTypes, Goto, Set, Inside, Return, End, About, Mounting, Roles, At,
     Local, UnmountStages, MountStages, EarlyStages, HeldStages
<1>1. CASE CoalesceSlotNumberAndMountPoint(p)
  BY <1>1 DEF CoalesceSlotNumberAndMountPoint, TryNextDir, MountFails
<1>2. CASE CheckMounted(p)
  BY <1>2 DEF CheckMounted, TryNextDir, MountFails
<1>3. CASE OpenFails(p)
  BY <1>3 DEF OpenFails, TryNextDir, MountFails
<1>4. CASE Scan(p)
  BY <1>4 DEF Scan, TryNextDir, MountFails
<1>5. CASE ClearDirectory(p)
  BY <1>5 DEF ClearDirectory, TryNextDir, MountFails
<1>6. CASE MakeDirectory(p)
  BY <1>6 DEF MakeDirectory, TryNextDir, MountFails
<1>7. CASE FuseServiceMount(p)
  BY <1>7 DEF FuseServiceMount, TryNextDir, MountFails
<1>8. CASE FuseServiceFails(p)
  BY <1>8 DEF FuseServiceFails, TryNextDir, MountFails
<1>9. CASE DropDirectory(p)
  BY <1>9 DEF DropDirectory, TryNextDir, MountFails
<1>10. CASE MakePoint(p)
  BY <1>10 DEF MakePoint, TryNextDir, MountFails
<1>11. CASE Attach(p)
  BY <1>11 DEF Attach, TryNextDir, MountFails
<1>12. CASE AttachFails(p)
  BY <1>12 DEF AttachFails, TryNextDir, MountFails
<1>13. CASE CreateDevice(p)
  BY <1>13 DEF CreateDevice, TryNextDir, MountFails
<1>14. CASE CreateFails(p)
  BY <1>14 DEF CreateFails, TryNextDir, MountFails
<1>15. CASE TestDevice(p)
  BY <1>15 DEF TestDevice, TryNextDir, MountFails
<1>16. CASE CheckPoint(p)
  BY <1>16 DEF CheckPoint, TryNextDir, MountFails
<1>17. CASE MountFilesystem(p)
  BY <1>17 DEF MountFilesystem, TryNextDir, MountFails
<1>18. CASE MountFilesystemFails(p)
  BY <1>18 DEF MountFilesystemFails, TryNextDir, MountFails
<1>19. CASE SendAuxDeviceInfo(p)
  BY <1>19 DEF SendAuxDeviceInfo, TryNextDir, MountFails
<1>20. CASE SendFails(p)
  BY <1>20 DEF SendFails, TryNextDir, MountFails
<1>21. CASE Confirm(p)
  BY <1>21 DEF Confirm, TryNextDir, MountFails
<1>22. CASE UndoFilesystem(p)
  BY <1>22 DEF UndoFilesystem, TryNextDir, MountFails
<1>23. CASE UndoDevice(p)
  BY <1>23 DEF UndoDevice, TryNextDir, MountFails
<1>24. CASE UndoLoop(p)
  BY <1>24 DEF UndoLoop, TryNextDir, MountFails
<1>25. CASE DropPoint(p)
  BY <1>25 DEF DropPoint, TryNextDir, MountFails
<1>26. CASE Recall(p)
  BY <1>26 DEF Recall, TryNextDir, MountFails
<1>27. CASE UmountFilesystem(p)
  BY <1>27 DEF UmountFilesystem, TryNextDir, MountFails
<1>28. CASE RemoveDevices(p)
  BY <1>28 DEF RemoveDevices, TryNextDir, MountFails
<1>29. CASE DetachLoop(p)
  BY <1>29 DEF DetachLoop, TryNextDir, MountFails
<1>30. CASE UmountAux(p)
  BY <1>30 DEF UmountAux, TryNextDir, MountFails
<1>. QED
  BY <1>1, <1>2, <1>3, <1>4, <1>5, <1>6, <1>7, <1>8, <1>9, <1>10, <1>11, <1>12, <1>13, <1>14,
     <1>15, <1>16, <1>17, <1>18, <1>19, <1>20, <1>21, <1>22, <1>23, <1>24, <1>25, <1>26, <1>27,
          <1>28, <1>29, <1>30 DEF Step

\* A caller stays in its role, with what that takes.
LEMMA RolesOfStep ==
    ASSUME Types, Roles, NEW p \in Callers, Step(p)
    PROVE  Roles'
<1>. DEFINE R(q) ==
        /\ pc[q] = "idle" => arg[q] = NoArg /\ my[q] = Fresh
        /\ pc[q] \in MountStages => Mounting(q) /\ my[q].info = NoInfo
        /\ pc[q] \in UnmountStages => my[q].info.volume = About(q) /\ About(q) # None
        /\ pc[q] \in EarlyStages \cup {"point", "attach"} => my[q].built = 0
        /\ pc[q] = "create" => my[q].built < arg[q].layers
        /\ pc[q] \in Building => my[q].device \in Devices /\ my[q].loop \in Devices
<1>a. ASSUME NEW q \in Callers, q # p PROVE R(q)'
  BY <1>a, Turn DEF Roles, About, Mounting
<1>b. R(p)'
  <2>. my[p] \in Local /\ arg[p] \in Request /\ my[p].built \in Nat /\ arg[p].layers \in Nat
    BY DEF Types, ControlTypes, Local, Request
  <2>. R(p)
    BY DEF Roles
  <2>. USE DEF Types, ControlTypes, Goto, Set, Inside, Return, End, About, Mounting, At, Local,
       UnmountStages, MountStages, EarlyStages, HeldStages, Building
  <2>1. CASE CoalesceSlotNumberAndMountPoint(p)
    BY <2>1 DEF CoalesceSlotNumberAndMountPoint, TryNextDir, MountFails
  <2>2. CASE CheckMounted(p)
    BY <2>2 DEF CheckMounted, TryNextDir, MountFails
  <2>3. CASE OpenFails(p)
    BY <2>3 DEF OpenFails, TryNextDir, MountFails
  <2>4. CASE Scan(p)
    BY <2>4 DEF Scan, TryNextDir, MountFails
  <2>5. CASE ClearDirectory(p)
    BY <2>5 DEF ClearDirectory, TryNextDir, MountFails
  <2>6. CASE MakeDirectory(p)
    BY <2>6 DEF MakeDirectory, TryNextDir, MountFails
  <2>7. CASE FuseServiceMount(p)
    BY <2>7 DEF FuseServiceMount, TryNextDir, MountFails
  <2>8. CASE FuseServiceFails(p)
    BY <2>8 DEF FuseServiceFails, TryNextDir, MountFails
  <2>9. CASE DropDirectory(p)
    BY <2>9 DEF DropDirectory, TryNextDir, MountFails
  <2>10. CASE MakePoint(p)
    BY <2>10 DEF MakePoint, TryNextDir, MountFails
  <2>11. CASE Attach(p)
    <3>1. PICK n \in FreeLoops : Set(p, [my[p] EXCEPT !.loop = Loop(n), !.device = Loop(n)])
      BY <2>11 DEF Attach
    <3>2. /\ my'[p].loop = Loop(n) /\ my'[p].device = Loop(n) /\ my'[p].info = my[p].info
          /\ my'[p].built = my[p].built
      BY <3>1
    <3>3. my[p].built = 0 /\ my[p].info = NoInfo /\ Mounting(p) /\ arg' = arg
      BY <2>11 DEF Attach
    <3>4. pc'[p] = IF Native(p) THEN "create" ELSE "send"
      BY <2>11 DEF Attach
    <3>. QED
      BY <3>2, <3>3, <3>4, LoopIsDevice DEF Native
  <2>12. CASE AttachFails(p)
    BY <2>12 DEF AttachFails, TryNextDir, MountFails
  <2>13. CASE CreateDevice(p)
    <3>1. NewDevice(p) \in Devices /\ my[p].built < arg[p].layers /\ Mounting(p)
      BY <2>13, NewIsDevice DEF CreateDevice
    <3>2. /\ my'[p].device = NewDevice(p) /\ my'[p].info = my[p].info /\ arg' = arg
          /\ my'[p].built = my[p].built + 1 /\ my'[p].loop = my[p].loop
      BY <2>13 DEF CreateDevice
    <3>3. pc'[p] = IF my[p].built + 1 < arg[p].layers THEN "create" ELSE "test"
      BY <2>13 DEF CreateDevice
    <3>4. my[p].info = NoInfo /\ my[p].loop \in Devices
      BY <2>13 DEF CreateDevice
    <3>. QED
      BY <3>1, <3>2, <3>3, <3>4
  <2>14. CASE CreateFails(p)
    BY <2>14 DEF CreateFails, TryNextDir, MountFails
  <2>15. CASE TestDevice(p)
    BY <2>15 DEF TestDevice, TryNextDir, MountFails
  <2>16. CASE CheckPoint(p)
    BY <2>16 DEF CheckPoint, TryNextDir, MountFails
  <2>17. CASE MountFilesystem(p)
    BY <2>17 DEF MountFilesystem, TryNextDir, MountFails
  <2>18. CASE MountFilesystemFails(p)
    BY <2>18 DEF MountFilesystemFails, TryNextDir, MountFails
  <2>19. CASE SendAuxDeviceInfo(p)
    BY <2>19 DEF SendAuxDeviceInfo, TryNextDir, MountFails
  <2>20. CASE SendFails(p)
    BY <2>20 DEF SendFails, TryNextDir, MountFails
  <2>21. CASE Confirm(p)
    BY <2>21 DEF Confirm, TryNextDir, MountFails
  <2>22. CASE UndoFilesystem(p)
    BY <2>22 DEF UndoFilesystem, TryNextDir, MountFails
  <2>23. CASE UndoDevice(p)
    BY <2>23 DEF UndoDevice, TryNextDir, MountFails
  <2>24. CASE UndoLoop(p)
    BY <2>24 DEF UndoLoop, TryNextDir, MountFails
  <2>25. CASE DropPoint(p)
    BY <2>25 DEF DropPoint, TryNextDir, MountFails
  <2>26. CASE Recall(p)
    <3>1. CASE Return(p)
      BY <3>1
    <3>2. CASE ~Return(p)
      <4>1. PICK i \in Listed(arg[p].volume) : /\ Set(p, [my[p] EXCEPT !.info = Info(fuse[i])])
                                              /\ Goto(p, "umount") /\ Inside(p)
        BY <2>26, <3>2 DEF Recall, First
      <4>2. my'[p].info.volume = arg[p].volume
        BY <4>1 DEF Listed, Info
      <4>. QED
        BY <2>26, <4>1, <4>2 DEF Recall
    <3>. QED
      BY <3>1, <3>2
  <2>27. CASE UmountFilesystem(p)
    BY <2>27 DEF UmountFilesystem, TryNextDir, MountFails
  <2>28. CASE RemoveDevices(p)
    BY <2>28 DEF RemoveDevices, TryNextDir, MountFails
  <2>29. CASE DetachLoop(p)
    BY <2>29 DEF DetachLoop, TryNextDir, MountFails
  <2>30. CASE UmountAux(p)
    BY <2>30 DEF UmountAux, TryNextDir, MountFails
  <2>. QED
    BY <2>1, <2>2, <2>3, <2>4, <2>5, <2>6, <2>7, <2>8, <2>9, <2>10, <2>11, <2>12, <2>13, <2>14,
       <2>15, <2>16, <2>17, <2>18, <2>19, <2>20, <2>21, <2>22, <2>23, <2>24, <2>25, <2>26, <2>27,
            <2>28, <2>29, <2>30 DEF Step
<1>. QED
  BY <1>a, <1>b DEF Roles

\* Where the entries of a table are when one is dropped.
LEMMA DropFacts ==
    ASSUME NEW S, NEW table \in Seq(S), NEW k \in DOMAIN table
    PROVE  LET After(j) == IF j < k THEN j ELSE j + 1
           IN /\ \A j \in DOMAIN Dropped(table, k) : /\ After(j) \in DOMAIN table \ {k}
                                                     /\ Dropped(table, k)[j] = table[After(j)]
              /\ \A i, j \in DOMAIN Dropped(table, k) : After(i) = After(j) => i = j
              /\ \A m \in DOMAIN table \ {k} : \E j \in DOMAIN Dropped(table, k) : After(j) = m
<1>. DEFINE After(j) == IF j < k THEN j ELSE j + 1
<1>1. DOMAIN table = 1 .. Len(table) /\ Len(table) \in Nat /\ k \in Nat
  OBVIOUS
<1>2. DOMAIN Dropped(table, k) = 1 .. Len(table) - 1
  BY DEF Dropped
<1>3. \A j \in DOMAIN Dropped(table, k) : After(j) \in DOMAIN table \ {k}
  BY <1>1, <1>2
<1>4. \A j \in DOMAIN Dropped(table, k) : Dropped(table, k)[j] = table[After(j)]
  BY <1>1, <1>2 DEF Dropped
<1>5. \A i, j \in DOMAIN Dropped(table, k) : After(i) = After(j) => i = j
  BY <1>1, <1>2
<1>6. ASSUME NEW m \in DOMAIN table \ {k} PROVE \E j \in DOMAIN Dropped(table, k) : After(j) = m
  <2>1. CASE m < k
    <3>1. m \in DOMAIN Dropped(table, k)
      BY <1>1, <1>2, <2>1
    <3>. QED
      BY <2>1, <3>1
  <2>2. CASE ~(m < k)
    <3>1. m - 1 \in DOMAIN Dropped(table, k) /\ ~(m - 1 < k) /\ m - 1 + 1 = m
      BY <1>1, <1>2, <2>2
    <3>. QED
      BY <3>1
  <2>. QED
    BY <2>1, <2>2
<1>. QED
  BY <1>3, <1>4, <1>5, <1>6

\* Except for a service that is added, every service was there with its volume and slot.
LEMMA NoneAdded ==
    ASSUME Types, FuseStays \/ FuseMarks \/ FuseDrops
    PROVE  \A i \in DOMAIN fuse' : \E k \in DOMAIN fuse :
              fuse'[i].volume = fuse[k].volume /\ fuse'[i].slot = fuse[k].slot
<1>1. CASE FuseDrops
  <2>1. fuse \in Seq(Service)
    BY DEF Types, TableTypes
  <2>2. PICK k \in DOMAIN fuse : fuse' = Dropped(fuse, k)
    BY <1>1 DEF FuseDrops
  <2>. QED
    BY <2>1, <2>2, DropFacts
<1>. QED
  BY <1>1 DEF FuseStays, FuseMarks

\* The two parts of Listing.
Distinct ==
    \A i \in DOMAIN fuse :
        /\ fuse[i].slot \in 1 .. Slots
        /\ \A j \in DOMAIN fuse : i # j =>
              fuse[i].volume # fuse[j].volume /\ fuse[i].slot # fuse[j].slot

NewHere(p) ==
    pc[p] \in {"check", "scan", "clear", "make", "fuse"} =>
        /\ my[p].slot \in 1 .. Slots
        /\ \A i \in DOMAIN fuse : fuse[i].slot # my[p].slot
        /\ pc[p] # "check" => \A i \in DOMAIN fuse : fuse[i].volume # arg[p].volume

\* The services keep their own volumes and slots.
LEMMA DistinctOfStep ==
    ASSUME Types, Roles, Listing, NEW p \in Callers, Step(p)
    PROVE  Distinct'
<1>0. Distinct
  BY DEF Listing, Distinct
<1>1. CASE FuseStays
  BY <1>0, <1>1 DEF FuseStays, Distinct
<1>2. CASE FuseMarks
  BY <1>0, <1>2 DEF FuseMarks, Distinct
<1>3. CASE FuseGains(p)
  <2>1. fuse \in Seq(Service) /\ fuse' = Append(fuse, NewService(p))
    BY <1>3 DEF Types, TableTypes, FuseGains
  <2>2. /\ DOMAIN fuse = 1 .. Len(fuse) /\ Len(fuse) \in Nat /\ DOMAIN fuse' = 1 .. Len(fuse) + 1
        /\ \A i \in DOMAIN fuse : fuse'[i] = fuse[i]
        /\ fuse'[Len(fuse) + 1] = NewService(p)
    BY <2>1
  <2>3. /\ NewService(p).slot \in 1 .. Slots
        /\ \A i \in DOMAIN fuse : fuse[i].slot # NewService(p).slot /\
           fuse[i].volume # NewService(p).volume
    BY <1>3 DEF FuseGains, Listing, NewService
  <2>4. \A i \in DOMAIN fuse' : i \in DOMAIN fuse \/ i = Len(fuse) + 1
    BY <2>2
  <2>. QED
    BY <1>0, <2>2, <2>3, <2>4 DEF Distinct
<1>4. CASE FuseDrops
  <2>1. fuse \in Seq(Service)
    BY DEF Types, TableTypes
  <2>2. PICK k \in DOMAIN fuse : fuse' = Dropped(fuse, k)
    BY <1>4 DEF FuseDrops
  <2>. DEFINE After(j) == IF j < k THEN j ELSE j + 1
  <2>3. \A j \in DOMAIN fuse' : After(j) \in DOMAIN fuse /\ fuse'[j] = fuse[After(j)]
    BY <2>1, <2>2, DropFacts
  <2>4. \A i, j \in DOMAIN fuse' : After(i) = After(j) => i = j
    BY <2>1, <2>2, DropFacts
  <2>. HIDE DEF After
  <2>. QED
    BY <1>0, <2>3, <2>4 DEF Distinct
<1>. QED
  BY <1>1, <1>2, <1>3, <1>4, FuseOfStep

\* What a mount has found free stays free until it takes it.
LEMMA NewHereOfStep ==
    ASSUME Types, Roles, Apart, Listing, NEW p \in Callers, Step(p), NEW q \in Callers
    PROVE  NewHere(q)'
<1>0. NewHere(q)
  BY DEF Listing, NewHere
<1>1. CASE q # p
  <2>1. pc'[q] = pc[q] /\ arg'[q] = arg[q] /\ my'[q] = my[q] /\ pc[p] # "idle"
    BY <1>1, Turn, AboutStays
  <2>. SUFFICES ASSUME pc[q] \in {"check", "scan", "clear", "make", "fuse"} PROVE NewHere(q)'
    BY <2>1 DEF NewHere
  <2>2. ~FuseGains(p)
    BY <1>1, <2>1 DEF Apart, Roles, FuseGains, MountStages, EarlyStages
  <2>3. \A i \in DOMAIN fuse' : \E k \in DOMAIN fuse :
            fuse'[i].volume = fuse[k].volume /\ fuse'[i].slot = fuse[k].slot
    BY <2>2, NoneAdded, FuseOfStep
  <2>. QED
    BY <1>0, <2>1, <2>3 DEF NewHere
<1>2. CASE q = p
  <2>. my[p] \in Local
    BY DEF Types, ControlTypes
  <2>. NewHere(p)
    BY <1>0, <1>2
  <2>. USE DEF Types, ControlTypes, Goto, Set, Inside, Return, End, At, NewHere, Local
  <2>. SUFFICES NewHere(p)'
    BY <1>2
  <2>1. CASE CoalesceSlotNumberAndMountPoint(p)
    BY <2>1 DEF CoalesceSlotNumberAndMountPoint, MountFails, First, FreeSlots, system
  <2>2. CASE CheckMounted(p)
    BY <2>2 DEF CheckMounted, MountFails, Listed, system
  <2>3. CASE OpenFails(p)
    BY <2>3 DEF OpenFails, MountFails
  <2>4. CASE Scan(p)
    BY <2>4 DEF Scan, MountFails, system
  <2>5. CASE ClearDirectory(p)
    BY <2>5 DEF ClearDirectory, MountFails, TryNextDir, system
  <2>6. CASE MakeDirectory(p)
    BY <2>6 DEF MakeDirectory, MountFails, TryNextDir, system
  <2>7. CASE FuseServiceMount(p)
    BY <2>7 DEF FuseServiceMount, MountFails
  <2>8. CASE FuseServiceFails(p)
    BY <2>8 DEF FuseServiceFails, MountFails
  <2>9. CASE DropDirectory(p)
    BY <2>9 DEF DropDirectory, MountFails
  <2>10. CASE MakePoint(p)
    BY <2>10 DEF MakePoint, MountFails
  <2>11. CASE Attach(p)
    BY <2>11 DEF Attach, MountFails
  <2>12. CASE AttachFails(p)
    BY <2>12 DEF AttachFails, MountFails
  <2>13. CASE CreateDevice(p)
    BY <2>13 DEF CreateDevice, MountFails
  <2>14. CASE CreateFails(p)
    BY <2>14 DEF CreateFails, MountFails
  <2>15. CASE TestDevice(p)
    BY <2>15 DEF TestDevice, MountFails
  <2>16. CASE CheckPoint(p)
    BY <2>16 DEF CheckPoint, MountFails
  <2>17. CASE MountFilesystem(p)
    BY <2>17 DEF MountFilesystem, MountFails
  <2>18. CASE MountFilesystemFails(p)
    BY <2>18 DEF MountFilesystemFails, MountFails
  <2>19. CASE SendAuxDeviceInfo(p)
    BY <2>19 DEF SendAuxDeviceInfo, MountFails
  <2>20. CASE SendFails(p)
    BY <2>20 DEF SendFails, MountFails
  <2>21. CASE Confirm(p)
    BY <2>21 DEF Confirm, MountFails
  <2>22. CASE UndoFilesystem(p)
    BY <2>22 DEF UndoFilesystem, MountFails
  <2>23. CASE UndoDevice(p)
    BY <2>23 DEF UndoDevice, MountFails
  <2>24. CASE UndoLoop(p)
    BY <2>24 DEF UndoLoop, MountFails
  <2>25. CASE DropPoint(p)
    BY <2>25 DEF DropPoint, MountFails
  <2>26. CASE Recall(p)
    BY <2>26 DEF Recall, MountFails
  <2>27. CASE UmountFilesystem(p)
    BY <2>27 DEF UmountFilesystem, MountFails
  <2>28. CASE RemoveDevices(p)
    BY <2>28 DEF RemoveDevices, MountFails
  <2>29. CASE DetachLoop(p)
    BY <2>29 DEF DetachLoop, MountFails
  <2>30. CASE UmountAux(p)
    BY <2>30 DEF UmountAux, MountFails
  <2>. QED
    BY <2>1, <2>2, <2>3, <2>4, <2>5, <2>6, <2>7, <2>8, <2>9, <2>10, <2>11, <2>12, <2>13, <2>14,
       <2>15, <2>16, <2>17, <2>18, <2>19, <2>20, <2>21, <2>22, <2>23, <2>24, <2>25, <2>26, <2>27,
            <2>28, <2>29, <2>30 DEF Step
<1>. QED
  BY <1>1, <1>2

\* Callers that are not at odds do not become so by a step.
LEMMA ApartOfStep ==
    ASSUME Types, Roles, Apart, NEW p \in Callers, Step(p)
    PROVE  Apart'
<1>1. ASSUME NEW q \in Callers, q # p
      PROVE  pc'[q] = pc[q] /\ Mounting(q)' = Mounting(q) /\ About(q)' = About(q)
  BY <1>1, Turn DEF Mounting, About
<1>2. pc[p] # "idle" /\ (pc'[p] = "idle" \/ (Mounting(p)' = Mounting(p) /\ About(p)' = About(p)))
  BY AboutStays DEF Mounting
<1>. QED
  BY <1>1, <1>2 DEF Apart

\* A step keeps the first invariant.
LEMMA StepKeeps ==
    ASSUME IInv, NEW p \in Callers, Step(p)
    PROVE  IInv'
<1>1. Types /\ Roles
  BY DEF IInv
<1>2. Types'
  BY <1>1, ControlOfStep, FuseOfStep, FsOfStep, OnOfStep DEF Types, TableTypes
<1>3. ASSUME ~overlapped' PROVE Apart' /\ Listing'
  <2>1. Apart /\ Listing
    BY <1>1, <1>3, AboutStays DEF IInv
  <2>2. Distinct' /\ \A q \in Callers : NewHere(q)'
    BY <1>1, <2>1, DistinctOfStep, NewHereOfStep
  <2>3. Listing'
    BY <2>2 DEF Listing, Distinct, NewHere
  <2>. QED
    BY <1>1, <2>1, <2>3, ApartOfStep
<1>. QED
  BY <1>1, <1>2, <1>3, RolesOfStep DEF IInv

\* The start of a mount keeps the first invariant.
LEMMA MountStarts ==
    ASSUME IInv, NEW p \in Callers, NEW v \in Volumes, NEW layers \in Layers, NEW files \in Files,
           MountVolume(p, v, layers, files)
    PROVE  IInv'
<1>. USE UnixMountAssumption DEF MountVolume, Call, At, Goto
<1>. DEFINE a == [volume |-> v, layers |-> layers, files |-> files]
<1>0. Types /\ Roles /\ a \in Request /\ v # None
  BY DEF IInv, Request
<1>1. /\ pc[p] = "idle" /\ my[p] = Fresh /\ my' = my /\ fuse' = fuse /\ fs' = fs /\ on' = on
      /\ pc' = [pc EXCEPT ![p] = "coalesce"] /\ arg' = [arg EXCEPT ![p] = a]
  BY <1>0 DEF Roles, system
<1>2. Types'
  BY <1>0, <1>1 DEF Types, TableTypes, ControlTypes, Stages, MountStages, EarlyStages
<1>3. /\ \A q \in Callers \ {p} : pc'[q] = pc[q] /\ arg'[q] = arg[q]
      /\ pc'[p] = "coalesce" /\ arg'[p] = a
  BY <1>0, <1>1 DEF Types, ControlTypes
<1>4. Roles'
  <2>1. \A q \in Callers \ {p} : Mounting(q)' = Mounting(q) /\ About(q)' = About(q)
    BY <1>1, <1>3 DEF Mounting, About
  <2>2. Mounting(p)' /\ my'[p] = Fresh /\ Fresh.info = NoInfo /\ Fresh.built = 0
    BY <1>0, <1>1, <1>3 DEF Mounting, Fresh
  <2>. QED
    BY <1>0, <1>1, <1>3, <2>1, <2>2
       DEF Roles, MountStages, EarlyStages, HeldStages, UnmountStages, Building
<1>5. ASSUME ~overlapped' PROVE Apart' /\ Listing'
  <2>1. ~overlapped /\ \A q \in Callers : ~AtOdds(q, TRUE, v)
    BY <1>5
  <2>2. Apart /\ Listing
    BY <2>1 DEF IInv
  <2>3. Listing'
    BY <1>1, <1>3, <2>2 DEF Listing
  <2>4. About(p)' = v /\ Mounting(p)'
    BY <1>0, <1>3 DEF About, Mounting
  <2>5. \A q \in Callers \ {p} : Mounting(q)' = Mounting(q) /\ About(q)' = About(q)
    BY <1>1, <1>3 DEF Mounting, About
  <2>6. \A q \in Callers \ {p} : pc[q] # "idle" => ~Mounting(q) /\ About(q) # v
    BY <2>1 DEF AtOdds, Mounting, About
  <2>7. Apart'
    BY <1>3, <2>2, <2>4, <2>5, <2>6 DEF Apart
  <2>. QED
    BY <2>3, <2>7
<1>. QED
  BY <1>2, <1>4, <1>5 DEF IInv

\* The start of an unmount keeps the first invariant.
LEMMA DismountStarts ==
    ASSUME IInv, NEW p \in Callers, NEW i \in DOMAIN fuse, DismountVolume(p, i)
    PROVE  IInv'
<1>. USE UnixMountAssumption DEF DismountVolume, Call, At, Goto, Set
<1>. DEFINE l == [Fresh EXCEPT !.info = Info(fuse[i])]
            v == fuse[i].volume
<1>0. /\ Types /\ Roles /\ fuse[i] \in Service /\ v \in Volumes /\ v # None
      /\ l \in Local /\ l.info.volume = v /\ l.built = 0
  <2>1. Types /\ Roles /\ fuse[i] \in Service
    BY EntryTypes DEF IInv
  <2>2. l \in Local
    BY <2>1, InfoType, LocalFields, NoneTypes
  <2>. QED
    BY <2>1, <2>2 DEF Service, Info, Fresh
<1>1. /\ pc[p] = "idle" /\ arg' = arg /\ arg[p] = NoArg /\ fs' = fs /\ on' = on
      /\ pc' = [pc EXCEPT ![p] = "umount"] /\ my' = [my EXCEPT ![p] = l]
      /\ fuse' = [fuse EXCEPT ![i].state = "leaving"]
  BY <1>0 DEF Roles
<1>2. FuseMarks /\ fuse' \in Seq(Service)
  <2>1. fuse \in Seq(Service)
    BY <1>0 DEF Types, TableTypes
  <2>2. [fuse[i] EXCEPT !.state = "leaving"] \in Service
    BY <1>0 DEF Service
  <2>3. fuse' = [fuse EXCEPT ![i] = [fuse[i] EXCEPT !.state = "leaving"]]
    BY <1>1
  <2>4. fuse' \in Seq(Service)
    BY <2>1, <2>2, <2>3
  <2>5. FuseMarks
    BY <1>0, <2>1, <2>3 DEF FuseMarks, Service
  <2>. QED
    BY <2>4, <2>5
<1>3. Types'
  BY <1>0, <1>1, <1>2 DEF Types, TableTypes, ControlTypes, Stages, UnmountStages
<1>4. /\ \A q \in Callers \ {p} : pc'[q] = pc[q] /\ my'[q] = my[q]
      /\ pc'[p] = "umount" /\ my'[p] = l
  BY <1>0, <1>1 DEF Types, ControlTypes
<1>. HIDE DEF l, v
<1>5. /\ \A q \in Callers \ {p} : Mounting(q)' = Mounting(q) /\ About(q)' = About(q)
      /\ ~Mounting(p)' /\ About(p)' = v
  <2>1. \A q \in Callers \ {p} : Mounting(q)' = Mounting(q) /\ About(q)' = About(q)
    BY <1>1, <1>4 DEF Mounting, About
  <2>3. arg'[p] = NoArg
    BY <1>1
  <2>4. arg'[p].volume = None
    BY <2>3 DEF NoArg
  <2>5. my'[p].info.volume = v
    BY <1>0, <1>4
  <2>2. arg'[p].volume = None /\ my'[p].info.volume = v
    BY <2>4, <2>5
  <2>. QED
    BY <2>1, <2>2 DEF Mounting, About
<1>6. Roles'
  <2>1. Roles /\ arg' = arg /\ l.info.volume = v /\ v # None
    BY <1>0, <1>1
  <2>. QED
    BY <1>4, <1>5, <2>1 DEF Roles, MountStages, EarlyStages, HeldStages, UnmountStages, Building
<1>7. ASSUME ~overlapped' PROVE Apart' /\ Listing'
  <2>1. ~overlapped /\ \A q \in Callers : ~AtOdds(q, FALSE, v)
    BY <1>7 DEF v
  <2>2. Apart /\ Listing
    BY <2>1 DEF IInv
  <2>3. Listing'
    BY <1>1, <1>2, <1>4, <2>2 DEF Listing, FuseMarks
  <2>6. \A q \in Callers \ {p} : pc[q] # "idle" => Mounting(q) /\ About(q) # v
    BY <2>1 DEF AtOdds, Mounting, About
  <2>7. Apart'
    BY <1>4, <1>5, <2>2, <2>6 DEF Apart
  <2>. QED
    BY <2>3, <2>7
<1>. QED
  BY <1>3, <1>6, <1>7 DEF IInv

\* The first invariant holds at the start.
LEMMA InitHolds == Init => IInv
<1>. SUFFICES ASSUME Init PROVE IInv
  OBVIOUS
<1>. USE DEF Init
<1>1. Types
  BY NoneTypes DEF Types, TableTypes, ControlTypes, Stages
<1>2. \A p \in Callers : pc[p] = "idle" /\ arg[p] = NoArg /\ my[p] = Fresh
  OBVIOUS
<1>3. Roles
  BY <1>2 DEF Roles, MountStages, EarlyStages, HeldStages, UnmountStages, Building
<1>4. Apart /\ Listing
  BY <1>2 DEF Apart, Listing
<1>. QED
  BY <1>1, <1>3, <1>4 DEF IInv

\* Every step keeps the first invariant.
LEMMA NextKeeps == IInv /\ [Next]_vars => IInv'
<1>. SUFFICES ASSUME IInv, [Next]_vars PROVE IInv'
  OBVIOUS
<1>1. CASE Next
  BY <1>1, StepKeeps, MountStarts, DismountStarts DEF Next
<1>2. CASE UNCHANGED vars
  BY <1>2 DEF vars, system, bounds, ghosts, IInv, Types, TableTypes, ControlTypes, Roles, Apart,
     Listing, Mounting, About
<1>. QED
  BY <1>1, <1>2

\* The types are right; and where no calls at odds have overlapped, each caller is the
\* only one about its volume, and services have their own volumes and slots.
THEOREM Invariant == Spec => []IInv
<1>1. Init => IInv
  BY InitHolds
<1>2. IInv /\ [Next]_vars => IInv'
  BY NextKeeps
<1>. QED
  BY <1>1, <1>2, PTL DEF Spec

\* A volume is mounted once, and a slot is taken once: CheckMounted and the choice of
\* a slot see to it although no lock is held, as long as calls at odds do not overlap.
THEOREM MountedOnce == Spec => []Alone
<1>1. IInv => Alone
  BY DEF IInv, Listing, Alone
<1>. QED
  BY <1>1, Invariant, PTL

-----------------------------------------------------------------------------
\* No two services are mounted on one directory.
Dirs == \A i, j \in DOMAIN fuse : fuse[i].dir = fuse[j].dir => i = j

\* Whether the devices of the mount of p are known to its service, or not yet.
Sent(p) == pc[p] = "confirm" \/ (~Native(p) /\ pc[p] \in {"checkPoint", "mountFs"})
NotSent(p) == pc[p] \notin {"dropPoint", "recall"} /\ ~Sent(p)

\* The service of e is about to be unmounted, after its loop device; or it has one.
Gone(e) == \E p \in Callers : pc[p] = "umountAux" /\ my[p].info.volume = e.volume
Live(e) == e.loop # None /\ ~Gone(e)

\* Service e is that of caller p.
ServiceOf(p, e) ==
    /\ e \in Services
    /\ pc[p] \in HeldStages =>
        /\ e.volume = arg[p].volume /\ e.slot = my[p].slot /\ e.dir = my[p].dir
        /\ e.files = arg[p].files /\ e.state = "new"
        /\ Sent(p) => e.virtual = my[p].device /\ e.loop = my[p].loop
        /\ NotSent(p) => e.virtual = None /\ e.loop = None
    /\ pc[p] \in UnmountStages =>
        /\ e.volume = my[p].info.volume /\ e.dir = my[p].info.dir
        /\ e.virtual = my[p].info.virtual /\ e.loop = my[p].info.loop
        /\ e.state = IF Mounting(p) THEN "new" ELSE "leaving"

\* Past the start of a mount, and while it unmounts, a caller has a service.
HasService ==
    \A p \in Callers : pc[p] \in HeldStages \cup UnmountStages =>
    \E e \in Services : ServiceOf(p, e)

IsLoop(d) == \E n \in Nat : d = Loop(n)

\* What callers and services call their devices: the loop device of a mount; the upper
\* of the devices a mount has made, of a cascade from the lowest up; and what a service
\* has been told, which is a loop device and that or the upper device of its slot.
Shape ==
    \A p \in Callers :
        /\ pc[p] \in Looped => IsLoop(my[p].loop)
        /\ pc[p] \in {"create", "test", "undoFs", "undoDevice"} => Native(p)
        /\ pc[p] \in Building =>
              LET from == arg[p].layers - my[p].built
              IN /\ from >= 0
                 /\ pc[p] = "create" <=> from > 0
                 /\ my[p].device = IF my[p].built = 0 THEN my[p].loop ELSE Mapped(my[p].slot, from)
        /\ pc[p] \in {"undoFs", "undoDevice"} /\ my[p].built > 0 =>
              \E level \in Nat : my[p].device = Mapped(my[p].slot, level)

Named ==
    \A e \in Services :
        /\ e.loop = None => e.virtual = None
        /\ e.loop # None => IsLoop(e.loop) /\ e.virtual \in {e.loop, Mapped(e.slot, 0)}

\* A slot has at most one file system; and none, while a mount has not mounted its own or
\* has unmounted it.
FreeOfMounts(p) ==
    \/ pc[p] \in {"check", "scan", "clear", "make", "fuse", "point", "attach", "create", "test",
                  "checkPoint", "mountFs"}
    \/ pc[p] = "send" /\ ~Native(p)
    \/ pc[p] \in {"send", "undoFs"} /\ ~my[p].mounted
    \/ pc[p] = "undoDevice" /\ arg[p].volume \notin leaked

Slotted ==
    /\ \A i, j \in DOMAIN fs : fs[i].slot = fs[j].slot => i = j
    /\ \A p \in Callers : FreeOfMounts(p) => \A m \in Mounts : m.slot # my[p].slot

\* The second invariant: as long as no calls at odds have overlapped, each caller has its
\* service, whatever else has gone wrong.
Owners == HasService /\ Shape /\ Named /\ Slotted
OInv   == Dirs /\ (~overlapped => Owners)

\* What an unmount has found mounted for its service is in the slot of the service.
Pointed ==
    \A p \in Callers, e \in Services :
        pc[p] \in UnmountStages /\ ServiceOf(p, e) => my[p].info.point \in {None, e.slot}

\* A service with a loop device has it to itself, and is over it or over its cascade.
Devised ==
    \A e \in Services :
        Live(e) =>
              /\ Exists(e.loop)
              /\ \A m \in Mounts : m.device = e.loop => m.slot = e.slot
              /\ \A f \in Services : Live(f) /\ f.loop = e.loop => f = e

\* A mount that has a loop device has it to itself.
Held ==
    \A p \in Callers : pc[p] \in Looped =>
        /\ Exists(my[p].loop)
        /\ \A m \in Mounts : m.device = my[p].loop => m.slot = my[p].slot
        /\ \A e \in Services : Live(e) /\ e.loop = my[p].loop => e.volume = arg[p].volume

\* The devices of a slot from one level to below another, over a loop device.
Stack(slot, from, to, loop) ==
    \A level \in from .. to - 1 :
        /\ Exists(Mapped(slot, level))
        /\ on[Mapped(slot, level)] = IF level = to - 1 THEN loop ELSE Mapped(slot, level + 1)

\* The cascade a mount has built so far, lowest first.
BuiltAt(p) ==
    pc[p] \in Building =>
        /\ Stack(my[p].slot, arg[p].layers - my[p].built, arg[p].layers, my[p].loop)
        /\ on[my[p].loop] = IF Native(p) THEN File(arg[p].volume) ELSE Image(my[p].dir)

Built == \A p \in Callers : BuiltAt(p)

\* The entry of the mount of p in the table of file systems.
Entered(p) == [device |-> my[p].device, slot |-> my[p].slot]

\* A file system is on a device that exists; and a mount finds its own.
Filesystems ==
    /\ \A m \in Mounts : Exists(m.device) /\ (m.device[1] = "dm" => m.device[2] = m.slot)
    /\ \A p \in Callers : pc[p] = "confirm" \/ (pc[p] = "send" /\ Native(p)) =>
          (arg[p].files => Entered(p) \in Mounts)

\* All that a mount makes is there, one device over the other.
Complete(e) ==
    /\ e.loop # None
    /\ \/ e.virtual = e.loop /\ on[e.loop] = Image(e.dir)
       \/ /\ e.virtual = Mapped(e.slot, 0) /\ on[e.loop] = File(e.volume)
          /\ \E n \in Nat \ {0} : Stack(e.slot, 0, n, e.loop)
    /\ e.files => [device |-> e.virtual, slot |-> e.slot] \in Mounts

Completed == \A e \in Services : e.state = "mounted" => Complete(e)

\* The third invariant: if moreover no unmount has failed after it detached its loop
\* device.
Sound == Pointed /\ Devised /\ Held /\ Built /\ Filesystems /\ Completed
SInv == ~overlapped /\ ~half => Sound

\* A service is known by its volume, by its slot and by its directory.
LEMMA SameService ==
    ASSUME Listing, Dirs, NEW e \in Services, NEW f \in Services,
           e.volume = f.volume \/ e.slot = f.slot \/ e.dir = f.dir
    PROVE  e = f
<1>1. PICK i \in DOMAIN fuse : e = fuse[i]
  BY DEF Services
<1>2. PICK j \in DOMAIN fuse : f = fuse[j]
  BY DEF Services
<1>3. i = j
  BY <1>1, <1>2 DEF Listing, Dirs
<1>. QED
  BY <1>1, <1>2, <1>3

\* The services and the file systems have their types.
LEMMA ServiceTypes ==
    ASSUME Types
    PROVE  Services \subseteq Service /\ Mounts \subseteq Filesystem
<1>1. \A i \in DOMAIN fuse : fuse[i] \in Service
  BY EntryTypes
<1>2. \A i \in DOMAIN fs : fs[i] \in Filesystem
  BY DEF Types, TableTypes
<1>. QED
  BY <1>1, <1>2 DEF Services, Mounts

\* What a table lists after an entry is added.
LEMMA AppendRange ==
    ASSUME NEW S, NEW table \in Seq(S), NEW x \in S
    PROVE  LET new == Append(table, x)
           IN {new[i] : i \in DOMAIN new} = {table[i] : i \in DOMAIN table} \cup {x}
<1>. DEFINE new == Append(table, x)
<1>1. /\ DOMAIN table = 1 .. Len(table) /\ Len(table) \in Nat /\ DOMAIN new = 1 .. Len(table) + 1
      /\ \A i \in DOMAIN table : new[i] = table[i]
      /\ new[Len(table) + 1] = x
  OBVIOUS
<1>2. /\ \A i \in DOMAIN new : i \in DOMAIN table \/ i = Len(table) + 1
      /\ DOMAIN table \subseteq DOMAIN new /\ Len(table) + 1 \in DOMAIN new
  BY <1>1
<1>. HIDE DEF new
<1>3. ASSUME NEW y PROVE (\E i \in DOMAIN new : y = new[i]) <=> (\E i \in DOMAIN table : y = table[i]) \/ y = x
  BY <1>1, <1>2
<1>4. {new[i] : i \in DOMAIN new} = {table[i] : i \in DOMAIN table} \cup {x}
  BY <1>3
<1>. QED
  BY <1>4 DEF new

\* What a table lists after an entry is dropped.
LEMMA DropRange ==
    ASSUME NEW S, NEW table \in Seq(S), NEW k \in DOMAIN table,
           \A i \in DOMAIN table : table[i] = table[k] => i = k
    PROVE  LET new == Dropped(table, k)
           IN {new[i] : i \in DOMAIN new} = {table[i] : i \in DOMAIN table} \ {table[k]}
<1>. DEFINE new == Dropped(table, k)
            After(j) == IF j < k THEN j ELSE j + 1
<1>1. \A j \in DOMAIN new : After(j) \in DOMAIN table \ {k} /\ new[j] = table[After(j)]
  BY DropFacts
<1>2. \A m \in DOMAIN table \ {k} : \E j \in DOMAIN new : After(j) = m
  BY DropFacts
<1>. HIDE DEF new, After
<1>3. ASSUME NEW y
      PROVE  (\E i \in DOMAIN new : y = new[i]) <=> (\E i \in DOMAIN table : y = table[i]) /\
             y # table[k]
  BY <1>1, <1>2
<1>4. {new[i] : i \in DOMAIN new} = {table[i] : i \in DOMAIN table} \ {table[k]}
  BY <1>3
<1>. QED
  BY <1>4 DEF new

\* What a table lists after an entry is changed.
LEMMA ChangeRange ==
    ASSUME NEW table, NEW new, NEW k \in DOMAIN table, DOMAIN new = DOMAIN table,
           \A i \in DOMAIN table : table[i] = table[k] => i = k,
           \A i \in DOMAIN table \ {k} : new[i] = table[i]
    PROVE  {new[i] : i \in DOMAIN new} = ({table[i] : i \in DOMAIN table} \ {table[k]}) \cup {new[k]}
OBVIOUS

\* No two services have one directory.
LEMMA DirsOfStep ==
    ASSUME Types, Roles, Dirs, NEW p \in Callers, Step(p)
    PROVE  Dirs'
<1>1. CASE FuseStays
  BY <1>1 DEF FuseStays, Dirs
<1>2. CASE FuseMarks
  BY <1>2 DEF FuseMarks, Dirs
<1>3. CASE FuseGains(p)
  <2>1. fuse \in Seq(Service) /\ fuse' = Append(fuse, NewService(p))
    BY <1>3 DEF Types, TableTypes, FuseGains
  <2>2. /\ DOMAIN fuse = 1 .. Len(fuse) /\ Len(fuse) \in Nat /\ DOMAIN fuse' = 1 .. Len(fuse) + 1
        /\ \A i \in DOMAIN fuse : fuse'[i] = fuse[i]
        /\ fuse'[Len(fuse) + 1] = NewService(p)
    BY <2>1
  <2>3. \A i \in DOMAIN fuse : fuse[i].dir # NewService(p).dir
    BY <1>3 DEF FuseGains, CanMountFuse, FuseOn, NewService
  <2>4. \A i \in DOMAIN fuse' : i \in DOMAIN fuse \/ i = Len(fuse) + 1
    BY <2>2
  <2>. QED
    BY <2>2, <2>3, <2>4 DEF Dirs
<1>4. CASE FuseDrops
  <2>1. fuse \in Seq(Service)
    BY DEF Types, TableTypes
  <2>2. PICK k \in DOMAIN fuse : fuse' = Dropped(fuse, k)
    BY <1>4 DEF FuseDrops
  <2>. DEFINE After(j) == IF j < k THEN j ELSE j + 1
  <2>3. \A j \in DOMAIN fuse' : After(j) \in DOMAIN fuse /\ fuse'[j] = fuse[After(j)]
    BY <2>1, <2>2, DropFacts
  <2>4. \A i, j \in DOMAIN fuse' : After(i) = After(j) => i = j
    BY <2>1, <2>2, DropFacts
  <2>. HIDE DEF After
  <2>. QED
    BY <2>3, <2>4 DEF Dirs
<1>. QED
  BY <1>1, <1>2, <1>3, <1>4, FuseOfStep

\* Steps that may change the table of services, the devices, or the file systems.
FuseSteps(p) == FuseServiceMount(p) \/ FuseServiceFails(p) \/ SendAuxDeviceInfo(p) \/ Confirm(p)
                \/ UmountAux(p)
OnSteps(p)   == Attach(p) \/ CreateDevice(p) \/ CreateFails(p) \/ UndoDevice(p) \/ UndoLoop(p)
                \/ RemoveDevices(p) \/ DetachLoop(p)
FsSteps(p)   == MountFilesystem(p) \/ UndoFilesystem(p) \/ UmountFilesystem(p)

\* All other steps leave the three tables as they are.
LEMMA TablesKept ==
    ASSUME NEW p \in Callers, Step(p)
    PROVE  /\ ~FuseSteps(p) => fuse' = fuse
           /\ ~OnSteps(p) => on' = on
           /\ ~FsSteps(p) => fs' = fs
<1>1. CASE CoalesceSlotNumberAndMountPoint(p) \/ CheckMounted(p) \/ OpenFails(p) \/ Scan(p) \/
           ClearDirectory(p) \/ MakeDirectory(p) \/ FuseServiceMount(p) \/ FuseServiceFails(p)
  BY <1>1 DEF CoalesceSlotNumberAndMountPoint, CheckMounted, OpenFails, Scan, ClearDirectory,
     MakeDirectory, FuseServiceMount, FuseServiceFails, TryNextDir, system, FuseSteps, OnSteps,
     FsSteps
<1>2. CASE DropDirectory(p) \/ MakePoint(p) \/ Attach(p) \/ AttachFails(p) \/ CreateDevice(p) \/
           CreateFails(p) \/ TestDevice(p)
  BY <1>2 DEF DropDirectory, MakePoint, Attach, AttachFails, CreateDevice, CreateFails, TestDevice,
     TryNextDir, system, FuseSteps, OnSteps, FsSteps
<1>3. CASE CheckPoint(p) \/ MountFilesystem(p) \/ MountFilesystemFails(p) \/
           SendAuxDeviceInfo(p) \/ SendFails(p) \/ Confirm(p) \/ UndoFilesystem(p) \/ UndoDevice(p)
  BY <1>3 DEF CheckPoint, MountFilesystem, MountFilesystemFails, SendAuxDeviceInfo, SendFails,
     Confirm, UndoFilesystem, UndoDevice, TryNextDir, system, FuseSteps, OnSteps, FsSteps
<1>4. CASE UndoLoop(p) \/ DropPoint(p) \/ Recall(p) \/ UmountFilesystem(p) \/ RemoveDevices(p) \/
           DetachLoop(p) \/ UmountAux(p)
  BY <1>4 DEF UndoLoop, DropPoint, Recall, UmountFilesystem, RemoveDevices, DetachLoop, UmountAux,
     TryNextDir, system, FuseSteps, OnSteps, FsSteps
<1>. QED
  BY <1>1, <1>2, <1>3, <1>4 DEF Step

Owned == IInv /\ Dirs /\ Owners /\ ~overlapped
Calm  == Owned /\ Sound /\ ~half

\* What holds where no calls at odds have overlapped, by name.
LEMMA OwnedFacts ==
    ASSUME Owned
    PROVE  /\ Types /\ Roles /\ Apart /\ Listing /\ Dirs
           /\ HasService /\ Shape /\ Named /\ Slotted
           /\ fuse \in Seq(Service) /\ fs \in Seq(Filesystem)
           /\ \A i \in DOMAIN fuse : fuse[i] \in Services /\ fuse[i] \in Service
BY EntryTypes DEF Owned, Owners, IInv, Types, TableTypes, Services

\* What holds before a step where nothing has gone wrong, by name.
LEMMA CalmFacts ==
    ASSUME Calm
    PROVE  /\ Owned /\ Types /\ Roles /\ Apart /\ Listing /\ Dirs
           /\ HasService /\ Shape /\ Named /\ Slotted
           /\ Pointed /\ Devised /\ Held /\ Built /\ Filesystems /\ Completed
           /\ fuse \in Seq(Service) /\ fs \in Seq(Filesystem)
           /\ \A i \in DOMAIN fuse : fuse[i] \in Services /\ fuse[i] \in Service
BY OwnedFacts DEF Calm, Sound

\* Past the start of a mount, and while it unmounts, a caller has one service.
LEMMA OwnService ==
    ASSUME Owned, NEW p \in Callers, pc[p] \in HeldStages \cup UnmountStages
    PROVE  \E e \in Services : ServiceOf(p, e)
BY OwnedFacts DEF HasService

\* The service of a caller is the only one of its volume, and is not mounted.
LEMMA OwnVolume ==
    ASSUME Owned, NEW p \in Callers, NEW e, ServiceOf(p, e), pc[p] \in HeldStages \cup UnmountStages
    PROVE  /\ e \in Services /\ e \in Service /\ e.volume = About(p) /\ e.state # "mounted"
           /\ \A f \in Services : f.volume = About(p) => f = e
<1>1. e \in Services /\ e \in Service
  BY OwnedFacts, ServiceTypes DEF ServiceOf
<1>2. e.volume = About(p) /\ e.state # "mounted"
  BY OwnedFacts DEF ServiceOf, Roles, About, MountStages
<1>. QED
  BY <1>1, <1>2, OwnedFacts, SameService

\* What a step that adds a service lists after it.
LEMMA Adds ==
    ASSUME Owned, NEW p \in Callers, FuseGains(p)
    PROVE  Services' = Services \cup {NewService(p)}
<1>1. NewService(p) \in Service
  BY OwnedFacts, NewServiceType DEF FuseGains, Roles, MountStages, EarlyStages
<1>2. fuse \in Seq(Service) /\ fuse' = Append(fuse, NewService(p))
  BY OwnedFacts DEF FuseGains
<1>3. {fuse'[i] : i \in DOMAIN fuse'} = {fuse[i] : i \in DOMAIN fuse} \cup {NewService(p)}
  BY <1>1, <1>2, AppendRange
<1>. QED
  BY <1>3 DEF Services

\* The devices that are sent are those of the service of the mount.
LEMMA Sends ==
    ASSUME Owned, NEW p \in Callers, SendAuxDeviceInfo(p), NEW e, ServiceOf(p, e)
    PROVE  Services' = (Services \ {e}) \cup {[e EXCEPT !.virtual = my[p].device,
           !.loop = my[p].loop]}
<1>1. pc[p] = "send" /\ e \in Services /\ e.dir = my[p].dir
  BY DEF SendAuxDeviceInfo, At, ServiceOf, HeldStages
<1>2. PICK k \in DOMAIN fuse : e = fuse[k]
  BY <1>1 DEF Services
<1>3. \A i \in DOMAIN fuse : fuse[i].dir = my[p].dir <=> i = k
  BY <1>1, <1>2, OwnedFacts DEF Dirs
<1>4. /\ DOMAIN fuse' = DOMAIN fuse
      /\ \A i \in DOMAIN fuse \ {k} : fuse'[i] = fuse[i]
      /\ fuse'[k] = [e EXCEPT !.virtual = my[p].device, !.loop = my[p].loop]
  BY <1>2, <1>3 DEF SendAuxDeviceInfo
<1>5. \A i \in DOMAIN fuse : fuse[i] = fuse[k] => i = k
  BY OwnedFacts DEF Dirs
<1>6. {fuse'[i] : i \in DOMAIN fuse'} = ({fuse[i] : i \in DOMAIN fuse} \ {fuse[k]}) \cup {fuse'[k]}
  BY <1>4, <1>5, ChangeRange
<1>. QED
  BY <1>2, <1>4, <1>6 DEF Services

\* The service of a mount is marked as mounted when the mount returns.
LEMMA Confirms ==
    ASSUME Owned, NEW p \in Callers, Confirm(p), NEW e, ServiceOf(p, e)
    PROVE  Services' = (Services \ {e}) \cup {[e EXCEPT !.state = "mounted"]}
<1>1. pc[p] = "confirm" /\ e \in Services /\ e.dir = my[p].dir
  BY DEF Confirm, At, ServiceOf, HeldStages
<1>2. PICK k \in DOMAIN fuse : e = fuse[k]
  BY <1>1 DEF Services
<1>3. \A i \in DOMAIN fuse : fuse[i].dir = my[p].dir <=> i = k
  BY <1>1, <1>2, OwnedFacts DEF Dirs
<1>4. /\ DOMAIN fuse' = DOMAIN fuse
      /\ \A i \in DOMAIN fuse \ {k} : fuse'[i] = fuse[i]
      /\ fuse'[k] = [e EXCEPT !.state = "mounted"]
  BY <1>2, <1>3 DEF Confirm
<1>5. \A i \in DOMAIN fuse : fuse[i] = fuse[k] => i = k
  BY OwnedFacts DEF Dirs
<1>6. {fuse'[i] : i \in DOMAIN fuse'} = ({fuse[i] : i \in DOMAIN fuse} \ {fuse[k]}) \cup {fuse'[k]}
  BY <1>4, <1>5, ChangeRange
<1>. QED
  BY <1>2, <1>4, <1>6 DEF Services

\* The service that is unmounted is the caller's own; if it stays, that is seen.
LEMMA Unlists ==
    ASSUME Owned, NEW p \in Callers, UmountAux(p), NEW e, ServiceOf(p, e)
    PROVE  \/ Services' = Services \ {e}
           \/ /\ Services' = Services /\ (half' <=> half \/ e.loop # None)
              /\ UsedBy(Image(e.dir)) = {} /\ Mounting(p) => arg[p].volume \in leaked'
<1>1. /\ pc[p] = "umountAux" /\ e \in Services
      /\ e.dir = my[p].info.dir /\ e.volume = my[p].info.volume /\ e.loop = my[p].info.loop
  BY DEF UmountAux, At, ServiceOf, UnmountStages
<1>2. PICK k \in DOMAIN fuse : e = fuse[k]
  BY <1>1 DEF Services
<1>3. \A i \in DOMAIN fuse : /\ fuse[i].dir = e.dir => i = k
                             /\ fuse[i].volume = e.volume => i = k
  BY <1>2, OwnedFacts DEF Dirs, Listing
<1>4. \A d \in {my[p].info.dir} \cup {fuse[i].dir : i \in First(Listed(my[p].info.volume))} : d = e.dir
  BY <1>1, <1>2, <1>3 DEF First, Listed
<1>5. (CHOOSE i \in DOMAIN fuse : fuse[i].dir = e.dir) = k
  BY <1>2, <1>3
<1>6. \/ fuse' = Dropped(fuse, k)
      \/ /\ fuse' = fuse /\ half' = (half \/ my[p].info.loop # None)
         /\ UsedBy(Image(e.dir)) = {} /\ Mounting(p) => arg[p].volume \in leaked'
  <2>1. FuseOn(e.dir)
    BY <1>2 DEF FuseOn
  <2>. QED
    BY <1>4, <1>5, <2>1 DEF UmountAux, Mounting
<1>7. CASE fuse' = Dropped(fuse, k)
  <2>1. \A i \in DOMAIN fuse : fuse[i] = fuse[k] => i = k
    BY OwnedFacts DEF Dirs
  <2>2. {fuse'[i] : i \in DOMAIN fuse'} = {fuse[i] : i \in DOMAIN fuse} \ {fuse[k]}
    BY <1>7, <2>1, OwnedFacts, DropRange
  <2>. QED
    BY <1>2, <2>2 DEF Services
<1>8. CASE /\ fuse' = fuse /\ half' = (half \/ my[p].info.loop # None)
           /\ UsedBy(Image(e.dir)) = {} /\ Mounting(p) => arg[p].volume \in leaked'
  BY <1>1, <1>8 DEF Services
<1>. QED
  BY <1>6, <1>7, <1>8

\* A step leaves the services of all other volumes, and while it has none of its
\* own and adds none, of its own volume too.
LEMMA OthersServices ==
    ASSUME Owned, NEW p \in Callers, Step(p)
    PROVE  \A e : e.volume # About(p) => (e \in Services' <=> e \in Services)
<1>1. CASE ~FuseSteps(p)
  BY <1>1, TablesKept DEF Services
<1>2. CASE FuseServiceMount(p) \/ FuseServiceFails(p)
  <2>1. fuse' = fuse \/ FuseGains(p)
    BY <1>2 DEF FuseServiceMount, FuseServiceFails, FuseGains, At
  <2>2. CASE fuse' = fuse
    BY <2>2 DEF Services
  <2>3. CASE FuseGains(p)
    <3>1. NewService(p).volume = About(p)
      BY <2>3, OwnedFacts DEF FuseGains, NewService, About, Roles, MountStages, EarlyStages
    <3>. QED
      BY <2>3, <3>1, Adds
  <2>. QED
    BY <2>1, <2>2, <2>3
<1>3. CASE SendAuxDeviceInfo(p)
  <2>1. PICK e \in Services : ServiceOf(p, e)
    BY <1>3, OwnService DEF SendAuxDeviceInfo, At, HeldStages
  <2>2. e.volume = About(p) /\ e \in Service
    BY <1>3, <2>1, OwnVolume DEF SendAuxDeviceInfo, At, HeldStages
  <2>3. [e EXCEPT !.virtual = my[p].device, !.loop = my[p].loop].volume = About(p)
    BY <2>2 DEF Service
  <2>4. Services' = (Services \ {e}) \cup {[e EXCEPT !.virtual = my[p].device, !.loop = my[p].loop]}
    BY <1>3, <2>1, Sends
  <2>. QED
    BY <2>2, <2>3, <2>4
<1>4. CASE Confirm(p)
  <2>1. PICK e \in Services : ServiceOf(p, e)
    BY <1>4, OwnService DEF Confirm, At, HeldStages
  <2>2. e.volume = About(p) /\ e \in Service
    BY <1>4, <2>1, OwnVolume DEF Confirm, At, HeldStages
  <2>3. [e EXCEPT !.state = "mounted"].volume = About(p)
    BY <2>2 DEF Service
  <2>. QED
    BY <1>4, <2>1, <2>2, <2>3, Confirms
<1>5. CASE UmountAux(p)
  <2>1. PICK e \in Services : ServiceOf(p, e)
    BY <1>5, OwnService DEF UmountAux, At, UnmountStages
  <2>2. e.volume = About(p)
    BY <1>5, <2>1, OwnVolume DEF UmountAux, At, UnmountStages
  <2>. QED
    BY <1>5, <2>1, <2>2, Unlists
<1>. QED
  BY <1>1, <1>2, <1>3, <1>4, <1>5 DEF FuseSteps

\* What a step may remove: devices that no file system is on, and which of them.
Loses(p, d) ==
    /\ \A i \in DOMAIN fs : fs[i].device # d
    /\ \/ pc[p] = "undoLoop" /\ d = my[p].loop
       \/ pc[p] = "detach" /\ d = my[p].info.loop /\ d # None
       \/ pc[p] = "undoDevice" /\ my[p].built > 0 /\ d[1] = "dm" /\ d[2] = my[p].device[2]
       \/ /\ pc[p] = "remove" /\ my[p].info.virtual # None /\ my[p].info.virtual[1] = "dm"
          /\ d[1] = "dm" /\ d[2] = my[p].info.virtual[2]

\* What DismountNativeVolume may remove are devices of one slot, without file systems.
LEMMA RemovableFacts ==
    ASSUME Types, NEW x, NEW d \in Removable(x)
    PROVE  /\ d \in DOMAIN on /\ d[1] = "dm" /\ d[2] = x[2]
           /\ \A i \in DOMAIN fs : fs[i].device # d
<1>1. d \in Chain(x)
  BY DEF Removable
<1>2. d \in DOMAIN on /\ d[1] = "dm" /\ d[2] = x[2] /\ d[3] \in Nat
  BY <1>1 DEF Chain, Types, TableTypes, Devices
<1>3. \A i \in DOMAIN fs : fs[i].device # d
  BY <1>1, <1>2 DEF Removable
<1>. QED
  BY <1>2, <1>3

\* A device is left as it is, or it is one that the step may remove.
LEMMA DevicesOfStep ==
    ASSUME Types, NEW p \in Callers, Step(p), NEW d \in DOMAIN on
    PROVE  (d \in DOMAIN on' /\ on'[d] = on[d]) \/ Loses(p, d)
<1>1. CASE ~OnSteps(p)
  BY <1>1, TablesKept
<1>2. CASE Attach(p)
  BY <1>2, LoopIsDevice DEF Attach, With, Exists
<1>3. CASE CreateDevice(p) \/ CreateFails(p)
  BY <1>3 DEF CreateDevice, CreateFails, With, CanCreate, Exists
<1>4. CASE UndoDevice(p)
  BY <1>4, RemovableFacts DEF UndoDevice, Without, Loses, At
<1>5. CASE UndoLoop(p)
  BY <1>5 DEF UndoLoop, Without, Loses, At, Busy
<1>6. CASE RemoveDevices(p)
  BY <1>6, RemovableFacts DEF RemoveDevices, Without, Loses, At
<1>7. CASE DetachLoop(p)
  BY <1>7 DEF DetachLoop, Without, Loses, At, Busy
<1>. QED
  BY <1>1, <1>2, <1>3, <1>4, <1>5, <1>6, <1>7 DEF OnSteps

\* What a caller removes is a device of its own slot, or its own loop device.
LEMMA LostIsOwn ==
    ASSUME Owned, NEW p \in Callers, NEW d, Loses(p, d)
    PROVE  \E e \in Services :
              /\ ServiceOf(p, e) /\ e.volume = About(p)
              /\ \/ d[1] = "dm" /\ d[2] = e.slot
                 \/ pc[p] = "undoLoop" /\ d = my[p].loop
                 \/ pc[p] = "detach" /\ d = e.loop /\ e.loop # None
<1>1. pc[p] \in {"undoLoop", "detach", "undoDevice", "remove"}
  BY DEF Loses
<1>2. pc[p] \in HeldStages \cup UnmountStages
  BY <1>1 DEF HeldStages, UnmountStages
<1>3. PICK e \in Services : ServiceOf(p, e)
  BY <1>2, OwnService
<1>4. e.volume = About(p)
  BY <1>2, <1>3, OwnVolume
<1>5. CASE pc[p] = "undoLoop"
  BY <1>3, <1>4, <1>5 DEF Loses
<1>6. CASE pc[p] = "detach"
  BY <1>3, <1>4, <1>6 DEF Loses, ServiceOf, UnmountStages
<1>7. CASE pc[p] = "undoDevice"
  <2>1. d[1] = "dm" /\ d[2] = my[p].device[2] /\ my[p].built > 0
    BY <1>7 DEF Loses
  <2>2. PICK level \in Nat : my[p].device = Mapped(my[p].slot, level)
    BY <1>7, <2>1, OwnedFacts DEF Shape
  <2>3. e.slot = my[p].slot
    BY <1>3, <1>7 DEF ServiceOf, HeldStages
  <2>. QED
    BY <1>3, <1>4, <2>1, <2>2, <2>3 DEF Mapped
<1>8. CASE pc[p] = "remove"
  <2>1. d[1] = "dm" /\ d[2] = e.virtual[2] /\ e.virtual # None /\ e.virtual[1] = "dm"
    BY <1>3, <1>8 DEF Loses, ServiceOf, UnmountStages
  <2>2. e.virtual = Mapped(e.slot, 0)
    BY <2>1, OwnedFacts DEF Named, IsLoop, Loop
  <2>. QED
    BY <1>3, <1>4, <2>1, <2>2 DEF Mapped
<1>. QED
  BY <1>1, <1>5, <1>6, <1>7, <1>8

\* The umount command takes one file system, of the slot.
LEMMA UnmountedRange ==
    ASSUME Owned, NEW s, PointInUse(s)
    PROVE  \E k \in DOMAIN fs :
              /\ fs[k].slot = s /\ Unmounted(s) = Dropped(fs, k)
              /\ LET next == Unmounted(s) IN {next[i] : i \in DOMAIN next} = Mounts \ {fs[k]}
<1>1. PICK k \in DOMAIN fs : fs[k].slot = s
  BY DEF PointInUse
<1>2. \A i \in DOMAIN fs : fs[i].slot = s => i = k
  BY <1>1, OwnedFacts DEF Slotted
<1>3. DOMAIN fs \subseteq Nat
  BY OwnedFacts, EntryTypes
<1>4. (CHOOSE i \in DOMAIN fs : fs[i].slot = s /\ \A j \in DOMAIN fs : fs[j].slot = s => j <= i) = k
  <2>1. fs[k].slot = s /\ \A j \in DOMAIN fs : fs[j].slot = s => j <= k
    BY <1>1, <1>2, <1>3
  <2>. QED
    BY <1>1, <1>2, <2>1
<1>5. Unmounted(s) = Dropped(fs, k)
  BY <1>4 DEF Unmounted
<1>6. \A i \in DOMAIN fs : fs[i] = fs[k] => i = k
  BY <1>1, <1>2
<1>7. LET next == Dropped(fs,
      k) IN {next[i] : i \in DOMAIN next} = {fs[i] : i \in DOMAIN fs} \ {fs[k]}
  BY <1>6, OwnedFacts, DropRange
<1>. QED
  BY <1>1, <1>5, <1>7 DEF Mounts

\* The file systems after a step.
LEMMA MountsOfStep ==
    ASSUME Owned, NEW p \in Callers, Step(p)
    PROVE  /\ \A m \in Mounts' : m \in Mounts \/ (MountFilesystem(p) /\ m = Entered(p))
           /\ MountFilesystem(p) => Mounts' = Mounts \cup {Entered(p)}
           /\ \A m \in Mounts : \/ m \in Mounts'
                                \/ pc[p] = "undoFs" /\ m.slot = my[p].slot
                                \/ pc[p] = "umount" /\ my[p].info.point # None /\
                                   m.slot = my[p].info.point
           /\ \A i, j \in DOMAIN fs' : fs'[i].slot = fs'[j].slot => i = j
<1>0. \A i, j \in DOMAIN fs : fs[i].slot = fs[j].slot => i = j
  BY OwnedFacts DEF Slotted
<1>1. CASE ~FsSteps(p)
  <2>1. fs' = fs /\ Mounts' = Mounts
    BY <1>1, TablesKept DEF Mounts
  <2>. QED
    BY <1>0, <1>1, <2>1 DEF FsSteps
<1>2. CASE MountFilesystem(p)
  <2>1. fs' = Append(fs, Entered(p)) /\ pc[p] = "mountFs" /\ Entered(p).slot = my[p].slot
    BY <1>2 DEF MountFilesystem, Entered, At
  <2>2. Entered(p) \in Filesystem
    BY <1>2, OwnedFacts DEF MountFilesystem, At, Roles, Building, Types, ControlTypes, Local,
       Filesystem, Entered
  <2>3. {fs'[i] : i \in DOMAIN fs'} = {fs[i] : i \in DOMAIN fs} \cup {Entered(p)}
    BY <2>1, <2>2, OwnedFacts, AppendRange
  <2>4. Mounts' = Mounts \cup {Entered(p)}
    BY <2>3 DEF Mounts
  <2>5. \A i \in DOMAIN fs : fs[i].slot # my[p].slot
    BY <2>1, OwnedFacts DEF Slotted, FreeOfMounts, Mounts
  <2>6. /\ DOMAIN fs = 1 .. Len(fs) /\ Len(fs) \in Nat /\ DOMAIN fs' = 1 .. Len(fs) + 1
        /\ \A i \in DOMAIN fs : fs'[i] = fs[i]
        /\ fs'[Len(fs) + 1] = Entered(p)
    BY <2>1, <2>2, OwnedFacts
  <2>7. \A i \in DOMAIN fs' : i \in DOMAIN fs \/ i = Len(fs) + 1
    BY <2>6
  <2>8. \A i, j \in DOMAIN fs' : fs'[i].slot = fs'[j].slot => i = j
    BY <1>0, <2>1, <2>5, <2>6, <2>7
  <2>. QED
    BY <1>2, <2>4, <2>8
<1>3. ASSUME NEW s, PointInUse(s), fs' = Unmounted(s), 
             \/ pc[p] = "undoFs" /\ s = my[p].slot
             \/ pc[p] = "umount" /\ my[p].info.point # None /\ s = my[p].info.point
      PROVE  /\ Mounts' \subseteq Mounts
             /\ \A m \in Mounts : \/ m \in Mounts'
                                  \/ pc[p] = "undoFs" /\ m.slot = my[p].slot
                                  \/ pc[p] = "umount" /\ my[p].info.point # None /\
                                     m.slot = my[p].info.point
             /\ \A i, j \in DOMAIN fs' : fs'[i].slot = fs'[j].slot => i = j
  <2>1. PICK k \in DOMAIN fs :
              /\ fs[k].slot = s /\ Unmounted(s) = Dropped(fs, k)
              /\ LET next == Unmounted(s) IN {next[i] : i \in DOMAIN next} = Mounts \ {fs[k]}
    BY <1>3, UnmountedRange
  <2>2. Mounts' = Mounts \ {fs[k]} /\ fs' = Dropped(fs, k)
    BY <1>3, <2>1 DEF Mounts
  <2>. DEFINE After(j) == IF j < k THEN j ELSE j + 1
  <2>3. \A j \in DOMAIN fs' : After(j) \in DOMAIN fs /\ fs'[j] = fs[After(j)]
    BY <2>2, OwnedFacts, DropFacts
  <2>4. \A i, j \in DOMAIN fs' : After(i) = After(j) => i = j
    BY <2>2, OwnedFacts, DropFacts
  <2>. HIDE DEF After
  <2>5. \A i, j \in DOMAIN fs' : fs'[i].slot = fs'[j].slot => i = j
    BY <1>0, <2>3, <2>4
  <2>. QED
    BY <1>3, <2>1, <2>2, <2>5
<1>4. CASE UndoFilesystem(p) \/ UmountFilesystem(p)
  <2>0. ~MountFilesystem(p)
    BY <1>4 DEF UndoFilesystem, UmountFilesystem, MountFilesystem, At
  <2>1. CASE fs' = fs
    BY <1>0, <2>0, <2>1 DEF Mounts
  <2>2. CASE fs' # fs
    <3>1. \E s : /\ PointInUse(s) /\ fs' = Unmounted(s)
                 /\ \/ pc[p] = "undoFs" /\ s = my[p].slot
                    \/ pc[p] = "umount" /\ my[p].info.point # None /\ s = my[p].info.point
      BY <1>4, <2>2 DEF UndoFilesystem, UmountFilesystem, At
    <3>. QED
      BY <1>3, <2>0, <3>1
  <2>. QED
    BY <2>1, <2>2
<1>. QED
  BY <1>1, <1>2, <1>4 DEF FsSteps

\* A step of p as the other caller q sees it.
LEMMA OtherCaller ==
    ASSUME Owned, NEW p \in Callers, Step(p), NEW q \in Callers, q # p
    PROVE  /\ pc'[q] = pc[q] /\ arg'[q] = arg[q] /\ my'[q] = my[q]
           /\ About(q)' = About(q) /\ Mounting(q)' = Mounting(q)
           /\ pc[q] # "idle" => About(q) # About(p)
           /\ pc[q] \in MountStages =>
              ~Mounting(p) /\ pc[p] \notin MountStages /\ About(q) = arg[q].volume
<1>1. pc'[q] = pc[q] /\ arg'[q] = arg[q] /\ my'[q] = my[q]
  BY OwnedFacts, Turn
<1>2. pc[p] # "idle"
  BY OwnedFacts, AboutStays
<1>. QED
  BY <1>1, <1>2, OwnedFacts DEF About, Mounting, Apart, Roles, MountStages, EarlyStages, HeldStages

\* The service of a caller is only about to go when the caller says so.
LEMMA OwnNotGone ==
    ASSUME Owned, NEW p \in Callers, pc[p] \notin {"umountAux", "idle"}, NEW e, e.volume = About(p)
    PROVE  ~Gone(e)
<1>. SUFFICES ASSUME NEW r \in Callers, pc[r] = "umountAux",
                     my[r].info.volume = e.volume PROVE FALSE
  BY DEF Gone
<1>1. r # p /\ About(r) = About(p)
  BY OwnedFacts DEF Roles, UnmountStages
<1>. QED
  BY <1>1, OwnedFacts DEF Apart

\* A step does not change whether another volume's service is about to go.
LEMMA GoneSame ==
    ASSUME Calm, IInv', NEW p \in Callers, Step(p), NEW e, e.volume # About(p)
    PROVE  Gone(e)' <=> Gone(e)
<1>1. \A q \in Callers \ {p} : pc'[q] = pc[q] /\ my'[q] = my[q]
  BY CalmFacts, OtherCaller
<1>2. pc[p] = "umountAux" => my[p].info.volume # e.volume
  BY CalmFacts DEF Roles, UnmountStages
<1>3. pc'[p] = "umountAux" => my'[p].info.volume # e.volume
  BY CalmFacts, AboutStays DEF IInv, Roles, UnmountStages
<1>. QED
  BY <1>1, <1>2, <1>3 DEF Gone

\* Some steps are the only ones from where they start.
LEMMA WhichStep ==
    ASSUME NEW p \in Callers, Step(p)
    PROVE  /\ pc[p] = "umountAux" => UmountAux(p)
           /\ pc[p] = "detach" => DetachLoop(p)
           /\ pc[p] = "remove" => RemoveDevices(p)
           /\ pc[p] = "umount" => UmountFilesystem(p)
           /\ pc[p] = "undoLoop" => UndoLoop(p)
           /\ pc[p] = "undoDevice" => UndoDevice(p)
           /\ pc[p] = "undoFs" => UndoFilesystem(p)
           /\ pc[p] = "dropPoint" => DropPoint(p)
           /\ pc[p] = "recall" => Recall(p)
           /\ pc[p] = "confirm" => Confirm(p)
           /\ pc[p] = "send" => SendAuxDeviceInfo(p) \/ SendFails(p)
           /\ pc[p] = "test" => TestDevice(p)
           /\ pc[p] = "checkPoint" => CheckPoint(p)
           /\ pc[p] = "mountFs" => MountFilesystem(p) \/ MountFilesystemFails(p)
           /\ pc[p] = "create" => CreateDevice(p) \/ CreateFails(p)
           /\ pc[p] = "dropDir" => DropDirectory(p)
           /\ pc[p] = "fuse" => FuseServiceMount(p) \/ FuseServiceFails(p)
BY DEF Step, At, CoalesceSlotNumberAndMountPoint, CheckMounted, OpenFails, Scan, ClearDirectory,
   MakeDirectory, FuseServiceMount, FuseServiceFails, DropDirectory, MakePoint, Attach, AttachFails,
   CreateDevice, CreateFails, TestDevice, CheckPoint, MountFilesystem, MountFilesystemFails,
   SendAuxDeviceInfo, SendFails, Confirm, UndoFilesystem, UndoDevice, UndoLoop, DropPoint, Recall,
   UmountFilesystem, RemoveDevices, DetachLoop, UmountAux

\* A service that is live after a step was live before it.
LEMMA LiveBefore ==
    ASSUME Calm, ~half', NEW p \in Callers, Step(p), NEW e \in Services, e \in Services', Live(e)'
    PROVE  Live(e)
<1>. SUFFICES ASSUME NEW r \in Callers, pc[r] = "umountAux",
                     my[r].info.volume = e.volume PROVE FALSE
  BY DEF Live, Gone
<1>1. CASE r # p
  <2>1. pc'[r] = pc[r] /\ my'[r] = my[r]
    BY <1>1, CalmFacts, OtherCaller
  <2>. QED
    BY <2>1 DEF Live, Gone
<1>2. CASE r = p
  <2>1. UmountAux(p)
    BY <1>2, WhichStep
  <2>2. PICK f \in Services : ServiceOf(p, f)
    BY <1>2, CalmFacts, OwnService DEF UnmountStages
  <2>3. f = e
    BY <1>2, <2>2, OwnVolume, CalmFacts DEF Roles, UnmountStages
  <2>4. e.loop = None
    BY <2>1, <2>2, <2>3, CalmFacts, Unlists
  <2>. QED
    BY <2>4 DEF Live
<1>. QED
  BY <1>1, <1>2

\* A service that is new or changed is the caller's own.
LEMMA NewServices ==
    ASSUME Owned, NEW p \in Callers, Step(p), NEW f \in Services', f \notin Services
    PROVE  \/ FuseGains(p) /\ f = NewService(p)
           \/ /\ SendAuxDeviceInfo(p) /\ pc[p] = "send"
              /\ \E e \in Services : /\ ServiceOf(p, e) /\ e.volume = About(p) /\
                                        e.state = "new" /\ e \in Service
                                     /\ f = [e EXCEPT !.virtual = my[p].device, !.loop = my[p].loop]
           \/ /\ Confirm(p) /\ pc[p] = "confirm"
              /\ \E e \in Services : /\ ServiceOf(p, e) /\ e.volume = About(p) /\ e \in Service
                                     /\ f = [e EXCEPT !.state = "mounted"]
<1>1. CASE ~FuseSteps(p)
  BY <1>1, TablesKept DEF Services
<1>2. CASE FuseServiceMount(p) \/ FuseServiceFails(p)
  <2>1. fuse' = fuse \/ FuseGains(p)
    BY <1>2 DEF FuseServiceMount, FuseServiceFails, FuseGains, At
  <2>2. CASE fuse' = fuse
    BY <2>2 DEF Services
  <2>3. CASE FuseGains(p)
    BY <2>3, Adds
  <2>. QED
    BY <2>1, <2>2, <2>3
<1>3. CASE SendAuxDeviceInfo(p)
  <2>1. pc[p] = "send"
    BY <1>3 DEF SendAuxDeviceInfo, At
  <2>2. PICK e \in Services : ServiceOf(p, e)
    BY <2>1, OwnService DEF HeldStages
  <2>3. e.volume = About(p) /\ e.state = "new" /\ e \in Service
    BY <2>1, <2>2, OwnVolume DEF HeldStages, ServiceOf
  <2>4. Services' = (Services \ {e}) \cup {[e EXCEPT !.virtual = my[p].device, !.loop = my[p].loop]}
    BY <1>3, <2>2, Sends
  <2>. QED
    BY <1>3, <2>1, <2>2, <2>3, <2>4
<1>4. CASE Confirm(p)
  <2>1. pc[p] = "confirm"
    BY <1>4 DEF Confirm, At
  <2>2. PICK e \in Services : ServiceOf(p, e)
    BY <2>1, OwnService DEF HeldStages
  <2>3. e.volume = About(p) /\ e \in Service
    BY <2>1, <2>2, OwnVolume DEF HeldStages
  <2>4. Services' = (Services \ {e}) \cup {[e EXCEPT !.state = "mounted"]}
    BY <1>4, <2>2, Confirms
  <2>. QED
    BY <1>4, <2>1, <2>2, <2>3, <2>4
<1>5. CASE UmountAux(p)
  <2>1. PICK e \in Services : ServiceOf(p, e)
    BY <1>5, OwnService DEF UmountAux, At, UnmountStages
  <2>. QED
    BY <1>5, <2>1, Unlists
<1>. QED
  BY <1>1, <1>2, <1>3, <1>4, <1>5 DEF FuseSteps

\* Devices a step may not take: the loop device of a live service and the mapped
\* devices of its slot, unless it is the caller's own service.
LEMMA LoopSpared ==
    ASSUME Calm, NEW p \in Callers, NEW e \in Services, Live(e), e.volume # About(p)
    PROVE  ~Loses(p, e.loop)
<1>. SUFFICES ASSUME Loses(p, e.loop) PROVE FALSE
  OBVIOUS
<1>0. e.loop[1] = "loop"
  BY CalmFacts DEF Named, Live, IsLoop, Loop
<1>1. PICK f \in Services :
              /\ ServiceOf(p, f) /\ f.volume = About(p)
              /\ \/ e.loop[1] = "dm" /\ e.loop[2] = f.slot
                 \/ pc[p] = "undoLoop" /\ e.loop = my[p].loop
                 \/ pc[p] = "detach" /\ e.loop = f.loop /\ f.loop # None
  BY CalmFacts, LostIsOwn
<1>2. CASE pc[p] = "undoLoop" /\ e.loop = my[p].loop
  <2>1. e.volume = arg[p].volume /\ arg[p].volume = About(p)
    BY <1>2, CalmFacts DEF Held, Looped, Building, Roles, MountStages, HeldStages, About
  <2>. QED
    BY <2>1
<1>3. CASE pc[p] = "detach" /\ e.loop = f.loop /\ f.loop # None
  <2>1. Live(f)
    BY <1>1, <1>3, CalmFacts, OwnNotGone DEF Live
  <2>. QED
    BY <1>1, <1>3, <2>1, CalmFacts DEF Devised
<1>. QED
  BY <1>0, <1>1, <1>2, <1>3

\* A caller does not remove what is in the slot of another volume's service.
LEMMA MappedSpared ==
    ASSUME Owned, NEW p \in Callers, NEW e \in Services, e.volume # About(p), NEW level
    PROVE  ~Loses(p, Mapped(e.slot, level))
<1>. SUFFICES ASSUME Loses(p, Mapped(e.slot, level)) PROVE FALSE
  OBVIOUS
<1>. DEFINE d == Mapped(e.slot, level)
<1>1. PICK f \in Services :
              /\ ServiceOf(p, f) /\ f.volume = About(p)
              /\ \/ d[1] = "dm" /\ d[2] = f.slot
                 \/ pc[p] = "undoLoop" /\ d = my[p].loop
                 \/ pc[p] = "detach" /\ d = f.loop /\ f.loop # None
  BY OwnedFacts, LostIsOwn
<1>2. d[1] = "dm" /\ d[2] = e.slot
  BY DEF Mapped
<1>. HIDE DEF d
<1>3. f # e
  BY <1>1
<1>4. f.slot # e.slot
  BY <1>3, OwnedFacts, SameService
<1>5. ~(pc[p] = "undoLoop" /\ d = my[p].loop)
  BY <1>2, OwnedFacts DEF Shape, Looped, IsLoop, Loop
<1>6. ~(pc[p] = "detach" /\ d = f.loop /\ f.loop # None)
  BY <1>2, OwnedFacts DEF Named, IsLoop, Loop
<1>. QED
  BY <1>1, <1>2, <1>4, <1>5, <1>6

\* A caller does not unmount a file system in the slot of another volume's service.
LEMMA MountSpared ==
    ASSUME Calm, NEW p \in Callers, Step(p), NEW e \in Services, e.volume # About(p),
           NEW m \in Mounts, m.slot = e.slot
    PROVE  m \in Mounts'
<1>. SUFFICES ASSUME m \notin Mounts' PROVE FALSE
  OBVIOUS
<1>1. \/ pc[p] = "undoFs" /\ m.slot = my[p].slot
      \/ pc[p] = "umount" /\ my[p].info.point # None /\ m.slot = my[p].info.point
  BY CalmFacts, MountsOfStep
<1>2. pc[p] \in HeldStages \cup UnmountStages
  BY <1>1 DEF HeldStages, UnmountStages
<1>3. PICK f \in Services : ServiceOf(p, f)
  BY <1>2, CalmFacts, OwnService
<1>4. f.volume = About(p)
  BY <1>2, <1>3, CalmFacts, OwnVolume
<1>5. f.slot = e.slot
  BY <1>1, <1>3, CalmFacts DEF Pointed, ServiceOf, HeldStages, UnmountStages
<1>. QED
  BY <1>4, <1>5, CalmFacts, SameService

\* A service is known by its volume, slot or directory after a step too.
LEMMA SameServiceAfter ==
    ASSUME Listing', Dirs', NEW e \in Services', NEW f \in Services',
           e.volume = f.volume \/ e.slot = f.slot \/ e.dir = f.dir
    PROVE  e = f
<1>1. PICK i \in DOMAIN fuse' : e = fuse'[i]
  BY DEF Services
<1>2. PICK j \in DOMAIN fuse' : f = fuse'[j]
  BY DEF Services
<1>3. i = j
  BY <1>1, <1>2 DEF Listing, Dirs
<1>. QED
  BY <1>1, <1>2, <1>3

\* The cascade that a mount builds, in numbers; and what is there of it.
LEMMA ShapeFacts ==
    ASSUME Owned, NEW p \in Callers, pc[p] \in Building
    PROVE  /\ arg[p].layers \in Nat /\ my[p].built \in Nat /\ my[p].built <= arg[p].layers
           /\ pc[p] = "create" <=> my[p].built < arg[p].layers
           /\ my[p].built = 0 => my[p].device = my[p].loop
           /\ my[p].built # 0 => my[p].device = Mapped(my[p].slot, arg[p].layers - my[p].built)
           /\ pc[p] # "create" /\ my[p].built # 0 => my[p].device = Mapped(my[p].slot, 0)
<1>. DEFINE from == arg[p].layers - my[p].built
<1>1. arg[p].layers \in Nat /\ my[p].built \in Nat
  BY OwnedFacts DEF Types, ControlTypes, Request, Local
<1>2. /\ from >= 0
      /\ pc[p] = "create" <=> from > 0
      /\ my[p].device = IF my[p].built = 0 THEN my[p].loop ELSE Mapped(my[p].slot, from)
  BY OwnedFacts DEF Shape
<1>3. my[p].built <= arg[p].layers /\ (pc[p] = "create" <=> my[p].built < arg[p].layers)
  BY <1>1, <1>2
<1>4. pc[p] # "create" => from = 0
  BY <1>1, <1>2
<1>. QED
  BY <1>1, <1>2, <1>3, <1>4

\* The same with what there is of the cascade, while no unmount has failed halfway.
LEMMA BuiltFacts ==
    ASSUME Calm, NEW p \in Callers, pc[p] \in Building
    PROVE  /\ arg[p].layers \in Nat /\ my[p].built \in Nat /\ my[p].built <= arg[p].layers
           /\ pc[p] = "create" <=> my[p].built < arg[p].layers
           /\ my[p].built = 0 => my[p].device = my[p].loop
           /\ my[p].built # 0 => my[p].device = Mapped(my[p].slot, arg[p].layers - my[p].built)
           /\ pc[p] # "create" /\ my[p].built # 0 => my[p].device = Mapped(my[p].slot, 0)
           /\ Stack(my[p].slot, arg[p].layers - my[p].built, arg[p].layers, my[p].loop)
           /\ on[my[p].loop] = IF Native(p) THEN File(arg[p].volume) ELSE Image(my[p].dir)
<1>1. Owned /\ BuiltAt(p)
  BY CalmFacts DEF Built
<1>. QED
  BY <1>1, ShapeFacts DEF BuiltAt

-----------------------------------------------------------------------------
(* The second invariant *)

\* Steps of a mount from the loop device to the last that can fail.
BuildSteps(p) ==
    \/ Attach(p) \/ CreateDevice(p) \/ CreateFails(p) \/ TestDevice(p) \/ CheckPoint(p)
    \/ MountFilesystem(p) \/ MountFilesystemFails(p) \/ SendAuxDeviceInfo(p) \/ SendFails(p)
    \/ UndoFilesystem(p)

\* The other steps do not lead to where a cascade is being built or undone.
LEMMA OnlyBuildSteps ==
    ASSUME Owned, NEW p \in Callers, Step(p), ~BuildSteps(p)
    PROVE  pc'[p] \notin Building \cup {"undoFs", "undoDevice"}
<1>. my \in [Callers -> Local] /\ pc \in [Callers -> Stages]
  BY OwnedFacts DEF Types, ControlTypes
<1>. USE DEF Goto, Set, Inside, Return, End, At, Building, BuildSteps
<1>1. CASE CoalesceSlotNumberAndMountPoint(p) \/ CheckMounted(p) \/ OpenFails(p) \/ Scan(p) \/
           ClearDirectory(p) \/ MakeDirectory(p) \/ FuseServiceMount(p) \/ FuseServiceFails(p)
  BY <1>1 DEF CoalesceSlotNumberAndMountPoint, CheckMounted, OpenFails, Scan, ClearDirectory,
     MakeDirectory, FuseServiceMount, FuseServiceFails, TryNextDir
<1>2. CASE DropDirectory(p) \/ MakePoint(p) \/ Attach(p) \/ AttachFails(p) \/ CreateDevice(p) \/
           CreateFails(p) \/ TestDevice(p)
  BY <1>2 DEF DropDirectory, MakePoint, Attach, AttachFails, CreateDevice, CreateFails, TestDevice,
     TryNextDir
<1>3. CASE CheckPoint(p) \/ MountFilesystem(p) \/ MountFilesystemFails(p) \/
           SendAuxDeviceInfo(p) \/ SendFails(p) \/ Confirm(p) \/ UndoFilesystem(p) \/ UndoDevice(p)
  BY <1>3 DEF CheckPoint, MountFilesystem, MountFilesystemFails, SendAuxDeviceInfo, SendFails,
     Confirm, UndoFilesystem, UndoDevice, TryNextDir
<1>4. CASE UndoLoop(p) \/ DropPoint(p) \/ Recall(p) \/ UmountFilesystem(p) \/ RemoveDevices(p) \/
           DetachLoop(p) \/ UmountAux(p)
  BY <1>4 DEF UndoLoop, DropPoint, Recall, UmountFilesystem, RemoveDevices, DetachLoop, UmountAux,
     TryNextDir
<1>. QED
  BY <1>1, <1>2, <1>3, <1>4 DEF Step

\* A mount keeps its loop device until it is undone.
LEMMA LoopKept ==
    ASSUME Owned, NEW p \in Callers, Step(p), pc'[p] \in Looped, ~Attach(p)
    PROVE  /\ pc[p] \in Looped \ {"undoLoop"}
           /\ my'[p].loop = my[p].loop /\ my'[p].slot = my[p].slot /\ arg' = arg
           /\ my'[p].dir = my[p].dir
<1>. my \in [Callers -> Local] /\ my[p] \in Local /\ pc \in [Callers -> Stages]
  BY OwnedFacts DEF Types, ControlTypes
<1>. USE DEF Goto, Set, Inside, Return, End, At, Local, Looped, Building
<1>1. CASE CoalesceSlotNumberAndMountPoint(p)
  BY <1>1 DEF CoalesceSlotNumberAndMountPoint, TryNextDir, MountFails
<1>2. CASE CheckMounted(p)
  BY <1>2 DEF CheckMounted, TryNextDir, MountFails
<1>3. CASE OpenFails(p)
  BY <1>3 DEF OpenFails, TryNextDir, MountFails
<1>4. CASE Scan(p)
  BY <1>4 DEF Scan, TryNextDir, MountFails
<1>5. CASE ClearDirectory(p)
  BY <1>5 DEF ClearDirectory, TryNextDir, MountFails
<1>6. CASE MakeDirectory(p)
  BY <1>6 DEF MakeDirectory, TryNextDir, MountFails
<1>7. CASE FuseServiceMount(p)
  BY <1>7 DEF FuseServiceMount, TryNextDir, MountFails
<1>8. CASE FuseServiceFails(p)
  BY <1>8 DEF FuseServiceFails, TryNextDir, MountFails
<1>9. CASE DropDirectory(p)
  BY <1>9 DEF DropDirectory, TryNextDir, MountFails
<1>10. CASE MakePoint(p)
  BY <1>10 DEF MakePoint, TryNextDir, MountFails
<1>11. CASE Attach(p)
  BY <1>11 DEF Attach, TryNextDir, MountFails
<1>12. CASE AttachFails(p)
  BY <1>12 DEF AttachFails, TryNextDir, MountFails
<1>13. CASE CreateDevice(p)
  BY <1>13 DEF CreateDevice, TryNextDir, MountFails
<1>14. CASE CreateFails(p)
  BY <1>14 DEF CreateFails, TryNextDir, MountFails
<1>15. CASE TestDevice(p)
  BY <1>15 DEF TestDevice, TryNextDir, MountFails
<1>16. CASE CheckPoint(p)
  BY <1>16 DEF CheckPoint, TryNextDir, MountFails
<1>17. CASE MountFilesystem(p)
  BY <1>17 DEF MountFilesystem, TryNextDir, MountFails
<1>18. CASE MountFilesystemFails(p)
  BY <1>18 DEF MountFilesystemFails, TryNextDir, MountFails
<1>19. CASE SendAuxDeviceInfo(p)
  BY <1>19 DEF SendAuxDeviceInfo, TryNextDir, MountFails
<1>20. CASE SendFails(p)
  BY <1>20 DEF SendFails, TryNextDir, MountFails
<1>21. CASE Confirm(p)
  BY <1>21 DEF Confirm, TryNextDir, MountFails
<1>22. CASE UndoFilesystem(p)
  BY <1>22 DEF UndoFilesystem, TryNextDir, MountFails
<1>23. CASE UndoDevice(p)
  BY <1>23 DEF UndoDevice, TryNextDir, MountFails
<1>24. CASE UndoLoop(p)
  BY <1>24 DEF UndoLoop, TryNextDir, MountFails
<1>25. CASE DropPoint(p)
  BY <1>25 DEF DropPoint, TryNextDir, MountFails
<1>26. CASE Recall(p)
  BY <1>26 DEF Recall, TryNextDir, MountFails
<1>27. CASE UmountFilesystem(p)
  BY <1>27 DEF UmountFilesystem, TryNextDir, MountFails
<1>28. CASE RemoveDevices(p)
  BY <1>28 DEF RemoveDevices, TryNextDir, MountFails
<1>29. CASE DetachLoop(p)
  BY <1>29 DEF DetachLoop, TryNextDir, MountFails
<1>30. CASE UmountAux(p)
  BY <1>30 DEF UmountAux, TryNextDir, MountFails
<1>. QED
  BY <1>1, <1>2, <1>3, <1>4, <1>5, <1>6, <1>7, <1>8, <1>9, <1>10, <1>11, <1>12, <1>13, <1>14,
     <1>15, <1>16, <1>17, <1>18, <1>19, <1>20, <1>21, <1>22, <1>23, <1>24, <1>25, <1>26, <1>27,
          <1>28, <1>29, <1>30 DEF Step

\* A step of a call that no call at odds overlaps.
OwnedStep(p) == Owned /\ Step(p) /\ IInv' /\ Dirs' /\ ~overlapped'

\* The service of a caller stays its own.
LEMMA HasServiceOfStep ==
    ASSUME NEW p \in Callers, OwnedStep(p)
    PROVE  HasService'
<1>. Owned /\ Step(p)
  BY DEF OwnedStep
<1>. pc \in [Callers -> Stages] /\ arg \in [Callers -> Request] /\ my \in [Callers -> Local] /\
     my[p] \in Local
  BY OwnedFacts DEF Types, ControlTypes
<1>1. ASSUME NEW q \in Callers, q # p, pc'[q] \in HeldStages \cup UnmountStages
      PROVE  \E e \in Services' : ServiceOf(q, e)'
  <2>1. pc'[q] = pc[q] /\ arg'[q] = arg[q] /\ my'[q] = my[q]
    BY <1>1, OwnedFacts, OtherCaller
  <2>2. PICK e \in Services : ServiceOf(q, e)
    BY <1>1, <2>1, OwnedFacts, OwnService
  <2>3. e.volume = About(q)
    BY <1>1, <2>1, <2>2, OwnedFacts, OwnVolume
  <2>4. About(q) # About(p)
    BY <1>1, <2>1, OwnedFacts, OtherCaller DEF HeldStages, UnmountStages
  <2>5. e \in Services'
    BY <2>2, <2>3, <2>4, OwnedFacts, OthersServices
  <2>. QED
    BY <2>1, <2>2, <2>5 DEF ServiceOf, Sent, NotSent, Native, Mounting
<1>2. ASSUME pc'[p] \in HeldStages \cup UnmountStages
      PROVE  \E e \in Services' : ServiceOf(p, e)'
  <2>. USE DEF Goto, Set, Inside, At, Return, End
  <2>1. CASE FuseServiceMount(p)
    <3>1. NewService(p) \in Services'
      BY <2>1, OwnedFacts, Adds DEF FuseGains, FuseServiceMount
    <3>2. arg' = arg /\ my' = my /\ pc'[p] \in {"point", "attach"}
      BY <2>1 DEF FuseServiceMount
    <3>3. PICK new \in Services' : new = NewService(p)
      BY <3>1
    <3>4. ServiceOf(p, new)'
      BY <3>2, <3>3 DEF ServiceOf, NewService, Sent, NotSent, HeldStages, UnmountStages
    <3>. QED
      BY <3>4
  \* Steps that keep the service as it is.
  <2>a. ASSUME fuse' = fuse, arg' = arg, my'[p].slot = my[p].slot, my'[p].dir = my[p].dir,
               pc[p] \in HeldStages, pc'[p] \in HeldStages,
               Sent(p)' => Sent(p) /\ my'[p].device = my[p].device /\ my'[p].loop = my[p].loop,
               NotSent(p)' => NotSent(p)
        PROVE  \E e \in Services' : ServiceOf(p, e)'
    <3>1. PICK e \in Services : ServiceOf(p, e)
      BY <2>a, OwnedFacts, OwnService
    <3>2. Services' = Services
      BY <2>a DEF Services
    <3>3. ServiceOf(p, e)'
      BY <2>a, <3>1, <3>2 DEF ServiceOf, HeldStages, UnmountStages
    <3>. QED
      BY <3>1, <3>2, <3>3
  <2>2. CASE MakePoint(p)
    <3>1. /\ fuse' = fuse /\ arg' = arg /\ my'[p].slot = my[p].slot /\ my'[p].dir = my[p].dir
          /\ pc[p] = "point" /\ pc'[p] \in {"attach", "recall"}
      BY <2>2 DEF MakePoint, Local
    <3>. QED
      BY <3>1, <2>a DEF HeldStages, Sent, NotSent
  <2>3. CASE Attach(p)
    <3>1. /\ fuse' = fuse /\ arg' = arg /\ my'[p].slot = my[p].slot /\ my'[p].dir = my[p].dir
          /\ pc[p] = "attach" /\ pc'[p] \in {"create", "send"}
      BY <2>3 DEF Attach, Local
    <3>. QED
      BY <3>1, <2>a DEF HeldStages, Sent, NotSent
  <2>4. CASE CreateDevice(p) \/ CreateFails(p)
    <3>1. /\ fuse' = fuse /\ arg' = arg /\ my'[p].slot = my[p].slot /\ my'[p].dir = my[p].dir
          /\ pc[p] = "create" /\ pc'[p] \in {"create", "test", "undoDevice"}
      BY <2>4 DEF CreateDevice, CreateFails, Local
    <3>. QED
      BY <3>1, <2>a DEF HeldStages, Sent, NotSent
  <2>5. CASE TestDevice(p)
    <3>1. /\ fuse' = fuse /\ arg' = arg /\ my' = my
          /\ pc[p] = "test" /\ pc'[p] \in {"checkPoint", "send", "undoDevice"}
      BY <2>5 DEF TestDevice, system
    <3>2. Native(p)' /\ Native(p)
      BY <3>1, OwnedFacts DEF Shape, Native
    <3>. QED
      BY <3>1, <3>2, <2>a DEF HeldStages, Sent, NotSent
  <2>6. CASE CheckPoint(p) \/ MountFilesystem(p) \/ MountFilesystemFails(p)
    <3>1. /\ fuse' = fuse /\ arg' = arg /\ my'[p].slot = my[p].slot /\ my'[p].dir = my[p].dir
          /\ my'[p].device = my[p].device /\ my'[p].loop = my[p].loop
      BY <2>6 DEF CheckPoint, MountFilesystem, MountFilesystemFails, MountFails, Local, system
    <3>2. /\ pc[p] \in {"checkPoint", "mountFs"}
          /\ pc'[p] \in IF Native(p) THEN {"mountFs", "undoDevice", "send"}
                                     ELSE {"mountFs", "dropPoint", "confirm"}
      BY <2>6 DEF CheckPoint, MountFilesystem, MountFilesystemFails, MountFails
    <3>3. Native(p)' = Native(p)
      BY <3>1 DEF Native
    <3>. QED
      BY <3>1, <3>2, <3>3, <2>a DEF HeldStages, Sent, NotSent
  <2>7. CASE AttachFails(p) \/ SendFails(p) \/ UndoFilesystem(p) \/ UndoDevice(p) \/ UndoLoop(p) \/
             DropPoint(p)
    <3>1. /\ fuse' = fuse /\ arg' = arg /\ my' = my
          /\ pc[p] \in {"attach", "send", "undoFs", "undoDevice", "undoLoop", "dropPoint"}
          /\ pc'[p] \in {"undoFs", "undoDevice", "undoLoop", "dropPoint", "recall"}
          /\ pc[p] = "dropPoint" => pc'[p] = "recall"
      BY <2>7 DEF AttachFails, SendFails, UndoFilesystem, UndoDevice, UndoLoop, DropPoint, system
    <3>. QED
      BY <3>1, <2>a DEF HeldStages, Sent, NotSent
  <2>8. CASE SendAuxDeviceInfo(p)
    <3>1. /\ pc[p] = "send" /\ arg' = arg /\ my' = my
          /\ pc'[p] = IF ~Native(p) /\ arg[p].files THEN "checkPoint" ELSE "confirm"
      BY <2>8 DEF SendAuxDeviceInfo
    <3>2. PICK e \in Services : ServiceOf(p, e) /\ e \in Service
      BY <3>1, OwnedFacts, OwnService, OwnVolume DEF HeldStages
    <3>3. PICK new \in Services' : new = [e EXCEPT !.virtual = my[p].device, !.loop = my[p].loop]
      <4>1. Services' = (Services \ {e}) \cup {[e EXCEPT !.virtual = my[p].device,
            !.loop = my[p].loop]}
        BY <2>8, <3>2, OwnedFacts, Sends
      <4>. QED
        BY <4>1
    <3>4. /\ new.volume = e.volume /\ new.slot = e.slot /\ new.dir = e.dir /\ new.files = e.files
          /\ new.state = e.state /\ new.virtual = my[p].device /\ new.loop = my[p].loop
      BY <3>2, <3>3 DEF Service
    <3>5. Sent(p)' /\ ~NotSent(p)'
      BY <3>1 DEF Sent, NotSent, Native
    <3>6. ServiceOf(p, new)'
      BY <3>1, <3>2, <3>3, <3>4, <3>5 DEF ServiceOf, HeldStages, UnmountStages
    <3>. QED
      BY <3>3, <3>6
  <2>9. CASE Recall(p)
    <3>1. pc[p] = "recall" /\ arg' = arg /\ Services' = Services /\ pc'[p] = "umount"
      BY <1>2, <2>9 DEF Recall, system, HeldStages, UnmountStages, Services
    <3>2. PICK i \in First(Listed(arg[p].volume)) : my'[p] = [my[p] EXCEPT !.info = Info(fuse[i])]
      BY <2>9, <3>1 DEF Recall
    <3>3. i \in DOMAIN fuse /\ fuse[i].volume = arg[p].volume /\ fuse[i] \in Services
      BY <3>2, OwnedFacts DEF First, Listed
    <3>4. Mounting(p) /\ About(p) = arg[p].volume
      BY <3>1, OwnedFacts DEF Roles, MountStages, HeldStages, About
    <3>5. PICK e \in Services : ServiceOf(p, e)
      BY <3>1, OwnedFacts, OwnService DEF HeldStages
    <3>6. fuse[i] = e
      BY <3>1, <3>3, <3>4, <3>5, OwnedFacts, OwnVolume DEF HeldStages
    <3>7. e.state = "new"
      BY <3>1, <3>5 DEF ServiceOf, HeldStages
    <3>9. my'[p].info = Info(e)
      BY <3>2, <3>6 DEF Local
    <3>10. Mounting(p)'
      BY <3>1, <3>4 DEF Mounting
    <3>11. ServiceOf(p, e)'
      BY <3>1, <3>5, <3>7, <3>9, <3>10 DEF ServiceOf, HeldStages, UnmountStages, Info
    <3>. QED
      BY <3>1, <3>5, <3>11
  <2>10. CASE UmountFilesystem(p) \/ RemoveDevices(p) \/ DetachLoop(p)
    <3>1. /\ fuse' = fuse /\ pc[p] \in UnmountStages
          /\ pc'[p] \in UnmountStages => arg' = arg /\ my' = my
          /\ pc'[p] \in UnmountStages \cup {"idle"}
      BY <2>10 DEF UmountFilesystem, RemoveDevices, DetachLoop, UnmountStages
    <3>2. arg' = arg /\ my' = my /\ pc'[p] \in UnmountStages
      BY <1>2, <3>1 DEF HeldStages, UnmountStages
    <3>3. PICK e \in Services : ServiceOf(p, e)
      BY <3>1, OwnedFacts, OwnService
    <3>4. Services' = Services /\ Mounting(p)' = Mounting(p)
      BY <3>1, <3>2 DEF Services, Mounting
    <3>5. ServiceOf(p, e)'
      BY <3>1, <3>2, <3>3, <3>4 DEF ServiceOf, HeldStages, UnmountStages
    <3>. QED
      BY <3>3, <3>4, <3>5
  <2>11. CASE UmountAux(p) \/ Confirm(p) \/ DropDirectory(p)
    BY <1>2, <2>11 DEF UmountAux, Confirm, DropDirectory, HeldStages, UnmountStages
  <2>12. CASE FuseServiceFails(p) \/ CoalesceSlotNumberAndMountPoint(p) \/ CheckMounted(p) \/
              OpenFails(p)
    BY <1>2, <2>12 DEF FuseServiceFails, CoalesceSlotNumberAndMountPoint, CheckMounted, OpenFails,
       HeldStages, UnmountStages
  <2>13. CASE Scan(p) \/ ClearDirectory(p) \/ MakeDirectory(p)
    BY <1>2, <2>13 DEF Scan, ClearDirectory, MakeDirectory, TryNextDir, HeldStages, UnmountStages
  <2>. QED
    BY <2>1, <2>2, <2>3, <2>4, <2>5, <2>6, <2>7, <2>8, <2>9, <2>10, <2>11, <2>12, <2>13 DEF Step
<1>. QED
  BY <1>1, <1>2 DEF HasService

\* What has been left is never forgotten.
LEMMA LeakedGrows ==
    ASSUME NEW p \in Callers, Step(p)
    PROVE  leaked \subseteq leaked'
<1>1. CASE CoalesceSlotNumberAndMountPoint(p) \/ CheckMounted(p) \/ OpenFails(p) \/ Scan(p) \/
           ClearDirectory(p) \/ MakeDirectory(p) \/ FuseServiceMount(p) \/ FuseServiceFails(p)
  BY <1>1 DEF CoalesceSlotNumberAndMountPoint, CheckMounted, OpenFails, Scan, ClearDirectory,
     MakeDirectory, FuseServiceMount, FuseServiceFails, Leak, NoLeak
<1>2. CASE DropDirectory(p) \/ MakePoint(p) \/ Attach(p) \/ AttachFails(p) \/ CreateDevice(p) \/
           CreateFails(p) \/ TestDevice(p)
  BY <1>2 DEF DropDirectory, MakePoint, Attach, AttachFails, CreateDevice, CreateFails, TestDevice
<1>3. CASE CheckPoint(p) \/ MountFilesystem(p) \/ MountFilesystemFails(p) \/
           SendAuxDeviceInfo(p) \/ SendFails(p) \/ Confirm(p) \/ UndoFilesystem(p) \/ UndoDevice(p)
  BY <1>3 DEF CheckPoint, MountFilesystem, MountFilesystemFails, SendAuxDeviceInfo, SendFails,
     Confirm, UndoFilesystem, UndoDevice, Leak, NoLeak
<1>4. CASE UndoLoop(p) \/ DropPoint(p) \/ Recall(p) \/ UmountFilesystem(p) \/ RemoveDevices(p) \/
           DetachLoop(p) \/ UmountAux(p)
  BY <1>4 DEF UndoLoop, DropPoint, Recall, UmountFilesystem, RemoveDevices, DetachLoop, UmountAux,
     Leak, NoLeak
<1>. QED
  BY <1>1, <1>2, <1>3, <1>4 DEF Step

\* Callers keep calling their devices by the names they have.
LEMMA ShapeOfStep ==
    ASSUME NEW p \in Callers, OwnedStep(p)
    PROVE  Shape'
<1>. Owned /\ Step(p)
  BY DEF OwnedStep
<1>. pc \in [Callers -> Stages] /\ arg \in [Callers -> Request] /\ my \in [Callers -> Local] /\
     my[p] \in Local /\ arg[p] \in Request
  BY OwnedFacts DEF Types, ControlTypes
<1>. DEFINE Well(at, request, l) ==
              LET from == request.layers - l.built
              IN /\ at \in Looped => IsLoop(l.loop)
                 /\ at \in {"create", "test", "undoFs", "undoDevice"} => request.layers > 0
                 /\ at \in Building =>
                       /\ from >= 0
                       /\ at = "create" <=> from > 0
                       /\ l.device = IF l.built = 0 THEN l.loop ELSE Mapped(l.slot, from)
                 /\ at \in {"undoFs", "undoDevice"} /\ l.built > 0 =>
                       \E level \in Nat : l.device = Mapped(l.slot, level)
<1>0. \A q \in Callers : Well(pc[q], arg[q], my[q])
  BY OwnedFacts DEF Shape, Native
<1>1. ASSUME NEW q \in Callers, q # p PROVE Well(pc'[q], arg'[q], my'[q])
  <2>1. pc'[q] = pc[q] /\ arg'[q] = arg[q] /\ my'[q] = my[q]
    BY <1>1, OtherCaller
  <2>. QED
    BY <1>0, <2>1
<1>. USE DEF Goto, Set, Inside, At, Building, Looped
\* Steps that keep what has been built.
<1>a. ASSUME arg' = arg, my'[p].built = my[p].built, my'[p].device = my[p].device,
             my'[p].loop = my[p].loop, my'[p].slot = my[p].slot,
             pc[p] \in Building \ {"create"}, pc'[p] \notin {"create", "test", "undoLoop"},
             pc'[p] \in {"undoFs", "undoDevice"} => Native(p)
      PROVE  Well(pc'[p], arg'[p], my'[p])
  <2>1. /\ my[p].built # 0 => my[p].device = Mapped(my[p].slot, 0)
        /\ my[p].built \in Nat
    BY <1>a, ShapeFacts
  <2>. QED
    BY <1>0, <1>a, <2>1 DEF Native
<1>3. ASSUME ~BuildSteps(p) PROVE Well(pc'[p], arg'[p], my'[p])
  <2>1. pc'[p] \notin Building \cup {"undoFs", "undoDevice"} /\ ~Attach(p)
    BY <1>3, OnlyBuildSteps DEF BuildSteps
  <2>2. pc'[p] \in Looped => IsLoop(my'[p].loop)
    BY <1>0, <2>1, LoopKept
  <2>. QED
    BY <2>1, <2>2
<1>4. ASSUME Attach(p) PROVE Well(pc'[p], arg'[p], my'[p])
  <2>1. PICK n \in FreeLoops : Set(p, [my[p] EXCEPT !.loop = Loop(n), !.device = Loop(n)])
    BY <1>4 DEF Attach
  <2>2. /\ my'[p].loop = Loop(n) /\ my'[p].device = Loop(n) /\ my'[p].built = my[p].built
        /\ my'[p].slot = my[p].slot /\ arg' = arg
        /\ pc'[p] = IF Native(p) THEN "create" ELSE "send"
    BY <1>4, <2>1 DEF Local, Attach
  <2>3. my[p].built = 0 /\ arg[p].layers \in Nat /\ IsLoop(Loop(n))
    BY <1>4, LoopIsDevice, OwnedFacts DEF Attach, Roles, Request, IsLoop
  <2>. QED
    BY <2>2, <2>3 DEF Native
<1>5. ASSUME CreateDevice(p) \/ CreateFails(p) PROVE Well(pc'[p], arg'[p], my'[p])
  <2>1. /\ arg[p].layers \in Nat /\ my[p].built \in Nat /\ my[p].built < arg[p].layers
    BY <1>5, ShapeFacts DEF CreateDevice, CreateFails
  <2>2. /\ my'[p].device = NewDevice(p) /\ my'[p].slot = my[p].slot /\ my'[p].loop = my[p].loop
        /\ arg' = arg
    BY <1>5 DEF CreateDevice, CreateFails, Local
  <2>3. NewDevice(p) = Mapped(my[p].slot, arg[p].layers - (my[p].built + 1))
        /\ arg[p].layers - (my[p].built + 1) \in Nat
    <3>1. arg[p].layers - 1 - my[p].built = arg[p].layers - (my[p].built + 1)
      BY <2>1
    <3>. QED
      BY <2>1, <3>1 DEF NewDevice
  <2>4. arg'[p].layers > 0 /\ IsLoop(my'[p].loop)
    BY <1>0, <1>5, <2>2 DEF CreateDevice, CreateFails
  <2>5. CASE CreateDevice(p)
    <3>1. /\ my'[p].built = my[p].built + 1
          /\ pc'[p] = IF my[p].built + 1 < arg[p].layers THEN "create" ELSE "test"
      BY <2>5 DEF CreateDevice, Local
    <3>. QED
      BY <2>1, <2>2, <2>3, <2>4, <3>1
  <2>6. CASE CreateFails(p)
    <3>1. pc'[p] = "undoDevice"
      BY <2>6 DEF CreateFails
    <3>. QED
      BY <2>2, <2>3, <2>4, <3>1
  <2>. QED
    BY <1>5, <2>5, <2>6
<1>6. ASSUME TestDevice(p) PROVE Well(pc'[p], arg'[p], my'[p])
  BY <1>0, <1>6, <1>a DEF TestDevice, Native, system
<1>7. ASSUME CheckPoint(p) PROVE Well(pc'[p], arg'[p], my'[p])
  BY <1>7, <1>a DEF CheckPoint, MountFails, system
<1>8. ASSUME MountFilesystem(p) PROVE Well(pc'[p], arg'[p], my'[p])
  <2>1. /\ my'[p].built = my[p].built /\ my'[p].device = my[p].device
        /\ my'[p].loop = my[p].loop /\ my'[p].slot = my[p].slot
    BY <1>8 DEF MountFilesystem, Local
  <2>. QED
    BY <1>8, <1>a, <2>1 DEF MountFilesystem
<1>9. ASSUME MountFilesystemFails(p) PROVE Well(pc'[p], arg'[p], my'[p])
  BY <1>9, <1>a DEF MountFilesystemFails, MountFails, system
<1>10. ASSUME SendAuxDeviceInfo(p) PROVE Well(pc'[p], arg'[p], my'[p])
  BY <1>10, <1>a DEF SendAuxDeviceInfo
<1>11. ASSUME SendFails(p) PROVE Well(pc'[p], arg'[p], my'[p])
  <2>1. my' = my /\ arg' = arg /\ pc[p] = "send" /\ pc'[p] = IF Native(p) THEN "undoFs" ELSE "undoLoop"
    BY <1>11 DEF SendFails, system
  <2>2. CASE Native(p)
    BY <1>a, <2>1, <2>2
  <2>3. CASE ~Native(p)
    BY <1>0, <2>1, <2>3 DEF Native
  <2>. QED
    BY <2>2, <2>3
<1>12. ASSUME UndoFilesystem(p) PROVE Well(pc'[p], arg'[p], my'[p])
  BY <1>0, <1>12 DEF UndoFilesystem
<1>13. Well(pc'[p], arg'[p], my'[p])
  BY <1>3, <1>4, <1>5, <1>6, <1>7, <1>8, <1>9, <1>10, <1>11, <1>12 DEF BuildSteps
<1>14. \A q \in Callers : Well(pc'[q], arg'[q], my'[q])
  BY <1>1, <1>13
<1>. QED
  <2>1. ASSUME NEW q \in Callers
        PROVE  LET from == arg'[q].layers - my'[q].built
               IN /\ pc'[q] \in Looped => IsLoop(my'[q].loop)
                  /\ pc'[q] \in {"create", "test", "undoFs", "undoDevice"} => arg'[q].layers > 0
                  /\ pc'[q] \in Building =>
                        /\ from >= 0
                        /\ pc'[q] = "create" <=> from > 0
                        /\ my'[q].device = IF my'[q].built = 0 THEN my'[q].loop
                                                                ELSE Mapped(my'[q].slot, from)
                  /\ pc'[q] \in {"undoFs", "undoDevice"} /\ my'[q].built > 0 =>
                        \E level \in Nat : my'[q].device = Mapped(my'[q].slot, level)
    BY <1>14
  <2>. QED
    BY <2>1 DEF Shape, Native, IsLoop, Loop, Mapped

\* A service is told the names of its devices, once.
LEMMA NamedOfStep ==
    ASSUME NEW p \in Callers, OwnedStep(p)
    PROVE  Named'
<1>. Owned /\ Step(p)
  BY DEF OwnedStep
<1>. DEFINE Fine(e) == /\ e.loop = None => e.virtual = None
                       /\ e.loop # None => IsLoop(e.loop) /\ e.virtual \in {e.loop, Mapped(e.slot, 0)}
<1>0. \A e \in Services : Fine(e)
  BY OwnedFacts DEF Named
<1>1. ASSUME NEW f \in Services' PROVE Fine(f)
  <2>1. CASE f \in Services
    BY <1>0, <2>1
  <2>2. CASE FuseGains(p) /\ f = NewService(p)
    BY <2>2 DEF NewService
  <2>3. ASSUME pc[p] = "send", NEW e \in Services, ServiceOf(p, e), e \in Service,
               f = [e EXCEPT !.virtual = my[p].device, !.loop = my[p].loop]
        PROVE  Fine(f)
    <3>1. f.virtual = my[p].device /\ f.loop = my[p].loop /\ f.slot = e.slot /\ e.slot = my[p].slot
      BY <2>3 DEF Service, ServiceOf, HeldStages
    <3>2. IsLoop(my[p].loop) /\ my[p].device \in {my[p].loop, Mapped(my[p].slot, 0)}
      BY <2>3, ShapeFacts, OwnedFacts DEF Shape, Looped, Building
    <3>3. my[p].loop # None
      BY <3>2, UnixMountAssumption DEF IsLoop, Loop, Devices
    <3>. QED
      BY <3>1, <3>2, <3>3
  <2>4. ASSUME NEW e \in Services, e \in Service, f = [e EXCEPT !.state = "mounted"] PROVE Fine(f)
    BY <1>0, <2>4 DEF Service
  <2>. QED
    BY <2>1, <2>2, <2>3, <2>4, NewServices
<1>. QED
  BY <1>1 DEF Named

\* A slot gets no second file system, and is found without one.
LEMMA SlottedOfStep ==
    ASSUME NEW p \in Callers, OwnedStep(p)
    PROVE  Slotted'
<1>. Owned /\ Step(p)
  BY DEF OwnedStep
<1>. pc \in [Callers -> Stages] /\ arg \in [Callers -> Request] /\ my \in [Callers -> Local] /\
     my[p] \in Local
  BY OwnedFacts DEF Types, ControlTypes
<1>0. \A q \in Callers : FreeOfMounts(q) => \A m \in Mounts : m.slot # my[q].slot
  BY OwnedFacts DEF Slotted
<1>1. \A i, j \in DOMAIN fs' : fs'[i].slot = fs'[j].slot => i = j
  BY MountsOfStep
<1>2. ASSUME NEW q \in Callers, q # p, FreeOfMounts(q)'
      PROVE  \A m \in Mounts' : m.slot # my'[q].slot
  <2>1. pc'[q] = pc[q] /\ arg'[q] = arg[q] /\ my'[q] = my[q] /\ leaked \subseteq leaked'
    BY <1>2, OtherCaller, LeakedGrows
  <2>2. FreeOfMounts(q)
    BY <1>2, <2>1 DEF FreeOfMounts, Native
  <2>3. pc[p] \notin MountStages
    BY <1>2, <2>2, OtherCaller DEF FreeOfMounts, MountStages, HeldStages, EarlyStages
  <2>4. ~MountFilesystem(p)
    BY <2>3 DEF MountFilesystem, At, MountStages, HeldStages
  <2>. QED
    BY <1>0, <2>1, <2>2, <2>4, MountsOfStep
<1>3. ASSUME FreeOfMounts(p)' PROVE \A m \in Mounts' : m.slot # my'[p].slot
  <2>. USE DEF Goto, Set, Inside, At, FreeOfMounts, Native
  <2>a. ASSUME ~MountFilesystem(p), FreeOfMounts(p), my'[p].slot = my[p].slot
        PROVE  \A m \in Mounts' : m.slot # my'[p].slot
    BY <1>0, <2>a, MountsOfStep
  <2>1. CASE CoalesceSlotNumberAndMountPoint(p)
    <3>1. CASE FreeSlots = {} /\ Return(p)
      BY <1>3, <2>1, <3>1 DEF Return, End
    <3>2. ASSUME NEW s \in First(FreeSlots), Set(p, [my[p] EXCEPT !.slot = s])
          PROVE  \A m \in Mounts' : m.slot # my'[p].slot
      <4>1. my'[p].slot = s /\ ~PointInUse(s)
        BY <3>2 DEF First, FreeSlots, Local
      <4>2. Mounts' = Mounts
        BY <2>1 DEF CoalesceSlotNumberAndMountPoint, system, Mounts
      <4>. QED
        BY <4>1, <4>2 DEF PointInUse, Mounts
    <3>. QED
      BY <2>1, <3>1, <3>2 DEF CoalesceSlotNumberAndMountPoint
  <2>2. CASE CheckMounted(p) \/ OpenFails(p)
    BY <1>3, <2>2, <2>a DEF CheckMounted, OpenFails, Return, End, MountFilesystem
  <2>3. CASE Scan(p) \/ ClearDirectory(p) \/ MakeDirectory(p)
    BY <2>3, <2>a DEF Scan, ClearDirectory, MakeDirectory, TryNextDir, Local, MountFilesystem
  <2>4. CASE FuseServiceMount(p) \/ FuseServiceFails(p) \/ DropDirectory(p)
    BY <1>3, <2>4, <2>a DEF FuseServiceMount, FuseServiceFails, DropDirectory, Return, End,
       MountFilesystem
  <2>5. CASE MakePoint(p) \/ Attach(p) \/ AttachFails(p)
    BY <1>3, <2>5, <2>a DEF MakePoint, Attach, AttachFails, Local, MountFilesystem
  <2>6. CASE CreateDevice(p) \/ CreateFails(p) \/ TestDevice(p)
    BY <1>3, <2>6, <2>a DEF CreateDevice, CreateFails, TestDevice, Local, MountFilesystem
  <2>7. CASE CheckPoint(p) \/ MountFilesystemFails(p)
    BY <1>3, <2>7, <2>a DEF CheckPoint, MountFilesystemFails, MountFails, MountFilesystem
  <2>8. CASE MountFilesystem(p)
    BY <1>3, <2>8 DEF MountFilesystem, Local
  <2>9. CASE SendAuxDeviceInfo(p) \/ SendFails(p)
    BY <1>3, <2>9, <2>a DEF SendAuxDeviceInfo, SendFails, MountFilesystem
  <2>10. CASE Confirm(p) \/ UndoDevice(p) \/ UndoLoop(p) \/ DropPoint(p)
    BY <1>3, <2>10 DEF Confirm, Return, End, UndoDevice, UndoLoop, DropPoint
  <2>11. CASE UndoFilesystem(p)
    <3>1. my' = my /\ arg' = arg /\ pc[p] = "undoFs" /\ pc'[p] = "undoDevice"
      BY <2>11 DEF UndoFilesystem
    <3>2. arg[p].volume \notin leaked'
      BY <1>3, <3>1
    <3>3. CASE ~my[p].mounted
      BY <2>11, <2>a, <3>1, <3>3 DEF MountFilesystem
    <3>4. CASE my[p].mounted /\ ~PointInUse(my[p].slot)
      BY <2>11, <3>1, <3>4 DEF UndoFilesystem, PointInUse, Mounts
    <3>5. CASE my[p].mounted /\ PointInUse(my[p].slot)
      <4>1. fs' = Unmounted(my[p].slot)
        BY <2>11, <3>2, <3>5 DEF UndoFilesystem, Leak
      <4>2. PICK k \in DOMAIN fs : fs[k].slot = my[p].slot /\ Mounts' = Mounts \ {fs[k]}
        <5>1. PICK k \in DOMAIN fs :
                 /\ fs[k].slot = my[p].slot
                 /\ LET next == Unmounted(my[p].slot)
                    IN {next[i] : i \in DOMAIN next} = Mounts \ {fs[k]}
          BY <3>5, UnmountedRange
        <5>. QED
          BY <4>1, <5>1 DEF Mounts
      <4>3. \A m \in Mounts : m.slot = my[p].slot => m = fs[k]
        BY <4>2, OwnedFacts DEF Slotted, Mounts
      <4>. QED
        BY <3>1, <4>2, <4>3
    <3>. QED
      BY <3>3, <3>4, <3>5
  <2>12. CASE Recall(p) \/ UmountFilesystem(p) \/ RemoveDevices(p)
    BY <1>3, <2>12 DEF Recall, UmountFilesystem, RemoveDevices, Return, End
  <2>13. CASE DetachLoop(p) \/ UmountAux(p)
    BY <1>3, <2>13 DEF DetachLoop, UmountAux, Return, End
  <2>. QED
    BY <2>1, <2>2, <2>3, <2>4, <2>5, <2>6, <2>7, <2>8, <2>9, <2>10, <2>11, <2>12, <2>13 DEF Step
<1>4. \A q \in Callers : FreeOfMounts(q)' => \A m \in Mounts' : m.slot # my'[q].slot
  BY <1>2, <1>3
<1>. QED
  BY <1>1, <1>4 DEF Slotted

\* A step keeps the second invariant.
LEMMA OwnersOfStep ==
    ASSUME IInv, OInv, NEW p \in Callers, Step(p)
    PROVE  OInv'
<1>1. Dirs' /\ IInv'
  BY DirsOfStep, StepKeeps DEF IInv, OInv
<1>2. ASSUME ~overlapped' PROVE Owners'
  <2>1. ~overlapped
    BY <1>2, AboutStays DEF IInv
  <2>2. OwnedStep(p)
    BY <1>1, <1>2, <2>1 DEF OwnedStep, Owned, OInv
  <2>. QED
    BY <2>2, HasServiceOfStep, ShapeOfStep, NamedOfStep, SlottedOfStep DEF Owners
<1>. QED
  BY <1>1, <1>2 DEF OInv

\* A caller whose variables a step leaves alone, or that starts a mount.
Same(q)   == pc'[q] = pc[q] /\ arg'[q] = arg[q] /\ my'[q] = my[q]
Begins(q) == pc[q] = "idle" /\ pc'[q] = "coalesce" /\ my'[q] = my[q]

\* A mount that starts, like a step that changes nothing, leaves all of this alone.
LEMMA OwnersWhenSame ==
    ASSUME Owners, fuse' = fuse, fs' = fs, leaked' = leaked, \A q \in Callers : Same(q) \/ Begins(q)
    PROVE  Owners'
<1>1. Services' = Services /\ Mounts' = Mounts
  BY DEF Services, Mounts
<1>2. ASSUME NEW q \in Callers, pc'[q] \in HeldStages \cup UnmountStages \/ FreeOfMounts(q)'
      PROVE  Same(q)
  BY <1>2 DEF HeldStages, UnmountStages, FreeOfMounts, Begins
<1>3. HasService'
  <2>. SUFFICES ASSUME NEW q \in Callers, pc'[q] \in HeldStages \cup UnmountStages
                PROVE  \E e \in Services' : ServiceOf(q, e)'
    BY DEF HasService
  <2>1. Same(q)
    BY <1>2
  <2>2. PICK e \in Services : ServiceOf(q, e)
    BY <2>1 DEF Owners, HasService, Same
  <2>. QED
    BY <1>1, <2>1, <2>2 DEF ServiceOf, Sent, NotSent, Native, Mounting, Same
<1>4. Shape'
  <2>1. \A q \in Callers : pc'[q] \in Looped => Same(q)
    BY <1>2 DEF Looped, Building, HeldStages
  <2>. QED
    BY <2>1 DEF Owners, Shape, Native, Looped, Building, Same
<1>5. Named'
  BY <1>1 DEF Owners, Named
<1>6. Slotted'
  <2>1. ASSUME NEW q \in Callers, FreeOfMounts(q)' PROVE \A m \in Mounts' : m.slot # my'[q].slot
    <3>1. Same(q)
      BY <1>2, <2>1
    <3>2. FreeOfMounts(q)
      BY <2>1, <3>1 DEF FreeOfMounts, Native, Same
    <3>. QED
      BY <1>1, <3>1, <3>2 DEF Owners, Slotted, Same
  <2>. QED
    BY <2>1 DEF Owners, Slotted
<1>. QED
  BY <1>3, <1>4, <1>5, <1>6 DEF Owners

\* A mount that starts leaves the tables and the other callers alone.
LEMMA StartOfMount ==
    ASSUME IInv, NEW p \in Callers, NEW v \in Volumes, NEW layers \in Layers, NEW files \in Files,
           MountVolume(p, v, layers, files)
    PROVE  /\ fuse' = fuse /\ on' = on /\ fs' = fs /\ half' = half /\ leaked' = leaked
           /\ ~overlapped' => ~overlapped
           /\ \A q \in Callers : Same(q) \/ Begins(q)
<1>. USE DEF MountVolume, Call, At, Goto
<1>1. fuse' = fuse /\ on' = on /\ fs' = fs /\ half' = half /\ leaked' = leaked /\ (~overlapped' =>
      ~overlapped)
  BY DEF system
<1>2. \A q \in Callers : Same(q) \/ Begins(q)
  BY DEF IInv, Types, ControlTypes, Same, Begins
<1>. QED
  BY <1>1, <1>2

\* Service new is service old once a caller has chosen to unmount it.
Marked(old, new) ==
    /\ old \in Services /\ old \in Service /\ new \in Service
    /\ new.volume = old.volume /\ new.slot = old.slot /\ new.dir = old.dir
    /\ new.virtual = old.virtual /\ new.loop = old.loop /\ new.files = old.files
    /\ new.state = "leaving"

\* An unmount that starts marks the service that was chosen; it becomes the caller's
\* own, which is about no other caller's volume.
Chosen(p, old, new) ==
    /\ Marked(old, new)
    /\ new \in Services' /\ \A e \in Services' : e = new \/ (e \in Services /\ e # old)
    /\ \A e \in Services : e # old => e \in Services'
    /\ pc[p] = "idle" /\ pc'[p] = "umount" /\ arg' = arg /\ on' = on /\ fs' = fs
    /\ half' = half /\ leaked' = leaked /\ ~overlapped
    /\ my'[p].info = Info(old) /\ ~Mounting(p) /\ ~Mounting(p)'
    /\ \A q \in Callers \ {p} : Same(q) /\ (pc[q] # "idle" => Mounting(q) /\ About(q) # old.volume)

\* An unmount that starts, without a call that is at odds with it, has chosen a service.
LEMMA StartOfDismount ==
    ASSUME IInv, Dirs, NEW p \in Callers, NEW i \in DOMAIN fuse, DismountVolume(p, i)
    PROVE  Dirs' /\ (~overlapped' => \E old, new : Chosen(p, old, new))
<1>. DEFINE old == fuse[i]
            info == Info(fuse[i])
<1>. pc \in [Callers -> Stages] /\ arg \in [Callers -> Request] /\ my \in [Callers -> Local]
  BY DEF IInv, Types, ControlTypes
<1>0. fuse \in Seq(Service) /\ old \in Service /\ old \in Services
  BY EntryTypes DEF IInv, Types, TableTypes, Services
<1>1. /\ pc[p] = "idle" /\ arg' = arg /\ on' = on /\ fs' = fs /\ half' = half /\ leaked' = leaked
      /\ pc' = [pc EXCEPT ![p] = "umount"] /\ my' = [my EXCEPT ![p] = [Fresh EXCEPT !.info = info]]
      /\ fuse' = [fuse EXCEPT ![i] = [fuse[i] EXCEPT !.state = "leaving"]]
      /\ ~overlapped' => ~overlapped /\ \A q \in Callers : ~AtOdds(q, FALSE, old.volume)
  BY DEF DismountVolume, Call, At, Goto, Set
<1>2. PICK new : new = [old EXCEPT !.state = "leaving"]
  OBVIOUS
<1>3. Marked(old, new)
  BY <1>0, <1>2 DEF Service, Marked
<1>4. DOMAIN fuse' = DOMAIN fuse /\ \A j \in DOMAIN fuse : fuse'[j] = IF j = i THEN new ELSE fuse[j]
  BY <1>0, <1>1, <1>2
<1>5. Dirs'
  BY <1>3, <1>4 DEF Dirs, Marked
<1>6. /\ \A q \in Callers \ {p} : Same(q)
      /\ pc'[p] = "umount" /\ my'[p].info = info
  <2>1. [Fresh EXCEPT !.info = info].info = info
    BY DEF Fresh
  <2>. QED
    BY <1>1, <2>1 DEF Same
<1>. HIDE DEF old, info
<1>7. ASSUME ~overlapped' PROVE Chosen(p, old, new)
  <2>1. ASSUME NEW e \in Services' PROVE e = new \/ (e \in Services /\ e # old)
    <3>1. PICK j \in DOMAIN fuse : e = fuse'[j]
      BY <1>4 DEF Services
    <3>2. j # i => fuse[j] # old
      BY <1>1, <1>7 DEF IInv, Listing, old
    <3>. QED
      BY <1>4, <3>1, <3>2 DEF Services
  <2>2. new \in Services' /\ \A e \in Services : e # old => e \in Services'
    BY <1>4 DEF Services, old
  <2>3. \A q \in Callers \ {p} : pc[q] # "idle" => Mounting(q) /\ About(q) # old.volume
    BY <1>1, <1>7 DEF AtOdds, Mounting, About
  <2>4. ~Mounting(p) /\ ~Mounting(p)'
    BY <1>1 DEF IInv, Roles, Mounting, NoArg
  <2>. QED
    BY <1>1, <1>3, <1>6, <1>7, <2>1, <2>2, <2>3, <2>4 DEF Chosen, info, old
<1>. QED
  BY <1>5, <1>7

\* An unmount that starts keeps the second invariant.
LEMMA OwnersOfDismount ==
    ASSUME Owned, NEW p \in Callers, NEW old, NEW new, Chosen(p, old, new)
    PROVE  Owners'
<1>. USE DEF Chosen
<1>1. Marked(old, new) /\ Mounts' = Mounts
  BY DEF Mounts
<1>2. HasService'
  <2>1. ASSUME NEW q \in Callers, q # p, pc'[q] \in HeldStages \cup UnmountStages
        PROVE  \E e \in Services' : ServiceOf(q, e)'
    <3>1. pc'[q] = pc[q] /\ arg'[q] = arg[q] /\ my'[q] = my[q]
      BY <2>1 DEF Same
    <3>2. PICK e \in Services : ServiceOf(q, e)
      BY <2>1, <3>1, OwnService
    <3>3. e.volume = About(q)
      BY <2>1, <3>1, <3>2, OwnVolume
    <3>4. e \in Services'
      BY <2>1, <3>1, <3>2, <3>3 DEF HeldStages, UnmountStages
    <3>. QED
      BY <3>1, <3>2, <3>4 DEF ServiceOf, Sent, NotSent, Native, Mounting
  <2>2. \E e \in Services' : ServiceOf(p, e)'
    <3>1. /\ my'[p].info.volume = old.volume /\ my'[p].info.dir = old.dir
          /\ my'[p].info.virtual = old.virtual /\ my'[p].info.loop = old.loop
      BY DEF Info
    <3>2. ServiceOf(p, new)'
      BY <1>1, <3>1 DEF ServiceOf, HeldStages, UnmountStages, Marked
    <3>. QED
      BY <3>2
  <2>. QED
    BY <2>1, <2>2 DEF HasService
<1>3. Shape'
  <2>1. \A q \in Callers : pc'[q] \in Looped \cup Building => q # p
    BY DEF Looped, Building
  <2>2. \A q \in Callers \ {p} : Same(q)
    OBVIOUS
  <2>. QED
    BY <2>1, <2>2, OwnedFacts DEF Shape, Native, Looped, Same
<1>4. Named'
  BY <1>1, OwnedFacts DEF Named, Marked
<1>5. Slotted'
  <2>1. ASSUME NEW q \in Callers, FreeOfMounts(q)' PROVE \A m \in Mounts' : m.slot # my'[q].slot
    <3>1. Same(q)
      BY <2>1 DEF FreeOfMounts
    <3>2. FreeOfMounts(q)
      BY <2>1, <3>1 DEF FreeOfMounts, Native, Same
    <3>. QED
      BY <1>1, <3>1, <3>2, OwnedFacts DEF Slotted, Same
  <2>. QED
    BY <2>1, OwnedFacts DEF Slotted
<1>. QED
  BY <1>2, <1>3, <1>4, <1>5 DEF Owners

\* The second invariant holds at the start.
LEMMA OwnersAtFirst == Init => OInv
<1>. SUFFICES ASSUME Init PROVE OInv
  OBVIOUS
<1>1. fuse = <<>> /\ fs = <<>> /\ \A p \in Callers : pc[p] = "idle"
  BY DEF Init
<1>2. Services = {} /\ Mounts = {}
  BY <1>1 DEF Services, Mounts
<1>3. Dirs /\ HasService /\ Shape /\ Named
  BY <1>1, <1>2 DEF Dirs, HasService, HeldStages, UnmountStages, Shape, Looped, Building, Named
<1>4. Slotted
  BY <1>1, <1>2 DEF Slotted
<1>. QED
  BY <1>3, <1>4 DEF OInv, Owners

\* Every step keeps the second invariant.
LEMMA NextKeepsOwners == IInv /\ OInv /\ [Next]_vars => OInv'
<1>. SUFFICES ASSUME IInv, OInv, [Next]_vars PROVE OInv'
  OBVIOUS
<1>1. ASSUME NEW p \in Callers, NEW v \in Volumes, NEW layers \in Layers, NEW files \in Files,
             MountVolume(p, v, layers, files)
      PROVE  OInv'
  BY <1>1, StartOfMount, OwnersWhenSame DEF OInv, Dirs
<1>2. ASSUME NEW p \in Callers, NEW i \in DOMAIN fuse, DismountVolume(p, i) PROVE OInv'
  <2>1. Dirs'
    BY <1>2, StartOfDismount DEF OInv
  <2>2. ASSUME ~overlapped' PROVE Owners'
    <3>1. PICK old, new : Chosen(p, old, new)
      BY <1>2, <2>2, StartOfDismount DEF OInv
    <3>2. Owned
      BY <3>1 DEF Chosen, Owned, OInv
    <3>. QED
      BY <3>1, <3>2, OwnersOfDismount
  <2>. QED
    BY <2>1, <2>2 DEF OInv
<1>3. CASE UNCHANGED vars
  <2>1. /\ fuse' = fuse /\ on' = on /\ fs' = fs /\ pc' = pc /\ arg' = arg /\ my' = my
        /\ overlapped' = overlapped /\ leaked' = leaked
    BY <1>3 DEF vars, system, ghosts
  <2>2. \A q \in Callers : Same(q)
    BY <2>1 DEF Same
  <2>. QED
    BY <2>1, <2>2, OwnersWhenSame DEF OInv, Dirs
<1>. QED
  BY <1>1, <1>2, <1>3, OwnersOfStep DEF Next

-----------------------------------------------------------------------------
(* The third invariant *)

\* A step before and after which nothing has gone wrong.
CalmStep(p) == Calm /\ Step(p) /\ Owned' /\ ~half'

\* The services keep their loop devices, each to itself.
LEMMA DevisedOfStep ==
    ASSUME NEW p \in Callers, CalmStep(p)
    PROVE  Devised'
<1>. Calm /\ Step(p) /\ IInv' /\ Dirs' /\ ~half' /\ Listing'
  BY DEF CalmStep, Owned, IInv
<1>. SUFFICES ASSUME NEW e \in Services', Live(e)'
     PROVE  /\ Exists(e.loop)'
            /\ \A m \in Mounts' : m.device = e.loop => m.slot = e.slot
            /\ \A f \in Services' : Live(f)' /\ f.loop = e.loop => f = e
  BY DEF Devised
<1>a. ASSUME NEW f \in Services', f.volume = e.volume PROVE f = e
  BY <1>a, SameServiceAfter
<1>b. ASSUME NEW f \in Services', f.volume # About(p), Live(f)' PROVE f \in Services /\ Live(f)
  BY <1>b, CalmFacts, OthersServices, GoneSame DEF Live
<1>c. ASSUME MountFilesystem(p)
      PROVE  /\ pc[p] = "mountFs" /\ Entered(p).slot = my[p].slot /\
                Entered(p).device = my[p].device
             /\ my[p].device = my[p].loop \/ my[p].device[1] = "dm"
  <2>1. pc[p] = "mountFs"
    BY <1>c DEF MountFilesystem, At
  <2>2. my[p].device = my[p].loop \/ my[p].device[1] = "dm"
    BY <2>1, BuiltFacts DEF Building, Mapped
  <2>. QED
    BY <2>1, <2>2 DEF Entered
<1>1. CASE e \in Services /\ e.volume # About(p)
  <2>2. Live(e) /\ IsLoop(e.loop)
    BY <1>1, <1>b, CalmFacts DEF Named, Live
  <2>3. Exists(e.loop)'
    BY <1>1, <2>2, LoopSpared, DevicesOfStep, CalmFacts DEF Devised, Exists
  <2>4. ASSUME NEW m \in Mounts', m.device = e.loop PROVE m.slot = e.slot
    <3>1. CASE m \in Mounts
      BY <1>1, <2>2, <2>4, <3>1, CalmFacts DEF Devised
    <3>2. CASE MountFilesystem(p) /\ m = Entered(p)
      <4>1. e.loop = my[p].loop /\ pc[p] = "mountFs"
        BY <1>c, <2>2, <2>4, <3>2 DEF IsLoop, Loop
      <4>2. e.volume = arg[p].volume /\ arg[p].volume = About(p)
        BY <1>1, <2>2, <4>1, CalmFacts DEF Held, Looped, Building, Roles, MountStages, HeldStages,
           About
      <4>. QED
        BY <1>1, <4>2
    <3>. QED
      BY <3>1, <3>2, CalmFacts, MountsOfStep
  <2>5. ASSUME NEW f \in Services', Live(f)', f.loop = e.loop PROVE f = e
    <3>1. CASE f.volume # About(p)
      BY <1>1, <1>b, <2>2, <2>5, <3>1, CalmFacts DEF Devised
    <3>2. CASE f.volume = About(p) /\ f \in Services
      <4>1. Live(f)
        BY <2>5, <3>2, LiveBefore
      <4>. QED
        BY <1>1, <2>2, <2>5, <3>2, <4>1, CalmFacts DEF Devised
    <3>3. CASE f \notin Services
      <4>1. CASE FuseGains(p) /\ f = NewService(p)
        BY <2>5, <4>1 DEF NewService, Live
      <4>2. CASE /\ SendAuxDeviceInfo(p) /\ pc[p] = "send"
                 /\ \E g \in Services : /\ ServiceOf(p, g) /\ g.volume = About(p) /\
                                           g.state = "new" /\ g \in Service
                                        /\ f = [g EXCEPT !.virtual = my[p].device,
                                           !.loop = my[p].loop]
        <5>1. f.loop = my[p].loop
          BY <4>2 DEF Service
        <5>2. e.volume = arg[p].volume /\ arg[p].volume = About(p)
          BY <1>1, <2>2, <2>5, <4>2, <5>1, CalmFacts
             DEF Held, Looped, Building, Roles, MountStages, HeldStages, About
        <5>. QED
          BY <1>1, <5>2
      <4>3. CASE /\ Confirm(p) /\ pc[p] = "confirm"
                 /\ \E g \in Services : /\ ServiceOf(p, g) /\ g.volume = About(p) /\ g \in Service
                                        /\ f = [g EXCEPT !.state = "mounted"]
        <5>1. PICK g \in Services : g.volume = About(p) /\ g \in Service /\
                                    f = [g EXCEPT !.state = "mounted"]
          BY <4>3
        <5>2. f.loop = g.loop
          BY <5>1 DEF Service
        <5>3. Live(g)
          BY <2>5, <4>3, <5>1, <5>2, CalmFacts, OwnNotGone DEF Live
        <5>4. g = e
          BY <1>1, <2>2, <2>5, <5>1, <5>2, <5>3, CalmFacts DEF Devised
        <5>. QED
          BY <1>1, <5>1, <5>4
      <4>. QED
        BY <3>3, <4>1, <4>2, <4>3, CalmFacts, NewServices
    <3>. QED
      BY <3>1, <3>2, <3>3
  <2>. QED
    BY <2>3, <2>4, <2>5
\* In what follows a service with the same loop device is one of other volumes.
<1>d. ASSUME NEW f \in Services', Live(f)', f # e, e.volume = About(p)
      PROVE  f \in Services /\ Live(f) /\ f.volume # About(p)
  BY <1>a, <1>b, <1>d
<1>2. CASE e \in Services /\ e.volume = About(p)
  <2>2. Live(e) /\ IsLoop(e.loop)
    BY <1>2, LiveBefore, CalmFacts DEF Named, Live
  <2>3. Exists(e.loop)'
    <3>. SUFFICES ASSUME Loses(p, e.loop) PROVE FALSE
      BY <1>2, <2>2, DevicesOfStep, CalmFacts DEF Devised, Exists
    <3>1. PICK f \in Services :
              /\ ServiceOf(p, f) /\ f.volume = About(p)
              /\ \/ e.loop[1] = "dm" /\ e.loop[2] = f.slot
                 \/ pc[p] = "undoLoop" /\ e.loop = my[p].loop
                 \/ pc[p] = "detach" /\ e.loop = f.loop /\ f.loop # None
      BY CalmFacts, LostIsOwn
    <3>2. f = e
      BY <1>2, <3>1, CalmFacts, SameService
    <3>3. CASE pc[p] = "undoLoop"
      BY <2>2, <3>1, <3>2, <3>3 DEF ServiceOf, HeldStages, NotSent, Sent, Live
    <3>4. CASE pc[p] = "detach"
      <4>1. DetachLoop(p)
        BY <3>4, WhichStep
      <4>2. pc'[p] = "umountAux" /\ my' = my
        BY <4>1, CalmFacts DEF DetachLoop, Goto, Types, ControlTypes
      <4>3. my[p].info.volume = e.volume
        BY <3>1, <3>2, <3>4 DEF ServiceOf, UnmountStages
      <4>. QED
        BY <4>2, <4>3 DEF Live, Gone
    <3>. QED
      BY <2>2, <3>1, <3>3, <3>4 DEF IsLoop, Loop
  <2>4. ASSUME NEW m \in Mounts', m.device = e.loop PROVE m.slot = e.slot
    <3>1. CASE m \in Mounts
      BY <1>2, <2>2, <2>4, <3>1, CalmFacts DEF Devised
    <3>2. CASE MountFilesystem(p) /\ m = Entered(p)
      <4>1. m.slot = my[p].slot /\ pc[p] = "mountFs"
        BY <1>c, <3>2
      <4>2. PICK g \in Services : ServiceOf(p, g)
        BY <4>1, CalmFacts, OwnService DEF HeldStages
      <4>3. g = e /\ g.slot = my[p].slot
        BY <1>2, <4>1, <4>2, CalmFacts, OwnVolume DEF HeldStages, ServiceOf
      <4>. QED
        BY <4>1, <4>3
    <3>. QED
      BY <3>1, <3>2, CalmFacts, MountsOfStep
  <2>5. ASSUME NEW f \in Services', Live(f)', f.loop = e.loop PROVE f = e
    BY <1>2, <1>d, <2>2, <2>5, CalmFacts DEF Devised
  <2>. QED
    BY <2>3, <2>4, <2>5
<1>3. CASE FuseGains(p) /\ e = NewService(p)
  BY <1>3 DEF NewService, Live
<1>4. CASE /\ SendAuxDeviceInfo(p) /\ pc[p] = "send"
           /\ \E g \in Services : /\ ServiceOf(p, g) /\ g.volume = About(p) /\ g.state = "new" /\
                                     g \in Service
                                  /\ e = [g EXCEPT !.virtual = my[p].device, !.loop = my[p].loop]
  <2>1. PICK g \in Services : /\ ServiceOf(p, g) /\ g.volume = About(p) /\ g \in Service
                              /\ e = [g EXCEPT !.virtual = my[p].device, !.loop = my[p].loop]
    BY <1>4
  <2>2. /\ e.loop = my[p].loop /\ e.virtual = my[p].device /\ e.slot = my[p].slot /\
           e.volume = About(p)
    BY <1>4, <2>1 DEF Service, ServiceOf, HeldStages
  <2>3. on' = on /\ Mounts' = Mounts
    BY <1>4 DEF SendAuxDeviceInfo, Mounts
  <2>4. /\ Exists(my[p].loop)
        /\ \A m \in Mounts : m.device = my[p].loop => m.slot = my[p].slot
        /\ \A f \in Services : Live(f) /\ f.loop = my[p].loop => f.volume = arg[p].volume
    BY <1>4, CalmFacts DEF Held, Looped, Building
  <2>7. arg[p].volume = About(p)
    BY <1>4, CalmFacts DEF Roles, MountStages, HeldStages, About
  <2>8. \A f \in Services' : Live(f)' /\ f.loop = e.loop => f = e
    BY <1>d, <2>2, <2>4, <2>7
  <2>. QED
    BY <2>2, <2>3, <2>4, <2>8 DEF Exists
<1>5. CASE /\ Confirm(p) /\ pc[p] = "confirm"
           /\ \E g \in Services : /\ ServiceOf(p, g) /\ g.volume = About(p) /\ g \in Service
                                  /\ e = [g EXCEPT !.state = "mounted"]
  <2>1. PICK g \in Services : g.volume = About(p) /\ g \in Service /\
                              e = [g EXCEPT !.state = "mounted"]
    BY <1>5
  <2>2. e.loop = g.loop /\ e.virtual = g.virtual /\ e.slot = g.slot /\ e.volume = About(p)
    BY <2>1 DEF Service
  <2>3. on' = on /\ Mounts' = Mounts
    BY <1>5 DEF Confirm, Mounts
  <2>4. g.loop # None => Live(g)
    BY <1>5, <2>1, CalmFacts, OwnNotGone DEF Live
  <2>5. Live(g) =>
              /\ Exists(g.loop)
              /\ \A m \in Mounts : m.device = g.loop => m.slot = g.slot
              /\ \A f \in Services : Live(f) /\ f.loop = g.loop => f = g
    BY <2>1, CalmFacts DEF Devised
  <2>6. Live(e)' => Live(g)
    BY <2>2, <2>4 DEF Live
  <2>7. ASSUME Live(e)' PROVE \A f \in Services' : Live(f)' /\ f.loop = e.loop => f = e
    BY <1>d, <2>1, <2>2, <2>5, <2>6, <2>7
  <2>. QED
    BY <2>2, <2>3, <2>5, <2>6, <2>7 DEF Exists
<1>. QED
  BY <1>1, <1>2, <1>3, <1>4, <1>5, CalmFacts, NewServices

\* A mount keeps its loop device to itself.
LEMMA HeldOfStep ==
    ASSUME NEW p \in Callers, CalmStep(p)
    PROVE  Held'
<1>. Calm /\ Step(p) /\ IInv' /\ Dirs' /\ ~half' /\ Listing'
  BY DEF CalmStep, Owned, IInv
<1>. SUFFICES ASSUME NEW q \in Callers, pc'[q] \in Looped
     PROVE  /\ IsLoop(my'[q].loop) /\ my'[q].loop \in DOMAIN on'
            /\ \A m \in Mounts' : m.device = my'[q].loop => m.slot = my'[q].slot
            /\ \A e \in Services' : Live(e)' /\ e.loop = my'[q].loop => e.volume = arg'[q].volume
  BY DEF Held, Exists
<1>1. CASE q # p
  <2>1. /\ pc[q] \in Looped /\ pc[q] \in MountStages
        /\ pc'[q] = pc[q] /\ arg'[q] = arg[q] /\ my'[q] = my[q]
        /\ ~Mounting(p) /\ pc[p] \notin MountStages /\ About(q) = arg[q].volume /\
           About(q) # About(p)
    BY <1>1, CalmFacts, OtherCaller DEF Looped, Building, MountStages, HeldStages
  <2>2. /\ IsLoop(my[q].loop) /\ my[q].loop \in DOMAIN on
        /\ \A m \in Mounts : m.device = my[q].loop => m.slot = my[q].slot
        /\ \A e \in Services : Live(e) /\ e.loop = my[q].loop => e.volume = arg[q].volume
    BY <2>1, CalmFacts DEF Held, Shape, Exists
  <2>3. ~Loses(p, my[q].loop)
    <3>. SUFFICES ASSUME Loses(p, my[q].loop) PROVE FALSE
      OBVIOUS
    <3>1. PICK f \in Services :
              /\ ServiceOf(p, f) /\ f.volume = About(p)
              /\ \/ my[q].loop[1] = "dm" /\ my[q].loop[2] = f.slot
                 \/ pc[p] = "undoLoop" /\ my[q].loop = my[p].loop
                 \/ pc[p] = "detach" /\ my[q].loop = f.loop /\ f.loop # None
      BY CalmFacts, LostIsOwn
    <3>2. pc[p] = "detach" /\ my[q].loop = f.loop /\ f.loop # None
      BY <2>1, <2>2, <3>1 DEF IsLoop, Loop, MountStages, HeldStages
    <3>3. Live(f)
      BY <3>1, <3>2, CalmFacts, OwnNotGone DEF Live
    <3>. QED
      BY <2>1, <2>2, <3>1, <3>2, <3>3
  <2>4. my[q].loop \in DOMAIN on'
    BY <2>2, <2>3, DevicesOfStep, CalmFacts
  <2>5. \A m \in Mounts' : m \in Mounts
    BY <2>1, CalmFacts, MountsOfStep DEF MountFilesystem, At, MountStages, HeldStages
  <2>6. \A e \in Services' : e \in Services
    BY <2>1, CalmFacts, NewServices DEF FuseGains, MountStages, HeldStages, EarlyStages
  <2>7. \A e \in Services' : Live(e)' => Live(e)
    BY <2>6, LiveBefore
  <2>. QED
    BY <2>1, <2>2, <2>4, <2>5, <2>6, <2>7
<1>2. CASE q = p /\ Attach(p)
  <2>1. PICK n \in FreeLoops : /\ on' = With(Loop(n),
                                  IF Native(p) THEN File(arg[p].volume) ELSE Image(my[p].dir))
                               /\ Set(p, [my[p] EXCEPT !.loop = Loop(n), !.device = Loop(n)])
    BY <1>2 DEF Attach
  <2>2. n \in Nat /\ ~Exists(Loop(n))
    BY LoopIsDevice
  <2>3. my'[p].loop = Loop(n)
    BY <2>1, CalmFacts DEF Set, Types, ControlTypes, Local
  <2>4. Loop(n) \in DOMAIN on'
    BY <2>1 DEF With
  <2>5. fuse' = fuse /\ fs' = fs
    BY <1>2 DEF Attach
  <2>6. Mounts' = Mounts /\ Services' = Services
    BY <2>5 DEF Mounts, Services
  <2>7. \A m \in Mounts : m.device # Loop(n)
    BY <2>2, CalmFacts DEF Filesystems
  <2>8. \A e \in Services : Live(e) => e.loop # Loop(n)
    BY <2>2, CalmFacts DEF Devised
  <2>9. \A e \in Services : Live(e)' => Live(e)
    BY <2>6, LiveBefore
  <2>. QED
    BY <1>2, <2>2, <2>3, <2>4, <2>6, <2>7, <2>8, <2>9 DEF IsLoop
<1>3. CASE q = p /\ ~Attach(p)
  <2>1. /\ pc[p] \in Looped \ {"undoLoop"}
        /\ my'[p].loop = my[p].loop /\ my'[p].slot = my[p].slot /\ arg' = arg
    BY <1>3, LoopKept, CalmFacts
  <2>2. /\ IsLoop(my[p].loop) /\ my[p].loop \in DOMAIN on
        /\ \A m \in Mounts : m.device = my[p].loop => m.slot = my[p].slot
        /\ \A e \in Services : Live(e) /\ e.loop = my[p].loop => e.volume = arg[p].volume
    BY <2>1, CalmFacts DEF Held, Shape, Exists
  <2>3. ~Loses(p, my[p].loop)
    BY <2>1, <2>2 DEF Loses, IsLoop, Loop, Looped, Building
  <2>4. my[p].loop \in DOMAIN on'
    BY <2>2, <2>3, DevicesOfStep, CalmFacts
  <2>5. \A m \in Mounts' : m \in Mounts \/ m.slot = my[p].slot
    BY CalmFacts, MountsOfStep DEF Entered
  <2>6. About(p) = arg[p].volume
    BY <2>1, CalmFacts DEF Looped, Building, Roles, MountStages, HeldStages, About
  <2>7. \A e \in Services' : e \in Services \/ e.volume = About(p)
    BY CalmFacts, OthersServices
  <2>8. \A e \in Services' : e \in Services /\ Live(e)' => Live(e)
    BY LiveBefore
  <2>. QED
    BY <1>3, <2>1, <2>2, <2>4, <2>5, <2>6, <2>7, <2>8
<1>. QED
  BY <1>1, <1>2, <1>3

\* What is in a slot is left alone by a caller whose service has another slot.
LEMMA SlotSpared ==
    ASSUME Calm, NEW p \in Callers, Step(p), NEW e \in Services, e.volume # About(p), NEW level,
           Exists(Mapped(e.slot, level))
    PROVE  Mapped(e.slot, level) \in DOMAIN on' /\
           on'[Mapped(e.slot, level)] = on[Mapped(e.slot, level)]
<1>1. ~Loses(p, Mapped(e.slot, level))
  BY MappedSpared, CalmFacts
<1>. QED
  BY <1>1, DevicesOfStep, CalmFacts DEF Exists

\* A cascade that is being built is left alone by the other callers.
LEMMA BuiltOfOther ==
    ASSUME NEW p \in Callers, CalmStep(p), NEW q \in Callers, q # p
    PROVE  BuiltAt(q)'
<1>. Calm /\ Step(p) /\ IInv' /\ Dirs' /\ ~half' /\ Listing'
  BY DEF CalmStep, Owned, IInv
<1>1. pc'[q] = pc[q] /\ arg'[q] = arg[q] /\ my'[q] = my[q] /\ Native(q)' = Native(q)
  BY CalmFacts, OtherCaller DEF Native
<1>3. ASSUME pc[q] \in Building
      PROVE  LET from == arg[q].layers - my[q].built
             IN /\ Stack(my[q].slot, from, arg[q].layers, my[q].loop)'
                /\ on'[my[q].loop] = IF Native(q) THEN File(arg[q].volume) ELSE Image(my[q].dir)
  <2>. DEFINE from == arg[q].layers - my[q].built
  <2>1. /\ Stack(my[q].slot, from, arg[q].layers, my[q].loop)
        /\ on[my[q].loop] = IF Native(q) THEN File(arg[q].volume) ELSE Image(my[q].dir)
    BY <1>3, CalmFacts DEF Built, BuiltAt
  <2>. HIDE DEF from
  <2>2. PICK e \in Services : ServiceOf(q, e)
    BY <1>3, CalmFacts, OwnService DEF Building, HeldStages
  <2>3. e.slot = my[q].slot /\ e.volume = About(q) /\ About(q) # About(p)
    BY <1>3, <2>2, CalmFacts, OwnVolume, OtherCaller DEF Building, HeldStages, ServiceOf
  <2>4. Stack(e.slot, from, arg[q].layers, my[q].loop)
    BY <2>1, <2>3
  <2>5. \A level \in from .. arg[q].layers - 1 :
           /\ Mapped(e.slot, level) \in DOMAIN on'
           /\ on'[Mapped(e.slot, level)] =
                 IF level = arg[q].layers - 1 THEN my[q].loop ELSE Mapped(e.slot, level + 1)
    BY <2>3, <2>4, SlotSpared DEF Stack
  <2>6. \A level \in from .. arg'[q].layers - 1 :
           /\ Mapped(my'[q].slot, level) \in DOMAIN on'
           /\ on'[Mapped(my'[q].slot, level)] =
                 IF level = arg'[q].layers - 1 THEN my'[q].loop ELSE Mapped(my'[q].slot, level + 1)
    BY <1>1, <2>3, <2>5
  <2>7. on'[my[q].loop] = on[my[q].loop]
    <3>1. pc[q] \in Looped /\ my[q].loop \in DOMAIN on /\ IsLoop(my[q].loop)
      BY <1>3, CalmFacts DEF Looped, Held, Shape, Exists
    <3>2. ~Loses(p, my[q].loop)
      <4>. SUFFICES ASSUME Loses(p, my[q].loop) PROVE FALSE
        OBVIOUS
      <4>1. PICK f \in Services :
              /\ ServiceOf(p, f) /\ f.volume = About(p)
              /\ \/ my[q].loop[1] = "dm" /\ my[q].loop[2] = f.slot
                 \/ pc[p] = "undoLoop" /\ my[q].loop = my[p].loop
                 \/ pc[p] = "detach" /\ my[q].loop = f.loop /\ f.loop # None
        BY CalmFacts, LostIsOwn
      <4>2. pc[p] \notin MountStages /\ About(q) = arg[q].volume
        BY <1>3, CalmFacts, OtherCaller DEF Building, MountStages, HeldStages
      <4>3. pc[p] = "detach" /\ my[q].loop = f.loop /\ f.loop # None
        BY <3>1, <4>1, <4>2 DEF IsLoop, Loop, MountStages, HeldStages
      <4>4. Live(f)
        BY <4>1, <4>3, CalmFacts, OwnNotGone DEF Live
      <4>. QED
        BY <2>3, <3>1, <4>1, <4>2, <4>3, <4>4, CalmFacts DEF Held
    <3>. QED
      BY <3>1, <3>2, DevicesOfStep, CalmFacts
  <2>8. Stack(my[q].slot, arg[q].layers - my[q].built, arg[q].layers, my[q].loop)'
    BY <1>1, <2>6 DEF Stack, Exists, from
  <2>. QED
    BY <2>1, <2>7, <2>8 DEF from
<1>4. pc'[q] \in Building =>
          LET from == arg[q].layers - my[q].built
          IN /\ Stack(my[q].slot, from, arg[q].layers, my[q].loop)'
             /\ on'[my'[q].loop] = IF Native(q)' THEN File(arg'[q].volume) ELSE Image(my'[q].dir)
  BY <1>1, <1>3
<1>. QED
  BY <1>1, <1>4 DEF BuiltAt

\* A mount builds its cascade one device over the other.
LEMMA BuiltOfOwn ==
    ASSUME NEW p \in Callers, CalmStep(p)
    PROVE  BuiltAt(p)'
<1>. Calm /\ Step(p) /\ IInv' /\ Dirs' /\ ~half' /\ Listing'
  BY DEF CalmStep, Owned, IInv
<1>. pc \in [Callers -> Stages] /\ arg \in [Callers -> Request] /\ my \in [Callers -> Local] /\
     my[p] \in Local
  BY CalmFacts DEF Types, ControlTypes
<1>. BuiltAt(p)
  BY CalmFacts DEF Built
<1>. USE DEF Goto, Set, Inside, At, Building
<1>1. CASE ~BuildSteps(p)
  BY <1>1, OnlyBuildSteps, CalmFacts DEF BuiltAt
\* Steps that change no device and keep what has been built.
<1>a. ASSUME on' = on, arg' = arg, my'[p].built = my[p].built, my'[p].device = my[p].device,
             my'[p].loop = my[p].loop, my'[p].slot = my[p].slot, my'[p].dir = my[p].dir,
             pc[p] \in Building
      PROVE  BuiltAt(p)'
  <2>2. Native(p)' = Native(p)
    BY <1>a DEF Native
  <2>3. Stack(my[p].slot, arg[p].layers - my[p].built, arg[p].layers, my[p].loop)' =
        Stack(my[p].slot, arg[p].layers - my[p].built, arg[p].layers, my[p].loop)
    BY <1>a DEF Stack, Exists
  <2>. QED
    BY <1>a, <2>2, <2>3 DEF BuiltAt
<1>2. CASE Attach(p)
  <2>1. PICK n \in FreeLoops : /\ on' = With(Loop(n),
                                  IF Native(p) THEN File(arg[p].volume) ELSE Image(my[p].dir))
                               /\ Set(p, [my[p] EXCEPT !.loop = Loop(n), !.device = Loop(n)])
    BY <1>2 DEF Attach
  <2>2. /\ my'[p].loop = Loop(n) /\ my'[p].device = Loop(n) /\ my'[p].built = my[p].built
        /\ my'[p].slot = my[p].slot /\ my'[p].dir = my[p].dir /\ arg' = arg
        /\ pc'[p] = IF Native(p) THEN "create" ELSE "send"
    BY <1>2, <2>1 DEF Local, Attach
  <2>3. my[p].built = 0 /\ arg[p].layers \in Nat
    BY <1>2, CalmFacts DEF Attach, Roles, Request
  <2>4. on'[Loop(n)] = IF Native(p) THEN File(arg[p].volume) ELSE Image(my[p].dir)
    BY <2>1 DEF With
  <2>5. Native(p)' = Native(p) /\ (Native(p) <=> arg[p].layers > 0)
    BY <2>2 DEF Native
  <2>6. arg'[p].layers - my'[p].built = arg[p].layers
    BY <2>2, <2>3
  <2>7. Stack(my[p].slot, arg[p].layers - my[p].built, arg[p].layers, my[p].loop)'
    BY <2>2, <2>3, <2>6 DEF Stack
  <2>. QED
    BY <2>2, <2>3, <2>4, <2>5, <2>6, <2>7 DEF BuiltAt
<1>3. CASE CreateDevice(p)
  <2>. DEFINE layers == arg[p].layers
              built == my[p].built
              slot == my[p].slot
  <2>1. /\ layers \in Nat /\ built \in Nat /\ built < layers
        /\ built = 0 => my[p].device = my[p].loop
        /\ built # 0 => my[p].device = Mapped(slot, layers - built)
        /\ Stack(slot, layers - built, layers, my[p].loop)
        /\ on[my[p].loop] = IF Native(p) THEN File(arg[p].volume) ELSE Image(my[p].dir)
    BY <1>3, BuiltFacts DEF CreateDevice
  <2>2. /\ on' = With(NewDevice(p), my[p].device) /\ arg' = arg
        /\ my'[p].device = NewDevice(p) /\ my'[p].built = built + 1
        /\ my'[p].loop = my[p].loop /\ my'[p].slot = slot /\ my'[p].dir = my[p].dir
        /\ pc'[p] = IF built + 1 < layers THEN "create" ELSE "test"
    BY <1>3 DEF CreateDevice, Local
  <2>3. NewDevice(p) = Mapped(slot, layers - (built + 1))
    <3>1. layers - 1 - built = layers - (built + 1)
      BY <2>1
    <3>. QED
      BY <3>1 DEF NewDevice
  <2>4. /\ NewDevice(p) \in DOMAIN on' /\ on'[NewDevice(p)] = my[p].device
        /\ \A d \in DOMAIN on \ {NewDevice(p)} : d \in DOMAIN on' /\ on'[d] = on[d]
    BY <2>2 DEF With
  <2>5. Native(p)' = Native(p)
    BY <2>2 DEF Native
  <2>6. on'[my[p].loop] = on[my[p].loop]
    <3>1. my[p].loop \in DOMAIN on /\ IsLoop(my[p].loop)
      BY <1>3, CalmFacts DEF CreateDevice, Looped, Held, Shape, Exists
    <3>2. my[p].loop # NewDevice(p)
      BY <3>1 DEF IsLoop, Loop, NewDevice, Mapped
    <3>. QED
      BY <2>4, <3>1, <3>2
  <2>. HIDE DEF layers, built, slot
  <2>7. ASSUME NEW level \in layers - (built + 1) .. layers - 1
        PROVE  /\ Mapped(slot, level) \in DOMAIN on'
               /\ on'[Mapped(slot,
                  level)] = IF level = layers - 1 THEN my[p].loop ELSE Mapped(slot, level + 1)
    <3>1. CASE level = layers - (built + 1)
      <4>1. Mapped(slot, level) = NewDevice(p)
        BY <2>3, <3>1
      <4>2. CASE built = 0
        BY <2>1, <2>4, <3>1, <4>1, <4>2
      <4>3. CASE built # 0
        <5>1. level # layers - 1 /\ level + 1 = layers - built
          BY <2>1, <3>1, <4>3
        <5>. QED
          BY <2>1, <2>4, <4>1, <4>3, <5>1
      <4>. QED
        BY <4>2, <4>3
    <3>2. CASE level # layers - (built + 1)
      <4>1. level \in layers - built .. layers - 1
        BY <2>1, <3>2
      <4>2. Mapped(slot, level) # NewDevice(p)
        BY <2>3, <3>2 DEF Mapped
      <4>3. /\ Mapped(slot, level) \in DOMAIN on
            /\ on[Mapped(slot, level)] = IF level = layers - 1 THEN my[p].loop ELSE Mapped(slot,
               level + 1)
        BY <2>1, <4>1 DEF Stack, Exists
      <4>. QED
        BY <2>4, <4>2, <4>3
    <3>. QED
      BY <3>1, <3>2
  <2>8. /\ arg'[p].layers = layers /\ my'[p].slot = slot /\ my'[p].built = built + 1
    BY <2>2 DEF layers, slot, built
  <2>9. Stack(my[p].slot, arg[p].layers - my[p].built, arg[p].layers, my[p].loop)'
    BY <2>2, <2>7, <2>8 DEF Stack, Exists
  <2>10. /\ layers - (built + 1) >= 0 /\ built + 1 # 0
         /\ built + 1 < layers <=> layers - (built + 1) > 0
    BY <2>1
  <2>. QED
    BY <2>1, <2>2, <2>3, <2>5, <2>6, <2>8, <2>9, <2>10 DEF BuiltAt
<1>4. CASE CreateFails(p)
  BY <1>4 DEF CreateFails, BuiltAt
<1>5. CASE TestDevice(p)
  BY <1>5, <1>a DEF TestDevice, system, BuiltAt
<1>6. CASE CheckPoint(p)
  BY <1>6, <1>a DEF CheckPoint, MountFails, system
<1>7. CASE MountFilesystem(p)
  <2>1. /\ my'[p].built = my[p].built /\ my'[p].device = my[p].device /\ my'[p].dir = my[p].dir
        /\ my'[p].loop = my[p].loop /\ my'[p].slot = my[p].slot
    BY <1>7 DEF MountFilesystem, Local
  <2>. QED
    BY <1>7, <1>a, <2>1 DEF MountFilesystem
<1>8. CASE MountFilesystemFails(p)
  BY <1>8, <1>a DEF MountFilesystemFails, MountFails, system, BuiltAt
<1>9. CASE SendAuxDeviceInfo(p)
  BY <1>9, <1>a DEF SendAuxDeviceInfo
<1>10. CASE SendFails(p)
  BY <1>10, <1>a DEF SendFails, system
<1>11. CASE UndoFilesystem(p)
  BY <1>11 DEF UndoFilesystem, BuiltAt
<1>. QED
  BY <1>1, <1>2, <1>3, <1>4, <1>5, <1>6, <1>7, <1>8, <1>9, <1>10, <1>11 DEF BuildSteps

\* File systems stay on devices that exist, in the slot of each, and a mount finds
\* the one it has mounted.
LEMMA FilesystemsOfStep ==
    ASSUME NEW p \in Callers, CalmStep(p)
    PROVE  Filesystems'
<1>. Calm /\ Step(p) /\ IInv' /\ Dirs' /\ ~half' /\ Listing'
  BY DEF CalmStep, Owned, IInv
<1>. pc \in [Callers -> Stages] /\ arg \in [Callers -> Request] /\ my \in [Callers -> Local] /\
     my[p] \in Local
  BY CalmFacts DEF Types, ControlTypes
<1>2. ASSUME NEW m \in Mounts'
      PROVE  m.device \in DOMAIN on' /\ (m.device[1] = "dm" => m.device[2] = m.slot)
  <2>1. CASE m \in Mounts
    <3>1. m.device \in DOMAIN on /\ (m.device[1] = "dm" => m.device[2] = m.slot)
      BY <2>1, CalmFacts DEF Filesystems, Exists
    <3>2. ~Loses(p, m.device)
      BY <2>1 DEF Loses, Mounts
    <3>. QED
      BY <3>1, <3>2, DevicesOfStep, CalmFacts
  <2>2. CASE MountFilesystem(p) /\ m = Entered(p)
    <3>1. pc[p] = "mountFs" /\ Exists(my[p].device) /\ on' = on
      BY <2>2 DEF MountFilesystem, CanMountFs, At
    <3>2. IsLoop(my[p].loop)
      BY <3>1, CalmFacts DEF Shape, Looped, Building
    <3>3. my[p].device = my[p].loop \/ my[p].device = Mapped(my[p].slot, 0)
      BY <3>1, BuiltFacts DEF Building
    <3>4. m.device = my[p].device /\ m.slot = my[p].slot
      BY <2>2 DEF Entered
    <3>5. my[p].device[1] = "dm" => my[p].device[2] = my[p].slot
      BY <3>2, <3>3 DEF IsLoop, Loop, Mapped
    <3>. QED
      BY <3>1, <3>4, <3>5 DEF Exists
  <2>. QED
    BY <2>1, <2>2, CalmFacts, MountsOfStep
<1>3. ASSUME NEW q \in Callers, q # p
      PROVE  pc'[q] = "confirm" \/ (pc'[q] = "send" /\ Native(q)') =>
                (arg'[q].files => Entered(q)' \in Mounts')
  <2>1. /\ pc'[q] = pc[q] /\ arg'[q] = arg[q] /\ my'[q] = my[q]
        /\ Native(q)' = Native(q) /\ Entered(q)' = Entered(q)
    BY <1>3, CalmFacts, OtherCaller DEF Native, Entered
  <2>3. ASSUME pc[q] = "confirm" \/ (pc[q] = "send" /\ Native(q)), arg[q].files
        PROVE  Entered(q) \in Mounts'
    <3>1. PICK e \in Services : ServiceOf(q, e)
      BY <2>3, CalmFacts, OwnService DEF HeldStages
    <3>2. e.volume # About(p) /\ e.slot = my[q].slot
      <4>1. e.volume = About(q) /\ e.slot = my[q].slot
        BY <2>3, <3>1, CalmFacts, OwnVolume DEF HeldStages, ServiceOf
      <4>2. About(q) # About(p)
        BY <1>3, <2>3, CalmFacts, OtherCaller
      <4>. QED
        BY <4>1, <4>2
    <3>3. Entered(q) \in Mounts /\ Entered(q).slot = e.slot
      BY <2>3, <3>2, CalmFacts DEF Filesystems, Entered
    <3>. QED
      BY <3>2, <3>3, MountSpared
  <2>. QED
    BY <2>1, <2>3
<1>4. pc'[p] = "confirm" \/ (pc'[p] = "send" /\ Native(p)') =>
         (arg'[p].files => Entered(p)' \in Mounts')
  <2>. USE DEF Goto, Set, Inside, At
  <2>1. CASE ~BuildSteps(p)
    BY <2>1, OnlyBuildSteps, CalmFacts DEF Building
  <2>2. CASE Attach(p)
    BY <2>2 DEF Attach, Native
  <2>3. CASE CreateDevice(p) \/ CreateFails(p) \/ MountFilesystemFails(p) \/ SendFails(p) \/
             UndoFilesystem(p)
    BY <2>3 DEF CreateDevice, CreateFails, MountFilesystemFails, MountFails, SendFails,
       UndoFilesystem
  <2>4. CASE TestDevice(p)
    BY <2>4 DEF TestDevice
  <2>5. CASE CheckPoint(p)
    BY <2>5 DEF CheckPoint, MountFails
  <2>6. CASE MountFilesystem(p)
    <3>1. my'[p].device = my[p].device /\ my'[p].slot = my[p].slot
      BY <2>6 DEF MountFilesystem, Local
    <3>. QED
      BY <2>6, <3>1, CalmFacts, MountsOfStep DEF Entered
  <2>7. CASE SendAuxDeviceInfo(p)
    <3>1. /\ my' = my /\ fs' = fs /\ arg' = arg /\ pc[p] = "send"
          /\ pc'[p] = IF ~Native(p) /\ arg[p].files THEN "checkPoint" ELSE "confirm"
      BY <2>7 DEF SendAuxDeviceInfo
    <3>2. Native(p) /\ arg[p].files => Entered(p) \in Mounts
      BY <3>1, CalmFacts DEF Filesystems
    <3>3. Entered(p)' = Entered(p) /\ Mounts' = Mounts
      BY <3>1 DEF Entered, Mounts
    <3>. QED
      BY <3>1, <3>2, <3>3
  <2>. QED
    BY <2>1, <2>2, <2>3, <2>4, <2>5, <2>6, <2>7 DEF BuildSteps
<1>. QED
  BY <1>2, <1>3, <1>4 DEF Filesystems, Exists

\* A volume whose mount has returned is not being unmounted.
LEMMA MountedIsLive ==
    ASSUME Calm, NEW e \in Services, e.state = "mounted"
    PROVE  Live(e)
<1>1. e.loop # None
  BY CalmFacts DEF Completed, Complete
<1>2. ~Gone(e)
  <2>. SUFFICES ASSUME NEW r \in Callers, pc[r] = "umountAux",
                       my[r].info.volume = e.volume PROVE FALSE
    BY DEF Gone
  <2>1. About(r) = e.volume
    BY CalmFacts DEF Roles, UnmountStages
  <2>2. PICK f \in Services : ServiceOf(r, f)
    BY CalmFacts, OwnService DEF UnmountStages
  <2>. QED
    BY <2>1, <2>2, CalmFacts, OwnVolume DEF UnmountStages
<1>. QED
  BY <1>1, <1>2 DEF Live

\* No step removes anything of a volume whose mount has returned.
LEMMA MountedSpared ==
    ASSUME Calm, NEW p \in Callers, Step(p), NEW e \in Services, e.state = "mounted"
    PROVE  /\ Live(e) /\ ~Loses(p, e.loop)
           /\ \A level : ~Loses(p, Mapped(e.slot, level))
           /\ \A m \in Mounts : m.slot = e.slot => m \in Mounts'
<1>3. Live(e)
  BY MountedIsLive
<1>4. CASE pc[p] \in HeldStages \cup UnmountStages
  <2>1. PICK f \in Services : ServiceOf(p, f)
    BY <1>4, CalmFacts, OwnService
  <2>2. e.volume # About(p)
    BY <1>4, <2>1, CalmFacts, OwnVolume
  <2>. QED
    BY <1>3, <2>2, LoopSpared, MappedSpared, MountSpared, CalmFacts
<1>5. CASE pc[p] \notin HeldStages \cup UnmountStages
  BY <1>3, <1>5, CalmFacts, MountsOfStep DEF Loses, HeldStages, UnmountStages
<1>. QED
  BY <1>4, <1>5

\* What a mount has built when its last command has succeeded is complete.
LEMMA BuiltIsComplete ==
    ASSUME Calm, NEW p \in Callers, pc[p] = "confirm", NEW e, ServiceOf(p, e)
    PROVE  Complete(e)
<1>1. /\ e.volume = arg[p].volume /\ e.slot = my[p].slot /\ e.dir = my[p].dir
      /\ e.files = arg[p].files /\ e.virtual = my[p].device /\ e.loop = my[p].loop
  BY DEF ServiceOf, HeldStages, Sent
<1>2. e.loop # None
  BY <1>1, CalmFacts, UnixMountAssumption DEF Roles, Building
<1>3. e.files => [device |-> e.virtual, slot |-> e.slot] \in Mounts
  BY <1>1, CalmFacts DEF Filesystems, Entered
<1>4. /\ arg[p].layers \in Nat /\ my[p].built = arg[p].layers
      /\ my[p].built = 0 => my[p].device = my[p].loop
      /\ my[p].built # 0 => my[p].device = Mapped(my[p].slot, 0)
      /\ Stack(my[p].slot, arg[p].layers - my[p].built, arg[p].layers, my[p].loop)
      /\ on[my[p].loop] = IF Native(p) THEN File(arg[p].volume) ELSE Image(my[p].dir)
  BY BuiltFacts DEF Building
<1>5. CASE arg[p].layers = 0
  BY <1>1, <1>2, <1>3, <1>4, <1>5 DEF Complete, Native
<1>6. CASE arg[p].layers # 0
  <2>1. arg[p].layers - my[p].built = 0 /\ arg[p].layers \in Nat \ {0} /\ Native(p)
    BY <1>4, <1>6 DEF Native
  <2>2. Stack(e.slot, 0, arg[p].layers, e.loop)
    BY <1>1, <1>4, <2>1
  <2>. QED
    BY <1>1, <1>2, <1>3, <1>4, <1>6, <2>1, <2>2 DEF Complete
<1>. QED
  BY <1>5, <1>6

\* A mounted volume stays complete, and is complete when its mount returns.
LEMMA CompletedOfStep ==
    ASSUME NEW p \in Callers, CalmStep(p)
    PROVE  Completed'
<1>. Calm /\ Step(p) /\ IInv' /\ Dirs' /\ ~half' /\ Listing'
  BY DEF CalmStep, Owned, IInv
<1>1. ASSUME NEW e \in Services, e.state = "mounted" PROVE Complete(e)'
  <2>1. /\ Complete(e) /\ Live(e) /\ ~Loses(p, e.loop)
        /\ \A level : ~Loses(p, Mapped(e.slot, level))
        /\ \A m \in Mounts : m.slot = e.slot => m \in Mounts'
    BY <1>1, MountedSpared, CalmFacts DEF Completed
  <2>2. on'[e.loop] = on[e.loop]
    <3>1. e.loop \in DOMAIN on
      BY <2>1, CalmFacts DEF Devised, Exists
    <3>. QED
      BY <2>1, <3>1, DevicesOfStep, CalmFacts
  <2>3. ASSUME NEW n, Stack(e.slot, 0, n, e.loop) PROVE Stack(e.slot, 0, n, e.loop)'
    <3>1. \A level \in 0 .. n - 1 :
             Mapped(e.slot, level) \in DOMAIN on' /\
             on'[Mapped(e.slot, level)] = on[Mapped(e.slot, level)]
      BY <2>1, <2>3, DevicesOfStep, CalmFacts DEF Stack, Exists
    <3>. QED
      BY <2>3, <3>1 DEF Stack, Exists
  <2>4. e.files => [device |-> e.virtual, slot |-> e.slot] \in Mounts'
    BY <2>1 DEF Complete
  <2>. QED
    BY <2>1, <2>2, <2>3, <2>4 DEF Complete
<1>2. ASSUME NEW e \in Services', e \notin Services, e.state = "mounted" PROVE Complete(e)'
  <2>1. NewService(p).state = "new"
    BY DEF NewService
  <2>2. \A f \in Service : \A d, l : f.state = "new" =>
        [f EXCEPT !.virtual = d, !.loop = l].state = "new"
    BY DEF Service
  <2>3. /\ Confirm(p) /\ pc[p] = "confirm"
        /\ \E f \in Services : /\ ServiceOf(p, f) /\ f.volume = About(p) /\ f \in Service
                               /\ e = [f EXCEPT !.state = "mounted"]
    <3>1. ~(FuseGains(p) /\ e = NewService(p))
      BY <1>2, <2>1
    <3>2. ~\E f \in Services : /\ f.state = "new" /\ f \in Service
                               /\ e = [f EXCEPT !.virtual = my[p].device, !.loop = my[p].loop]
      <4>. SUFFICES ASSUME NEW f \in Services, f.state = "new", f \in Service,
                           e = [f EXCEPT !.virtual = my[p].device, !.loop = my[p].loop]
                    PROVE  FALSE
        OBVIOUS
      <4>1. e.state = "new"
        BY <2>2, Zenon
      <4>. QED
        BY <1>2, <4>1
    <3>. QED
      BY <1>2, <3>1, <3>2, CalmFacts, NewServices, Zenon
  <2>4. PICK f \in Services : ServiceOf(p, f) /\ f \in Service /\ e = [f EXCEPT !.state = "mounted"]
    BY <2>3
  <2>5. /\ e.loop = f.loop /\ e.virtual = f.virtual /\ e.slot = f.slot /\ e.dir = f.dir
        /\ e.volume = f.volume /\ e.files = f.files
    BY <2>4 DEF Service
  <2>6. Complete(f)
    BY <2>3, <2>4, BuiltIsComplete
  <2>7. on' = on /\ fs' = fs
    BY <2>3 DEF Confirm
  <2>. QED
    BY <2>5, <2>6, <2>7 DEF Complete, Stack, Exists, Mounts
<1>. QED
  BY <1>1, <1>2 DEF Completed

\* What is found mounted for a service is in the slot of that service.
LEMMA InfoPoint ==
    ASSUME Calm, NEW e \in Services, ~Gone(e)
    PROVE  Info(e).point \in {None, e.slot}
<1>. DEFINE found == {i \in DOMAIN fs : fs[i].device = e.virtual}
<1>1. CASE found = {}
  BY <1>1 DEF Info
<1>2. CASE found # {}
  <2>1. found \in SUBSET Nat
    BY CalmFacts
  <2>2. PICK k \in found : k \in First(found)
    BY <1>2, <2>1, FirstIsThere DEF First
  <2>. DEFINE i == CHOOSE i \in found : i \in First(found)
  <2>3. i \in found
    BY <2>2
  <2>4. Info(e).point = fs[i].slot
    BY <1>2 DEF Info
  <2>. HIDE DEF i
  <2>5. fs[i] \in Mounts /\ fs[i].device = e.virtual /\ e.virtual # None
    <3>1. fs[i] \in Filesystem /\ fs[i].device = e.virtual
      BY <2>3, CalmFacts
    <3>. QED
      BY <2>3, <3>1, UnixMountAssumption DEF Filesystem, Mounts
  <2>6. Live(e) /\ e.virtual \in {e.loop, Mapped(e.slot, 0)}
    BY <2>5, CalmFacts DEF Named, Live
  <2>7. e.virtual = e.loop => fs[i].slot = e.slot
    BY <2>5, <2>6, CalmFacts DEF Devised
  <2>8. e.virtual = Mapped(e.slot, 0) => fs[i].slot = e.slot
    BY <2>5, CalmFacts DEF Filesystems, Mapped
  <2>. QED
    BY <2>4, <2>6, <2>7, <2>8
<1>. QED
  BY <1>1, <1>2

\* What an unmount has found mounted stays what it is.
LEMMA PointedOfStep ==
    ASSUME NEW p \in Callers, CalmStep(p)
    PROVE  Pointed'
<1>. Calm /\ Owned /\ Step(p) /\ IInv'
  BY CalmFacts DEF CalmStep, Owned
<1>. pc \in [Callers -> Stages] /\ arg \in [Callers -> Request] /\ my \in [Callers -> Local] /\
     my[p] \in Local
  BY OwnedFacts DEF Types, ControlTypes
<1>. SUFFICES ASSUME NEW q \in Callers, NEW f \in Services', pc'[q] \in UnmountStages,
                     ServiceOf(q, f)'
              PROVE  my'[q].info.point \in {None, f.slot}
  BY DEF Pointed
<1>1. CASE q # p
  <2>1. pc'[q] = pc[q] /\ arg'[q] = arg[q] /\ my'[q] = my[q] /\ About(q) # About(p)
    BY <1>1, OtherCaller DEF UnmountStages
  <2>2. f.volume = About(q)
    BY <2>1, OwnedFacts DEF ServiceOf, Roles
  <2>3. f \in Services
    BY <2>1, <2>2, OthersServices
  <2>4. ServiceOf(q, f)
    BY <2>1, <2>3 DEF ServiceOf, Sent, NotSent, Native, Mounting
  <2>. QED
    BY <2>1, <2>3, <2>4, CalmFacts DEF Pointed
<1>2. CASE q = p
  <2>. USE DEF Goto, Set, Inside, At, Return, End
  <2>1. CASE Recall(p)
    <3>1. pc[p] = "recall" /\ arg' = arg /\ fuse' = fuse
      BY <1>2, <2>1 DEF Recall, system, UnmountStages
    <3>2. PICK i \in First(Listed(arg[p].volume)) : my'[p] = [my[p] EXCEPT !.info = Info(fuse[i])]
      BY <1>2, <2>1, <3>1 DEF Recall, UnmountStages
    <3>3. i \in DOMAIN fuse /\ fuse[i].volume = arg[p].volume /\ fuse[i] \in Services
      BY <3>2, OwnedFacts DEF First, Listed
    <3>4. my'[p].info = Info(fuse[i])
      BY <3>2 DEF Local
    <3>5. f \in Services /\ f.volume = fuse[i].volume
      BY <1>2, <3>1, <3>4 DEF ServiceOf, Services, Info
    <3>6. f = fuse[i]
      BY <3>3, <3>5, OwnedFacts, SameService
    <3>7. Mounting(p) /\ About(p) = arg[p].volume
      BY <3>1, OwnedFacts DEF Roles, MountStages, HeldStages, About
    <3>8. ~Gone(fuse[i])
      BY <3>1, <3>3, <3>7, OwnNotGone
    <3>. QED
      BY <1>2, <3>3, <3>4, <3>6, <3>8, InfoPoint
  <2>2. CASE ~Recall(p)
    <3>1. pc[p] \in UnmountStages /\ arg' = arg /\ my' = my /\ fuse' = fuse
      <4>1. CASE UmountFilesystem(p) \/ RemoveDevices(p) \/ DetachLoop(p)
        BY <1>2, <4>1 DEF UmountFilesystem, RemoveDevices, DetachLoop, UnmountStages
      <4>2. CASE UmountAux(p) \/ Confirm(p) \/ DropDirectory(p)
        BY <1>2, <4>2 DEF UmountAux, Confirm, DropDirectory, UnmountStages
      <4>3. CASE FuseServiceFails(p) \/ CoalesceSlotNumberAndMountPoint(p) \/ CheckMounted(p) \/
                 OpenFails(p)
        BY <1>2, <4>3 DEF FuseServiceFails, CoalesceSlotNumberAndMountPoint, CheckMounted,
           OpenFails,
           UnmountStages
      <4>4. CASE Scan(p) \/ ClearDirectory(p) \/ MakeDirectory(p) \/ FuseServiceMount(p) \/
                 MakePoint(p) \/ Attach(p) \/ AttachFails(p)
        BY <1>2, <4>4 DEF Scan, ClearDirectory, MakeDirectory, TryNextDir, FuseServiceMount,
           MakePoint, Attach, AttachFails, UnmountStages
      <4>5. CASE CreateDevice(p) \/ CreateFails(p) \/ TestDevice(p) \/ CheckPoint(p) \/
                 MountFilesystem(p) \/ MountFilesystemFails(p) \/ SendAuxDeviceInfo(p)
        BY <1>2, <4>5 DEF CreateDevice, CreateFails, TestDevice, CheckPoint, MountFilesystem,
           MountFilesystemFails, MountFails, SendAuxDeviceInfo, UnmountStages
      <4>6. CASE SendFails(p) \/ UndoFilesystem(p) \/ UndoDevice(p) \/ UndoLoop(p) \/ DropPoint(p)
        BY <1>2, <4>6 DEF SendFails, UndoFilesystem, UndoDevice, UndoLoop, DropPoint, UnmountStages
      <4>. QED
        BY <2>2, <4>1, <4>2, <4>3, <4>4, <4>5, <4>6 DEF Step
    <3>2. f \in Services /\ ServiceOf(p, f)
      BY <1>2, <3>1 DEF ServiceOf, Services, Sent, NotSent, Native, Mounting, HeldStages,
         UnmountStages
    <3>. QED
      BY <1>2, <3>1, <3>2, CalmFacts DEF Pointed
  <2>. QED
    BY <2>1, <2>2
<1>. QED
  BY <1>1, <1>2

\* Whether an unmount has failed late is never forgotten.
LEMMA HalfStays ==
    ASSUME NEW p \in Callers, Step(p), ~half'
    PROVE  ~half
<1>. USE DEF Inside, Return
<1>1. CASE CoalesceSlotNumberAndMountPoint(p) \/ CheckMounted(p) \/ OpenFails(p) \/ Scan(p) \/
           ClearDirectory(p) \/ MakeDirectory(p) \/ FuseServiceMount(p) \/ FuseServiceFails(p)
  BY <1>1 DEF CoalesceSlotNumberAndMountPoint, CheckMounted, OpenFails, Scan, ClearDirectory,
     MakeDirectory, FuseServiceMount, FuseServiceFails
<1>2. CASE DropDirectory(p) \/ MakePoint(p) \/ Attach(p) \/ AttachFails(p) \/ CreateDevice(p) \/
           CreateFails(p) \/ TestDevice(p)
  BY <1>2 DEF DropDirectory, MakePoint, Attach, AttachFails, CreateDevice, CreateFails, TestDevice
<1>3. CASE CheckPoint(p) \/ MountFilesystem(p) \/ MountFilesystemFails(p) \/
           SendAuxDeviceInfo(p) \/ SendFails(p) \/ Confirm(p) \/ UndoFilesystem(p) \/ UndoDevice(p)
  BY <1>3 DEF CheckPoint, MountFilesystem, MountFilesystemFails, SendAuxDeviceInfo, SendFails,
     Confirm, UndoFilesystem, UndoDevice
<1>4. CASE UndoLoop(p) \/ DropPoint(p) \/ Recall(p) \/ UmountFilesystem(p) \/ RemoveDevices(p) \/
           DetachLoop(p) \/ UmountAux(p)
  BY <1>4 DEF UndoLoop, DropPoint, Recall, UmountFilesystem, RemoveDevices, DetachLoop, UmountAux
<1>. QED
  BY <1>1, <1>2, <1>3, <1>4 DEF Step

\* A step keeps the third invariant.
LEMMA SoundOfStep ==
    ASSUME IInv, OInv, SInv, NEW p \in Callers, Step(p)
    PROVE  SInv'
<1>1. OInv' /\ IInv'
  BY OwnersOfStep, StepKeeps
<1>2. ASSUME ~overlapped', ~half' PROVE Sound'
  <2>1. ~overlapped /\ ~half
    BY <1>2, AboutStays, HalfStays DEF IInv
  <2>2. CalmStep(p)
    BY <1>1, <1>2, <2>1 DEF CalmStep, Calm, Owned, SInv, OInv
  <2>3. Built'
    BY <2>2, BuiltOfOwn, BuiltOfOther DEF Built
  <2>. QED
    BY <2>2, <2>3, PointedOfStep, DevisedOfStep, HeldOfStep, FilesystemsOfStep, CompletedOfStep
       DEF Sound
<1>. QED
  BY <1>2 DEF SInv

\* A mount that starts, like a step that changes nothing, leaves all of this alone.
LEMMA SoundWhenSame ==
    ASSUME Sound, fuse' = fuse, on' = on, fs' = fs, \A q \in Callers : Same(q) \/ Begins(q)
    PROVE  Sound'
<1>1. Services' = Services /\ Mounts' = Mounts /\ \A d : Exists(d)' <=> Exists(d)
  BY DEF Services, Mounts, Exists
<1>2. \A e : Live(e)' <=> Live(e)
  BY DEF Live, Gone, Same, Begins
<1>3. \A slot, from, to, loop : Stack(slot, from, to, loop)' <=> Stack(slot, from, to, loop)
  BY DEF Stack, Exists
<1>4. ASSUME NEW q \in Callers, pc'[q] \in HeldStages \cup UnmountStages
      PROVE  Same(q)
  BY <1>4 DEF HeldStages, UnmountStages, Begins
<1>5. Pointed'
  <2>. SUFFICES ASSUME NEW q \in Callers, NEW e \in Services', pc'[q] \in UnmountStages,
                       ServiceOf(q, e)'
                PROVE  my'[q].info.point \in {None, e.slot}
    BY DEF Pointed
  <2>1. Same(q)
    BY <1>4
  <2>2. ServiceOf(q, e)
    BY <1>1, <2>1 DEF ServiceOf, Sent, NotSent, Native, Mounting, Same
  <2>. QED
    BY <1>1, <2>1, <2>2 DEF Sound, Pointed, Same
<1>6. Devised'
  BY <1>1, <1>2 DEF Sound, Devised
<1>7. Held'
  <2>. SUFFICES ASSUME NEW q \in Callers, pc'[q] \in Looped
                PROVE  /\ my'[q].loop \in DOMAIN on'
                       /\ \A m \in Mounts' : m.device = my'[q].loop => m.slot = my'[q].slot
                       /\ \A e \in Services' : Live(e)' /\ e.loop = my'[q].loop =>
                          e.volume = arg'[q].volume
    BY DEF Held, Exists
  <2>1. Same(q)
    BY <1>4 DEF Looped, Building, HeldStages
  <2>. QED
    BY <1>1, <1>2, <2>1 DEF Sound, Held, Exists, Same
<1>8. Built'
  <2>. SUFFICES ASSUME NEW q \in Callers PROVE BuiltAt(q)'
    BY DEF Built
  <2>1. CASE Same(q)
    BY <1>3, <2>1 DEF Sound, Built, BuiltAt, Native, Stack, Exists, Same
  <2>2. CASE ~Same(q)
    BY <2>2 DEF BuiltAt, Building, Begins
  <2>. QED
    BY <2>1, <2>2
<1>9. Filesystems'
  <2>1. ASSUME NEW q \in Callers
        PROVE  pc'[q] = "confirm" \/ (pc'[q] = "send" /\ Native(q)') =>
                  (arg'[q].files => Entered(q)' \in Mounts')
    <3>1. CASE Same(q)
      BY <1>1, <3>1 DEF Sound, Filesystems, Entered, Native, Same
    <3>2. CASE ~Same(q)
      BY <3>2 DEF Begins
    <3>. QED
      BY <3>1, <3>2
  <2>. QED
    BY <1>1, <2>1 DEF Sound, Filesystems, Exists
<1>10. Completed'
  BY <1>1, <1>3 DEF Sound, Completed, Complete
<1>. QED
  BY <1>5, <1>6, <1>7, <1>8, <1>9, <1>10 DEF Sound

\* So does an unmount that starts: what it marks is its own.
LEMMA SoundOfDismount ==
    ASSUME Calm, IInv', Dirs', ~overlapped', NEW p \in Callers, NEW old, NEW new,
           Chosen(p, old, new)
    PROVE  Sound'
<1>. USE DEF Chosen
<1>1. /\ Mounts' = Mounts /\ \A d : Exists(d)' <=> Exists(d)
  BY DEF Mounts, Exists
<1>2. ASSUME NEW e \in Services' PROVE e = new \/ (e \in Services /\ e # old)
  BY <1>2
<1>3. Marked(old, new)
  OBVIOUS
<1>5. \A e : Gone(e)' <=> Gone(e)
  BY DEF Gone, Same
<1>6. \A e : Live(e)' <=> Live(e)
  BY <1>5 DEF Live
<1>7. Live(new) <=> Live(old)
  BY <1>3 DEF Live, Gone, Marked
<1>8. Pointed'
  <2>. SUFFICES ASSUME NEW q \in Callers, NEW e \in Services', pc'[q] \in UnmountStages,
                       ServiceOf(q, e)'
                PROVE  my'[q].info.point \in {None, e.slot}
    BY DEF Pointed
  <2>1. CASE q = p
    <3>1. ~Gone(old)
      <4>. SUFFICES ASSUME NEW r \in Callers, pc[r] = "umountAux",
                           my[r].info.volume = old.volume PROVE FALSE
        BY DEF Gone
      <4>1. r # p /\ About(r) = old.volume
        BY CalmFacts DEF Roles, UnmountStages
      <4>. QED
        BY <4>1
    <3>2. Info(old).point \in {None, old.slot} /\ my'[p].info = Info(old)
      BY <1>3, <3>1, InfoPoint DEF Marked
    <3>3. e.volume = old.volume
      BY <2>1 DEF ServiceOf, Info
    <3>4. e = new
      BY <1>3, <3>3, SameServiceAfter DEF IInv, Marked
    <3>. QED
      BY <1>3, <2>1, <3>2, <3>4 DEF Marked
  <2>2. CASE q # p
    <3>1. Same(q) /\ pc[q] \in UnmountStages /\ About(q) # old.volume
      BY <2>2 DEF Same, UnmountStages
    <3>2. e.volume = About(q)
      BY <3>1, CalmFacts DEF ServiceOf, Roles, Same
    <3>3. e \in Services
      BY <1>2, <1>3, <3>1, <3>2 DEF Marked
    <3>4. ServiceOf(q, e)
      BY <3>1, <3>3 DEF ServiceOf, Sent, NotSent, Native, Mounting, Same
    <3>. QED
      BY <3>1, <3>3, <3>4, CalmFacts DEF Pointed, Same
  <2>. QED
    BY <2>1, <2>2
<1>9. Devised'
  <2>. SUFFICES ASSUME NEW e \in Services'
                PROVE  Live(e) =>
                          /\ Exists(e.loop)
                          /\ \A m \in Mounts : m.device = e.loop => m.slot = e.slot
                          /\ \A f \in Services' : Live(f) /\ f.loop = e.loop => f = e
    BY <1>1, <1>6 DEF Devised
  <2>1. PICK a \in Services : /\ a.volume = e.volume /\ a.slot = e.slot
                              /\ a.loop = e.loop /\ (Live(e) <=> Live(a))
    BY <1>2, <1>3, <1>7 DEF Marked
  <2>2. ASSUME NEW f \in Services', Live(f), f.loop = e.loop, Live(e) PROVE f = e
    <3>1. PICK b \in Services : b.volume = f.volume /\ b.loop = f.loop /\ Live(b)
      BY <1>2, <1>3, <1>7, <2>2 DEF Marked
    <3>2. a = b
      BY <2>1, <2>2, <3>1, CalmFacts DEF Devised
    <3>. QED
      BY <2>1, <3>1, <3>2, SameServiceAfter DEF IInv
  <2>. QED
    BY <2>1, <2>2, CalmFacts DEF Devised
<1>10. Held'
  <2>. SUFFICES ASSUME NEW q \in Callers, pc'[q] \in Looped
                PROVE  /\ my'[q].loop \in DOMAIN on'
                       /\ \A m \in Mounts' : m.device = my'[q].loop => m.slot = my'[q].slot
                       /\ \A e \in Services' : Live(e)' /\ e.loop = my'[q].loop =>
                          e.volume = arg'[q].volume
    BY DEF Held, Exists
  <2>1. pc'[q] = pc[q] /\ arg'[q] = arg[q] /\ my'[q] = my[q]
    BY DEF Looped, Building, Same
  <2>2. /\ Exists(my[q].loop)
        /\ \A m \in Mounts : m.device = my[q].loop => m.slot = my[q].slot
        /\ \A e \in Services : Live(e) /\ e.loop = my[q].loop => e.volume = arg[q].volume
    BY <2>1, CalmFacts DEF Held
  <2>3. \A e \in Services' : \E a \in Services : a.volume = e.volume /\ a.loop = e.loop /\
        (Live(e) <=> Live(a))
    BY <1>2, <1>3, <1>7 DEF Marked
  <2>. QED
    BY <1>1, <1>6, <2>1, <2>2, <2>3 DEF Exists
<1>11. Built'
  <2>. SUFFICES ASSUME NEW q \in Callers PROVE BuiltAt(q)'
    BY DEF Built
  <2>1. CASE q # p
    <3>1. \A slot, from, to, loop : Stack(slot, from, to, loop)' <=> Stack(slot, from, to, loop)
      BY DEF Stack, Exists
    <3>. QED
      BY <2>1, <3>1, CalmFacts DEF Built, BuiltAt, Native, Stack, Exists, Same
  <2>2. CASE q = p
    BY <2>2 DEF BuiltAt, Building
  <2>. QED
    BY <2>1, <2>2
<1>12. Filesystems'
  <2>1. ASSUME NEW q \in Callers
        PROVE  pc'[q] = "confirm" \/ (pc'[q] = "send" /\ Native(q)') =>
                  (arg'[q].files => Entered(q)' \in Mounts')
    <3>1. CASE q # p
      BY <1>1, <3>1, CalmFacts DEF Filesystems, Entered, Native, Same
    <3>2. CASE q = p
      BY <3>2
    <3>. QED
      BY <3>1, <3>2
  <2>. QED
    BY <1>1, <2>1, CalmFacts DEF Filesystems, Exists
<1>13. Completed'
  <2>1. \A e \in Services' : e.state = "mounted" => e \in Services
    BY <1>2, <1>3 DEF Marked
  <2>2. \A e \in Services : e.state = "mounted" => Complete(e)
    BY CalmFacts DEF Completed
  <2>. QED
    BY <1>1, <2>1, <2>2 DEF Completed, Complete, Stack, Exists
<1>. QED
  BY <1>8, <1>9, <1>10, <1>11, <1>12, <1>13 DEF Sound

\* The third invariant holds at the start.
LEMMA SoundAtFirst == Init => SInv
<1>. SUFFICES ASSUME Init PROVE SInv
  OBVIOUS
<1>1. fuse = <<>> /\ fs = <<>> /\ \A p \in Callers : pc[p] = "idle"
  BY DEF Init
<1>2. Services = {} /\ Mounts = {}
  BY <1>1 DEF Services, Mounts
<1>3. Pointed /\ Devised /\ Held /\ Completed
  BY <1>1, <1>2 DEF Pointed, Devised, Held, Looped, Building, Completed
<1>4. Built
  BY <1>1 DEF Built, BuiltAt, Building
<1>5. Filesystems
  BY <1>1, <1>2 DEF Filesystems
<1>. QED
  BY <1>3, <1>4, <1>5 DEF SInv, Sound

\* Every step keeps the third invariant.
LEMMA NextKeepsSound == IInv /\ OInv /\ SInv /\ [Next]_vars => SInv'
<1>. SUFFICES ASSUME IInv, OInv, SInv, [Next]_vars PROVE SInv'
  OBVIOUS
<1>1. IInv' /\ OInv'
  BY NextKeeps, NextKeepsOwners
<1>2. ASSUME NEW p \in Callers, NEW v \in Volumes, NEW layers \in Layers, NEW files \in Files,
             MountVolume(p, v, layers, files)
      PROVE  SInv'
  BY <1>2, StartOfMount, SoundWhenSame DEF SInv
<1>3. ASSUME NEW p \in Callers, NEW i \in DOMAIN fuse, DismountVolume(p, i) PROVE SInv'
  <2>. SUFFICES ASSUME ~overlapped', ~half' PROVE Sound'
    BY DEF SInv
  <2>1. PICK old, new : Chosen(p, old, new)
    BY <1>3, StartOfDismount DEF OInv
  <2>2. Calm
    BY <2>1 DEF Chosen, Calm, Owned, OInv, SInv
  <2>. QED
    BY <1>1, <2>1, <2>2, SoundOfDismount DEF OInv
<1>4. CASE UNCHANGED vars
  <2>1. /\ fuse' = fuse /\ on' = on /\ fs' = fs /\ pc' = pc /\ arg' = arg /\ my' = my
        /\ overlapped' = overlapped /\ half' = half
    BY <1>4 DEF vars, system, ghosts
  <2>2. \A q \in Callers : Same(q)
    BY <2>1 DEF Same
  <2>. QED
    BY <2>1, <2>2, SoundWhenSame DEF SInv
<1>. QED
  BY <1>2, <1>3, <1>4, SoundOfStep DEF Next

\* Where no calls at odds have overlapped, every caller past the start of its mount has
\* its own service and directory; and where, besides, no unmount has failed halfway, its
\* own loop device and cascade, every loop device has one service, and every volume
\* whose mount has returned has all its devices and its file system.
THEOREM Soundness == Spec => [](IInv /\ OInv /\ SInv)
<1>1. Init => IInv /\ OInv /\ SInv
  BY InitHolds, OwnersAtFirst, SoundAtFirst
<1>2. IInv /\ OInv /\ SInv /\ [Next]_vars => (IInv /\ OInv /\ SInv)'
  BY NextKeeps, NextKeepsOwners, NextKeepsSound
<1>. QED
  BY <1>1, <1>2, PTL DEF Spec

\* What a completed mount has built reads, through all its devices, as the file
\* of its volume.
LEMMA CompleteIsWhole ==
    ASSUME Calm, NEW e \in Services, e.state = "mounted"
    PROVE  Whole(e)
<1>1. Complete(e) /\ Exists(e.loop)
  <2>1. Live(e)
    BY MountedIsLive
  <2>. QED
    BY <2>1, CalmFacts DEF Completed, Devised
<1>2. ASSUME NEW x, on[e.loop] = x PROVE Over(e.loop, x)
  BY <1>1, <1>2 DEF Over, Under, Exists
<1>3. e.files => \E i \in DOMAIN fs : fs[i] = [device |-> e.virtual, slot |-> e.slot]
  BY <1>1 DEF Complete, Mounts
<1>4. CASE e.virtual = e.loop /\ on[e.loop] = Image(e.dir)
  BY <1>2, <1>3, <1>4 DEF Whole, Lists
<1>5. CASE /\ e.virtual = Mapped(e.slot, 0) /\ on[e.loop] = File(e.volume)
           /\ \E n \in Nat \ {0} : Stack(e.slot, 0, n, e.loop)
  <2>1. PICK n \in Nat \ {0} : Stack(e.slot, 0, n, e.loop)
    BY <1>5
  <2>. DEFINE top == Mapped(e.slot, 0)
              low == Mapped(e.slot, n - 1)
  <2>2. \A level \in 0 .. n - 2 :
           Exists(Mapped(e.slot, level)) /\ on[Mapped(e.slot, level)] = Mapped(e.slot, level + 1)
    BY <2>1 DEF Stack
  <2>3. Exists(top) /\ Exists(low) /\ on[low] = e.loop
    <3>1. 0 \in 0 .. n - 1 /\ n - 1 \in 0 .. n - 1
      BY <2>1
    <3>. QED
      BY <2>1, <3>1 DEF Stack
  <2>4. Under(top, low)
    <3>1. CASE n = 1
      BY <3>1 DEF Under
    <3>2. CASE n # 1
      <4>1. n - 1 > 0 /\ n - 1 - 1 = n - 2
        BY <2>1, <3>2
      <4>2. /\ top[1] = "dm" /\ low[1] = "dm" /\ top[2] = e.slot /\ low[2] = e.slot
            /\ top[3] = 0 /\ low[3] = n - 1
        BY DEF Mapped
      <4>. QED
        BY <2>2, <4>1, <4>2 DEF Under
    <3>. QED
      BY <3>1, <3>2
  <2>5. Over(top, File(e.volume))
    BY <1>1, <1>5, <2>3, <2>4 DEF Over, Exists
  <2>. QED
    BY <1>2, <1>3, <1>5, <2>5 DEF Whole, Lists
<1>. QED
  BY <1>1, <1>4, <1>5 DEF Complete

\* A volume whose mount has returned keeps its devices, over its own file, and its
\* file system until it is itself unmounted, whatever other mounts and unmounts
\* fail or are undone: DismountNativeVolume, MountVolumeNative and DismountVolume
\* take only what belongs to the slot or the service of their own volume; as long
\* as no calls that are at odds have overlapped and no unmount has failed after it
\* detached its loop device.
THEOREM MountedIsKept == Spec => []MountedStaysWhole
<1>1. IInv /\ OInv /\ SInv => MountedStaysWhole
  <2>. SUFFICES ASSUME IInv, OInv, SInv, ~overlapped, ~half, NEW i \in DOMAIN fuse,
                       fuse[i].state = "mounted"
                PROVE  Whole(fuse[i])
    BY DEF MountedStaysWhole
  <2>1. Calm
    BY DEF Calm, Owned, OInv, SInv
  <2>2. fuse[i] \in Services
    BY DEF Services
  <2>. QED
    BY <2>1, <2>2, CompleteIsWhole
<1>. QED
  BY <1>1, Soundness, PTL

-----------------------------------------------------------------------------
(* The fourth invariant: what each device is for *)

\* A loop device over a volume; or over the image that a mounted service shows.
OverFile(b, v) == b \in DOMAIN on /\ IsLoop(b) /\ on[b] = File(v)
OverImage(d)   == IsLoop(d) /\ \E i \in Nat : on[d] = Image(i) /\ FuseOn(i)

\* A device is one of these, or one of a cascade over the former.
Rooted ==
    \A d \in DOMAIN on :
        \/ OverImage(d)
        \/ \E v \in Volumes : OverFile(d, v)
        \/ \E v \in Volumes, s \in Nat, l \in Nat, n \in Nat, b \in DOMAIN on :
              d = Mapped(s, l) /\ l < n /\ Stack(s, l, n, b) /\ OverFile(b, v)

\* A file system is on the upper device of its slot, or on a loop device over an image.
Placed ==
    \A m \in Mounts :
        /\ Exists(m.device)
        /\ \/ m.device = Mapped(m.slot, 0)
           \/ IsLoop(m.device) /\ \E i \in Nat : on[m.device] = Image(i)

\* A mount that is over an image has no file system until its last step but one, and when
\* it is undone has none.
Cleared(p) == pc[p] \in {"dropPoint", "recall"} \cup UnmountStages

Clear ==
    \A p \in Callers :
        /\ ~Native(p) /\ pc[p] \in Looped \ {"confirm"} => \A m \in Mounts : m.device # my[p].loop
        /\ Mounting(p) /\ Cleared(p) => \A e \in Services : e.volume = arg[p].volume =>
              e.virtual = e.loop /\ \A m \in Mounts : m.device # e.loop
        /\ Mounting(p) /\ pc[p] \in UnmountStages => my[p].info.point = None

\* What the loop device of a mount is over.
Mine ==
    \A p \in Callers : pc[p] \in Looped /\ Exists(my[p].loop) =>
        on[my[p].loop] = IF Native(p) THEN File(arg[p].volume) ELSE Image(my[p].dir)

\* The device is of the slot, with all above it.
Reaches(slot, d) == \E l \in Nat : d = Mapped(slot, l) /\ \A k \in 0 .. l : Exists(Mapped(slot, k))

\* The service knows the loop device, and the cascade that DismountNativeVolume will
\* remove is all that is over it.
Kept(e, b) ==
    /\ e.loop = b /\ e.virtual = Mapped(e.slot, 0)
    /\ \A d \in UsedBy(b) : Reaches(e.slot, d)
    /\ \A r \in Callers :
        /\ pc[r] = "detach" /\ my[r].info.volume = e.volume => UsedBy(b) = {}
        /\ pc[r] = "umountAux" => my[r].info.volume # e.volume

\* The mount that has attached the loop device will tell its service, or undo it: what is
\* over it is what the mount has built so far, and in time nothing.
Made(p, v, b) ==
    /\ pc[p] \in Looped \ {"confirm"} /\ Native(p) /\ arg[p].volume = v /\ my[p].loop = b
    /\ \A d \in UsedBy(b) :
        /\ my[p].built > 0 /\ pc[p] # "undoLoop"
        /\ pc[p] \in Building =>
              /\ d = Mapped(my[p].slot, arg[p].layers - 1)
              /\ \A k \in arg[p].layers - my[p].built .. arg[p].layers - 1 :
                    Exists(Mapped(my[p].slot, k))
        /\ pc[p] \in {"undoFs", "undoDevice"} =>
              my[p].device = Mapped(my[p].slot, 0) /\ Reaches(my[p].slot, d)

\* A loop device over a volume is in the care of the service or of the mount, unless
\* something of the volume has been left.
Claimed ==
    \A v \in Volumes \ leaked, b \in DOMAIN on : on[b] = File(v) =>
        \/ \E e \in Services : e.volume = v /\ Kept(e, b)
        \/ \E p \in Callers : Made(p, v, b)

\* A service whose mount is not complete is that of a caller.
Begun ==
    \A e \in Services : e.state = "new" /\ e.volume \notin leaked =>
        \E p \in Callers : arg[p].volume = e.volume /\ pc[p] \in HeldStages \cup UnmountStages

\* A loop device over the image of a mount's service is the one it has attached, and
\* when the service is unmounted there is none.
Attached(p, e, b) ==
    /\ ~Native(p)
    /\ \/ pc[p] \in Looped /\ b = my[p].loop
       \/ pc[p] \in {"dropPoint", "recall", "umount", "remove", "detach"} /\ b = e.loop

Unfinished(p, e) ==
    /\ Mounting(p) /\ pc[p] \in HeldStages \cup UnmountStages
    /\ e.volume = arg[p].volume /\ e.volume \notin leaked

Shown ==
    \A p \in Callers, e \in Services :
        Unfinished(p, e) => \A b \in UsedBy(Image(e.dir)) : Attached(p, e, b)

\* The fourth invariant; it holds also after an unmount has failed.
Tended == Rooted /\ Placed /\ Clear /\ Mine /\ Claimed /\ Begun /\ Shown
AInv   == ~overlapped => Tended

\* What a device is over says what it is.
LEMMA RootedFacts ==
    ASSUME Rooted, NEW d \in DOMAIN on
    PROVE  /\ \A v : on[d] = File(v) => IsLoop(d) /\ v \in Volumes
           /\ \A i : on[d] = Image(i) => IsLoop(d) /\ FuseOn(i)
           /\ IsLoop(on[d]) => on[d] \in DOMAIN on /\ \E v \in Volumes : on[on[d]] = File(v)
           /\ \A s, k : on[d] = Mapped(s, k) => on[d] \in DOMAIN on /\ k \in Nat \ {0} /\
                                               d = Mapped(s, k - 1)
<1>. USE DEF File, Image, IsLoop, Loop, Mapped
<1>1. CASE OverImage(d)
  BY <1>1 DEF OverImage
<1>2. ASSUME NEW v \in Volumes, OverFile(d, v)
      PROVE  /\ on[d] = File(v) /\ IsLoop(d)
  BY <1>2 DEF OverFile
<1>3. ASSUME NEW v \in Volumes, NEW s \in Nat, NEW l \in Nat, NEW n \in Nat, NEW b \in DOMAIN on,
             d = Mapped(s, l), l < n, Stack(s, l, n, b), OverFile(b, v)
      PROVE  \/ on[d] = b /\ IsLoop(b) /\ b \in DOMAIN on /\ on[b] = File(v)
             \/ on[d] = Mapped(s, l + 1) /\ Mapped(s, l + 1) \in DOMAIN on
  <2>1. l \in l .. n - 1
    BY <1>3
  <2>2. on[d] = IF l = n - 1 THEN b ELSE Mapped(s, l + 1)
    BY <1>3, <2>1 DEF Stack
  <2>3. CASE l = n - 1
    BY <1>3, <2>2, <2>3 DEF OverFile
  <2>4. CASE l # n - 1
    <3>1. l + 1 \in l .. n - 1
      BY <1>3, <2>4
    <3>2. Exists(Mapped(s, l + 1))
      BY <1>3, <3>1 DEF Stack
    <3>. QED
      BY <2>2, <2>4, <3>2 DEF Exists
  <2>. QED
    BY <2>3, <2>4
<1>4. CASE \E v \in Volumes : OverFile(d, v)
  BY <1>2, <1>4
<1>5. CASE \E v \in Volumes, s \in Nat, l \in Nat, n \in Nat, b \in DOMAIN on :
              d = Mapped(s, l) /\ l < n /\ Stack(s, l, n, b) /\ OverFile(b, v)
  <2>1. PICK v \in Volumes, s \in Nat, l \in Nat, n \in Nat, b \in DOMAIN on :
              d = Mapped(s, l) /\ l < n /\ Stack(s, l, n, b) /\ OverFile(b, v)
    BY <1>5
  <2>2. CASE on[d] = b /\ IsLoop(b) /\ b \in DOMAIN on /\ on[b] = File(v)
    BY <2>2
  <2>3. CASE on[d] = Mapped(s, l + 1) /\ Mapped(s, l + 1) \in DOMAIN on
    BY <2>1, <2>3
  <2>. QED
    BY <1>3, <2>1, <2>2, <2>3
<1>. QED
  BY <1>1, <1>4, <1>5 DEF Rooted

\* What a device is over, if not a volume or an image, exists.
LEMMA UnusedIfNew ==
    ASSUME Rooted, NEW b, ~Exists(b), IsLoop(b) \/ \E s, k : b = Mapped(s, k)
    PROVE  UsedBy(b) = {}
BY RootedFacts DEF UsedBy, Exists

\* What DismountNativeVolume removes is removed with what is over it.
LEMMA RemovableIsClosed ==
    ASSUME Types, Rooted, NEW x, NEW d \in DOMAIN on, on[d] \in Removable(x)
    PROVE  d \in Removable(x)
<1>1. PICK e \in Removable(x) : on[d] = e
  OBVIOUS
<1>2. /\ e \in Chain(x) /\ e \in DOMAIN on /\ e \in Devices /\ e[1] = "dm"
      /\ \A f \in Chain(x) : f[3] <= e[3] =>
            /\ \A i \in DOMAIN fs : fs[i].device # f
            /\ UsedBy(f) \subseteq Chain(x)
  BY DEF Removable, Chain, Types, TableTypes
<1>3. e[3] <= e[3] /\ e[3] \in Nat
  BY <1>2 DEF Devices
<1>4. d \in Chain(x)
  BY <1>1, <1>2, <1>3 DEF UsedBy
<1>5. e = Mapped(e[2], e[3])
  BY <1>2 DEF Devices, Mapped
<1>6. d = Mapped(e[2], e[3] - 1)
  BY <1>1, <1>5, RootedFacts
<1>7. d[3] = e[3] - 1
  BY <1>6 DEF Mapped
<1>8. ASSUME NEW f \in Chain(x), f[3] <= d[3] PROVE f[3] <= e[3]
  <2>1. f[3] \in Nat
    BY DEF Chain, Types, TableTypes, Devices
  <2>. QED
    BY <1>3, <1>7, <1>8, <2>1
<1>. QED
  BY <1>2, <1>4, <1>8 DEF Removable

\* A whole cascade is removed, or while its file system is mounted nothing of it.
LEMMA RemovableIsAll ==
    ASSUME Types, Rooted, Placed, NEW s \in Nat
    PROVE  LET x == Mapped(s, 0)
           IN /\ Removable(x) \in {{}, Chain(x)}
              /\ (\A m \in Mounts : m.slot # s) => Removable(x) = Chain(x)
              /\ \A d \in DOMAIN on : Reaches(s, d) => d \in Chain(x)
<1>. DEFINE x == Mapped(s, 0)
<1>0. x[1] = "dm" /\ x[2] = s /\ x[3] = 0
  BY DEF Mapped
<1>1. \A f \in Chain(x) : f \in DOMAIN on /\ f \in Devices /\ f[1] = "dm" /\ f[2] = s /\ f[3] \in Nat
                          /\ f = Mapped(s, f[3])
                          /\ \A k \in 0 .. f[3] : Exists(Mapped(s, k))
  BY <1>0 DEF Chain, Types, TableTypes, Devices, Mapped
<1>2. ASSUME NEW l \in Nat, \A k \in 0 .. l : Exists(Mapped(s, k)) PROVE Mapped(s, l) \in Chain(x)
  <2>1. Mapped(s, l)[1] = "dm" /\ Mapped(s, l)[2] = s /\ Mapped(s, l)[3] = l
    BY DEF Mapped
  <2>2. Mapped(s, l) \in DOMAIN on
    BY <1>2 DEF Exists
  <2>. QED
    BY <1>0, <1>2, <2>1, <2>2 DEF Chain
<1>. HIDE DEF x
<1>3. ASSUME NEW f \in Chain(x), NEW d \in UsedBy(f) PROVE d \in Chain(x)
  <2>1. d \in DOMAIN on /\ on[d] = Mapped(s, f[3])
    BY <1>1, <1>3 DEF UsedBy
  <2>2. f[3] \in Nat \ {0} /\ d = Mapped(s, f[3] - 1)
    BY <2>1, RootedFacts
  <2>3. f[3] - 1 \in Nat /\ \A k \in 0 .. f[3] - 1 : Exists(Mapped(s, k))
    BY <1>1, <2>2
  <2>. QED
    BY <1>2, <2>2, <2>3
<1>4. ASSUME NEW f \in Chain(x), NEW m \in Mounts, m.device = f PROVE f = x /\ m.slot = s
  <2>1. f = Mapped(s, f[3])
    BY <1>1
  <2>2. f = Mapped(m.slot, 0)
    BY <1>4, <2>1 DEF Placed, IsLoop, Loop, Mapped
  <2>. QED
    BY <2>1, <2>2 DEF Mapped, x
<1>5. CASE \A m \in Mounts : m.device # x
  <2>1. Removable(x) = Chain(x)
    BY <1>3, <1>4, <1>5 DEF Removable, Mounts
  <2>. QED
    BY <1>2, <2>1 DEF Reaches, x
<1>6. ASSUME NEW m \in Mounts, m.device = x
      PROVE  Removable(x) = {} /\ m.slot = s
  <2>1. x \in Chain(x)
    <3>1. Exists(x)
      BY <1>6 DEF Placed
    <3>. QED
      BY <1>2, <3>1 DEF x
  <2>2. \A f \in Chain(x) : x[3] <= f[3]
    BY <1>0, <1>1 DEF x
  <2>3. \E i \in DOMAIN fs : fs[i].device = x
    BY <1>6 DEF Mounts
  <2>. QED
    BY <1>4, <1>6, <2>1, <2>2, <2>3 DEF Removable
<1>. QED
  BY <1>2, <1>5, <1>6 DEF Reaches, x

\* A step where what each device is for is known before.
TendedStep(p) == OwnedStep(p) /\ Tended

\* What is removed has nothing over it that stays, and no file system.
Takes(R) ==
    /\ on' = Without(R)
    /\ \A d \in DOMAIN on : on[d] \in R => d \in R
    /\ \A m \in Mounts : m.device \notin R

\* A step leaves all devices, or it removes some.
LEMMA DevicesLeft ==
    ASSUME NEW p \in Callers, TendedStep(p)
    PROVE  \/ \A d \in DOMAIN on : d \in DOMAIN on' /\ on'[d] = on[d]
           \/ \E R : Takes(R)
<1>. Owned /\ Step(p) /\ Types /\ Rooted
  BY OwnedFacts DEF TendedStep, OwnedStep, Tended
<1>1. ASSUME NEW x PROVE on' = Without(Removable(x)) => Takes(Removable(x))
  BY RemovableIsClosed, RemovableFacts DEF Takes, Mounts
<1>2. ASSUME NEW x PROVE on' = Without({x}) /\ ~Busy(x) => Takes({x})
  BY DEF Takes, Busy, UsedBy, Mounts
<1>3. on' = Without({}) => \A d \in DOMAIN on : d \in DOMAIN on' /\ on'[d] = on[d]
  BY DEF Without
<1>4. CASE ~OnSteps(p)
  BY <1>4, TablesKept
<1>5. CASE Attach(p)
  <2>1. PICK n \in FreeLoops : \E x : on' = With(Loop(n), x)
    BY <1>5 DEF Attach
  <2>. QED
    BY <2>1, LoopIsDevice DEF With, Exists
<1>6. CASE CreateDevice(p) \/ CreateFails(p)
  BY <1>6 DEF CreateDevice, CreateFails, CanCreate, With, Exists
<1>7. CASE UndoDevice(p)
  BY <1>1, <1>7 DEF UndoDevice
<1>8. CASE UndoLoop(p)
  BY <1>2, <1>8 DEF UndoLoop
<1>9. CASE RemoveDevices(p)
  BY <1>1, <1>3, <1>9 DEF RemoveDevices
<1>10. CASE DetachLoop(p)
  BY <1>2, <1>10 DEF DetachLoop
<1>. QED
  BY <1>4, <1>5, <1>6, <1>7, <1>8, <1>9, <1>10 DEF OnSteps

\* A device that is there after a step was there before, or is what a mount has attached or
\* created.
Creates(p, d) ==
    /\ pc[p] = "create" /\ CanCreate(p) /\ d = NewDevice(p) /\ d \in DOMAIN on'
    /\ on'[d] = my[p].device /\ (CreateDevice(p) \/ arg[p].volume \in leaked')
Attaches(p, d) ==
    /\ Attach(p) /\ pc[p] = "attach" /\ ~Exists(d) /\ IsLoop(d) /\ d = my'[p].loop
    /\ on'[d] = IF Native(p) THEN File(arg[p].volume) ELSE Image(my[p].dir)

\* So a device that is there after a step is one of three.
LEMMA DevicesBefore ==
    ASSUME NEW p \in Callers, TendedStep(p), NEW d \in DOMAIN on'
    PROVE  \/ d \in DOMAIN on /\ on'[d] = on[d]
           \/ Creates(p, d)
           \/ Attaches(p, d)
<1>. Owned /\ Step(p) /\ Types /\ my \in [Callers -> Local]
  BY OwnedFacts DEF TendedStep, OwnedStep, Types, ControlTypes
<1>1. \A R : on' = Without(R) => d \in DOMAIN on /\ on'[d] = on[d]
  BY DEF Without
<1>2. CASE ~OnSteps(p)
  BY <1>2, TablesKept
<1>3. CASE Attach(p)
  <2>1. PICK n \in FreeLoops :
           /\ on' = With(Loop(n), IF Native(p) THEN File(arg[p].volume) ELSE Image(my[p].dir))
           /\ Set(p, [my[p] EXCEPT !.loop = Loop(n), !.device = Loop(n)])
    BY <1>3 DEF Attach
  <2>2. my'[p].loop = Loop(n) /\ IsLoop(Loop(n)) /\ ~Exists(Loop(n))
    BY <2>1, LoopIsDevice DEF Set, Local, IsLoop
  <2>3. CASE d = Loop(n)
    BY <1>3, <2>1, <2>2, <2>3 DEF Attaches, Attach, At, With
  <2>4. CASE d # Loop(n)
    BY <2>1, <2>4 DEF With
  <2>. QED
    BY <2>3, <2>4
<1>4. CASE CreateDevice(p) \/ CreateFails(p)
  <2>1. CASE on' = on
    BY <2>1
  <2>2. CASE on' # on
    <3>1. /\ pc[p] = "create" /\ CanCreate(p) /\ on' = With(NewDevice(p), my[p].device)
          /\ CreateDevice(p) \/ arg[p].volume \in leaked'
      BY <1>4, <2>2 DEF CreateDevice, CreateFails, At
    <3>. QED
      BY <3>1 DEF With, Creates
  <2>. QED
    BY <2>1, <2>2
<1>5. CASE UndoDevice(p) \/ UndoLoop(p) \/ RemoveDevices(p) \/ DetachLoop(p)
  BY <1>1, <1>5 DEF UndoDevice, UndoLoop, RemoveDevices, DetachLoop
<1>. QED
  BY <1>2, <1>3, <1>4, <1>5 DEF OnSteps

\* Of a cascade nothing is removed unless its upper device is.
LEMMA StackStays ==
    ASSUME NEW p \in Callers, TendedStep(p), NEW s, NEW l \in Nat, NEW n \in Nat,
           NEW b \in DOMAIN on,
           l < n, Stack(s, l, n, b), Mapped(s, l) \in DOMAIN on'
    PROVE  Stack(s, l, n, b)' /\ b \in DOMAIN on' /\ on'[b] = on[b]
<1>1. ASSUME NEW k \in l .. n - 1
      PROVE  Mapped(s, k) \in DOMAIN on /\ on[Mapped(s, k)] = IF k = n - 1 THEN b ELSE Mapped(s, k + 1)
  BY DEF Stack, Exists
<1>2. CASE \A d \in DOMAIN on : d \in DOMAIN on' /\ on'[d] = on[d]
  BY <1>1, <1>2 DEF Stack, Exists
<1>3. ASSUME NEW R, Takes(R) PROVE Stack(s, l, n, b)' /\ b \in DOMAIN on' /\ on'[b] = on[b]
  <2>1. \A d \in DOMAIN on \ R : d \in DOMAIN on' /\ on'[d] = on[d]
    BY <1>3 DEF Takes, Without
  <2>. DEFINE G == {k \in l .. n - 1 : Mapped(s, k) \in R}
  <2>2. G = {}
    <3>. SUFFICES ASSUME G # {} PROVE FALSE
      OBVIOUS
    <3>1. G \in SUBSET Nat
      OBVIOUS
    <3>2. PICK k \in G : \A j \in G : k <= j
      BY <3>1, FirstIsThere DEF First
    <3>3. Mapped(s, l) \notin R
      BY <1>3 DEF Takes, Without
    <3>4. k # l /\ k - 1 \in l .. n - 1 /\ k - 1 # n - 1 /\ (k - 1) + 1 = k
      BY <3>2, <3>3
    <3>5. Mapped(s, k - 1) \in DOMAIN on /\ on[Mapped(s, k - 1)] = Mapped(s, k)
      BY <1>1, <3>4
    <3>6. Mapped(s, k - 1) \in R
      BY <1>3, <3>2, <3>5 DEF Takes
    <3>7. ~(k <= k - 1)
      BY <3>4
    <3>. QED
      BY <3>2, <3>4, <3>6, <3>7
  <2>3. n - 1 \in l .. n - 1
    OBVIOUS
  <2>4. b \notin R
    BY <1>1, <1>3, <2>2, <2>3 DEF Takes
  <2>5. \A k \in l .. n - 1 : Mapped(s, k) \in DOMAIN on' /\
                              on'[Mapped(s, k)] = IF k = n - 1 THEN b ELSE Mapped(s, k + 1)
    BY <1>1, <2>1, <2>2
  <2>. QED
    BY <2>1, <2>4, <2>5 DEF Stack, Exists
<1>. QED
  BY <1>2, <1>3, DevicesLeft

\* The caller that creates a device of a cascade is over its own loop device.
LEMMA CreatesOver ==
    ASSUME NEW p \in Callers, TendedStep(p), NEW d, Creates(p, d)
    PROVE  LET slot   == my[p].slot
               layers == arg[p].layers
               built  == my[p].built
           IN /\ layers \in Nat /\ built \in Nat /\ built < layers /\ slot \in Nat
              /\ d = Mapped(slot, layers - 1 - built) /\ layers - 1 - built \in Nat /\ ~Exists(d)
              /\ on'[d] \in DOMAIN on /\ on'[d] = my[p].device
              /\ Native(p) /\ arg[p].volume \in Volumes
              /\ built = 0 => OverFile(on'[d], arg[p].volume) /\ on'[d] = my[p].loop
              /\ built # 0 => on'[d] = Mapped(slot, layers - built) /\ layers - built \in Nat
<1>. Owned /\ Mine
  BY DEF TendedStep, OwnedStep, Tended
<1>1. pc[p] = "create" /\ d = NewDevice(p) /\ ~Exists(d) /\ Exists(my[p].device) /\ on'[d] = my[p].device
  BY DEF Creates, CanCreate
<1>2. /\ arg[p].layers \in Nat /\ my[p].built \in Nat /\ my[p].built < arg[p].layers
      /\ my[p].built = 0 => my[p].device = my[p].loop
      /\ my[p].built # 0 => my[p].device = Mapped(my[p].slot, arg[p].layers - my[p].built)
  BY <1>1, ShapeFacts DEF Building
<1>3. my[p].slot \in Nat /\ Native(p) /\ IsLoop(my[p].loop)
  BY <1>1, OwnedFacts DEF Types, ControlTypes, Local, Shape, Looped, Building
<1>4. arg[p].volume \in Volumes
  BY <1>1, OwnedFacts DEF Types, ControlTypes, Request, Roles, MountStages, HeldStages, Mounting
<1>5. my[p].built = 0 => OverFile(my[p].device, arg[p].volume)
  BY <1>1, <1>2, <1>3 DEF Mine, Looped, Building, OverFile, Exists
<1>. QED
  BY <1>1, <1>2, <1>3, <1>4, <1>5 DEF NewDevice, Exists

\* A service is not unmounted while a loop device is over its image.
LEMMA ImageStays ==
    ASSUME NEW p \in Callers, TendedStep(p), NEW i, FuseOn(i), UsedBy(Image(i)) # {}
    PROVE  FuseOn(i)'
<1>. Owned /\ Step(p) /\ Types /\ fuse \in Seq(Service)
  BY OwnedFacts DEF TendedStep, OwnedStep
<1>1. PICK j \in DOMAIN fuse : fuse[j].dir = i
  BY DEF FuseOn
<1>2. CASE ~FuseSteps(p)
  BY <1>1, <1>2, TablesKept DEF FuseOn
<1>3. CASE FuseServiceMount(p) \/ FuseServiceFails(p)
  <2>1. fuse' = fuse \/ fuse' = Append(fuse, NewService(p))
    BY <1>3 DEF FuseServiceMount, FuseServiceFails
  <2>. QED
    BY <1>1, <2>1 DEF FuseOn
<1>4. CASE SendAuxDeviceInfo(p) \/ Confirm(p)
  <2>1. DOMAIN fuse' = DOMAIN fuse
    BY <1>4 DEF SendAuxDeviceInfo, Confirm
  <2>2. fuse[j] \in Service
    OBVIOUS
  <2>3. fuse'[j].dir = i
    BY <1>1, <1>4, <2>2 DEF SendAuxDeviceInfo, Confirm, Service
  <2>. QED
    BY <2>1, <2>3 DEF FuseOn
<1>5. CASE UmountAux(p)
  <2>1. CASE fuse' = fuse
    BY <1>1, <2>1 DEF FuseOn
  <2>2. CASE fuse' # fuse
    <3>1. PICK d : /\ FuseOn(d) /\ UsedBy(Image(d)) = {}
                   /\ fuse' = Dropped(fuse, CHOOSE k \in DOMAIN fuse : fuse[k].dir = d)
      BY <1>5, <2>2 DEF UmountAux
    <3>2. PICK k \in DOMAIN fuse : fuse[k].dir = d /\ fuse' = Dropped(fuse, k)
      BY <3>1 DEF FuseOn
    <3>3. j # k
      BY <1>1, <3>1, <3>2
    <3>4. \E m \in DOMAIN Dropped(fuse, k) : Dropped(fuse, k)[m] = fuse[j]
      BY <3>3, DropFacts
    <3>. QED
      BY <1>1, <3>2, <3>4 DEF FuseOn
  <2>. QED
    BY <2>1, <2>2
<1>. QED
  BY <1>2, <1>3, <1>4, <1>5 DEF FuseSteps

\* Every device stays over a volume or an image.
LEMMA RootedOfStep ==
    ASSUME NEW p \in Callers, TendedStep(p)
    PROVE  Rooted'
<1>. Owned /\ Step(p) /\ Types /\ Rooted
  BY OwnedFacts DEF TendedStep, OwnedStep, Tended
<1>. DEFINE In(b, v) == b \in DOMAIN on' /\ IsLoop(b) /\ on'[b] = File(v)
            Over2(s, l, n, b) ==
              \A k \in l .. n - 1 :
                /\ Mapped(s, k) \in DOMAIN on'
                /\ on'[Mapped(s, k)] = IF k = n - 1 THEN b ELSE Mapped(s, k + 1)
            Held2(d) == \/ IsLoop(d) /\ \E i \in Nat : on'[d] = Image(i) /\ FuseOn(i)'
                        \/ \E v \in Volumes : In(d, v)
                        \/ \E v \in Volumes, s \in Nat, l \in Nat, n \in Nat, b \in DOMAIN on' :
                              d = Mapped(s, l) /\ l < n /\ Over2(s, l, n, b) /\ In(b, v)
<1>. SUFFICES ASSUME NEW d \in DOMAIN on' PROVE Held2(d)
  BY DEF Rooted, OverImage, OverFile, Stack, Exists, IsLoop, Loop, File, Image, Mapped
<1>1. CASE d \in DOMAIN on /\ on'[d] = on[d]
  <2>1. CASE OverImage(d)
    <3>1. PICK i \in Nat : IsLoop(d) /\ on[d] = Image(i) /\ FuseOn(i)
      BY <2>1 DEF OverImage
    <3>2. FuseOn(i)'
      BY <1>1, <3>1, ImageStays DEF UsedBy
    <3>. QED
      BY <1>1, <3>1, <3>2
  <2>2. CASE \E v \in Volumes : OverFile(d, v)
    BY <1>1, <2>2 DEF OverFile
  <2>3. ASSUME NEW v \in Volumes, NEW s \in Nat, NEW l \in Nat, NEW n \in Nat, NEW b \in DOMAIN on,
               d = Mapped(s, l), l < n, Stack(s, l, n, b), OverFile(b, v)
        PROVE  Held2(d)
    <3>0. Stack(s, l, n, b)' /\ b \in DOMAIN on' /\ on'[b] = on[b]
      BY <1>1, <2>3, StackStays
    <3>1. Over2(s, l, n, b)
      BY <3>0 DEF Stack, Exists, Mapped
    <3>2. In(b, v)
      BY <2>3, <3>0 DEF OverFile
    <3>. QED
      BY <2>3, <3>0, <3>1, <3>2
  <2>. QED
    BY <1>1, <2>1, <2>2, <2>3 DEF Rooted
<1>2. CASE Creates(p, d)
  <2>0. PICK slot, l, v, below :
           /\ slot = my[p].slot /\ l = arg[p].layers - 1 - my[p].built
           /\ v = arg[p].volume /\ below = on'[d]
    OBVIOUS
  <2>1. /\ slot \in Nat /\ l \in Nat /\ v \in Volumes /\ d = Mapped(slot, l) /\ ~Exists(d)
        /\ below \in DOMAIN on
        /\ my[p].built = 0 => OverFile(below, v)
        /\ my[p].built # 0 => below = Mapped(slot, l + 1)
    <3>1. arg[p].layers \in Nat /\ my[p].built \in Nat
      BY <1>2, CreatesOver
    <3>2. arg[p].layers - my[p].built = l + 1
      BY <2>0, <3>1
    <3>. QED
      BY <1>2, <2>0, <3>2, CreatesOver
  <2>2. \A e \in DOMAIN on : e \in DOMAIN on' /\ on'[e] = on[e]
    <3>1. \A R : Takes(R) => d \in DOMAIN on
      BY DEF Takes, Without
    <3>. QED
      BY <2>1, <3>1, DevicesLeft DEF Exists
  <2>3. CASE my[p].built = 0
    <3>1. Over2(slot, l, l + 1, below)
      <4>1. \A k \in l .. l + 1 - 1 : k = l
        BY <2>1
      <4>. QED
        BY <2>0, <2>1, <4>1
    <3>2. In(below, v) /\ l < l + 1 /\ l + 1 \in Nat
      BY <2>1, <2>2, <2>3 DEF OverFile
    <3>. QED
      BY <2>1, <3>1, <3>2
  <2>4. CASE my[p].built # 0
    <3>1. below = Mapped(slot, l + 1) /\ below \in DOMAIN on
      BY <2>1, <2>4
    <3>2. PICK w \in Volumes, n \in Nat, b \in DOMAIN on :
             l + 1 < n /\ Stack(slot, l + 1, n, b) /\ OverFile(b, w)
      <4>1. ~OverImage(below) /\ \A w \in Volumes : ~OverFile(below, w)
        BY <3>1 DEF OverImage, OverFile, IsLoop, Loop, Mapped
      <4>2. PICK w \in Volumes, s \in Nat, k \in Nat, n \in Nat, b \in DOMAIN on :
               below = Mapped(s, k) /\ k < n /\ Stack(s, k, n, b) /\ OverFile(b, w)
        BY <3>1, <4>1 DEF Rooted
      <4>3. s = slot /\ k = l + 1
        BY <3>1, <4>2 DEF Mapped
      <4>. QED
        BY <4>2, <4>3
    <3>3. ASSUME NEW k \in l .. n - 1
          PROVE  /\ Mapped(slot, k) \in DOMAIN on'
                 /\ on'[Mapped(slot, k)] = IF k = n - 1 THEN b ELSE Mapped(slot, k + 1)
      <4>1. CASE k = l
        <5>1. l # n - 1
          BY <2>1, <3>2
        <5>. QED
          BY <2>0, <2>1, <3>1, <4>1, <5>1
      <4>2. CASE k # l
        <5>1. k \in l + 1 .. n - 1
          BY <2>1, <4>2
        <5>2. /\ Mapped(slot, k) \in DOMAIN on
              /\ on[Mapped(slot, k)] = IF k = n - 1 THEN b ELSE Mapped(slot, k + 1)
          BY <3>2, <5>1 DEF Stack, Exists
        <5>. QED
          BY <2>2, <5>2
      <4>. QED
        BY <4>1, <4>2
    <3>4. Over2(slot, l, n, b)
      BY <3>3
    <3>5. In(b, w) /\ b \in DOMAIN on' /\ l < n
      BY <2>1, <2>2, <3>2 DEF OverFile
    <3>. QED
      BY <2>1, <3>2, <3>4, <3>5
  <2>. QED
    BY <2>3, <2>4
<1>3. CASE Attaches(p, d)
  <2>1. CASE Native(p)
    <3>1. arg[p].volume \in Volumes
      BY <1>3, OwnedFacts DEF Attaches, Types, ControlTypes, Request, Roles, MountStages,
         HeldStages, Mounting
    <3>. QED
      BY <1>3, <2>1, <3>1 DEF Attaches
  <2>2. CASE ~Native(p)
    <3>1. PICK i \in Nat : i = my[p].dir
      BY OwnedFacts DEF Types, ControlTypes, Local
    <3>2. FuseOn(i)'
      BY <1>3, <2>2, <3>1 DEF Attaches, Attach, FuseOn
    <3>. QED
      BY <1>3, <2>2, <3>1, <3>2 DEF Attaches
  <2>. QED
    BY <2>1, <2>2
<1>. QED
  BY <1>1, <1>2, <1>3, DevicesBefore

\* What the loop device of a mount is over does not change.
LEMMA MineOfStep ==
    ASSUME NEW p \in Callers, TendedStep(p)
    PROVE  Mine'
<1>. Owned /\ Step(p) /\ Types /\ Mine
  BY OwnedFacts DEF TendedStep, OwnedStep, Tended
<1>. SUFFICES ASSUME NEW q \in Callers, pc'[q] \in Looped, my'[q].loop \in DOMAIN on'
              PROVE  on'[my'[q].loop] = IF arg'[q].layers > 0 THEN File(arg'[q].volume)
                                                              ELSE Image(my'[q].dir)
  BY DEF Mine, Exists, Native, File, Image
<1>. DEFINE b == my'[q].loop
<1>1. CASE Attach(p) /\ q = p
  <2>1. my'[p].dir = my[p].dir /\ arg' = arg /\ ~Exists(b)
    <3>1. PICK n \in FreeLoops : my'[p] = [my[p] EXCEPT !.loop = Loop(n), !.device = Loop(n)] /\ arg' = arg
      BY <1>1, OwnedFacts DEF Attach, Set, Inside, Types, ControlTypes
    <3>. QED
      BY <1>1, <3>1, LoopIsDevice, OwnedFacts DEF Types, ControlTypes, Local
  <2>2. ~Creates(p, b)
    BY <1>1 DEF Creates, Attach, At
  <2>3. Attaches(p, b)
    BY <2>1, <2>2, DevicesBefore DEF Exists
  <2>. QED
    BY <1>1, <2>1, <2>3 DEF Attaches, Native
<1>2. CASE ~(Attach(p) /\ q = p)
  <2>1. /\ pc[q] \in Looped /\ my'[q].loop = my[q].loop /\ my'[q].dir = my[q].dir
        /\ arg'[q] = arg[q]
    <3>1. CASE q = p
      BY <1>2, <3>1, LoopKept
    <3>2. CASE q # p
      BY <3>2, OtherCaller
    <3>. QED
      BY <3>1, <3>2
  <2>2. IsLoop(b)
    BY <2>1, OwnedFacts DEF Shape
  <2>3. ~Creates(p, b)
    BY <2>2 DEF Creates, NewDevice, IsLoop, Loop, Mapped
  <2>4. ~Attaches(p, b)
    <3>1. CASE q = p
      BY <1>2, <3>1 DEF Attaches
    <3>2. CASE q # p
      BY <2>1, <3>2, OtherCaller DEF Attaches, Attach, At, Looped, Building, MountStages, HeldStages
    <3>. QED
      BY <3>1, <3>2
  <2>5. b \in DOMAIN on /\ on'[b] = on[b]
    BY <2>3, <2>4, DevicesBefore
  <2>. QED
    BY <2>1, <2>5 DEF Mine, Exists, Native
<1>. QED
  BY <1>1, <1>2

\* A file system stays on a device that it may be on.
LEMMA PlacedOfStep ==
    ASSUME NEW p \in Callers, TendedStep(p)
    PROVE  Placed'
<1>. Owned /\ Step(p) /\ Types /\ Placed /\ Mine
  BY OwnedFacts DEF TendedStep, OwnedStep, Tended
<1>. SUFFICES ASSUME NEW m \in Mounts'
              PROVE  /\ m.device \in DOMAIN on'
                     /\ \/ m.device = Mapped(m.slot, 0)
                        \/ IsLoop(m.device) /\ \E i \in Nat : on'[m.device] = Image(i)
  BY DEF Placed, Exists, Mapped, IsLoop, Loop, Image
<1>1. CASE m \in Mounts
  <2>1. ~Loses(p, m.device) /\ m.device \in DOMAIN on
    BY <1>1 DEF Loses, Mounts, Placed, Exists
  <2>2. m.device \in DOMAIN on' /\ on'[m.device] = on[m.device]
    BY <2>1, DevicesOfStep
  <2>. QED
    BY <1>1, <2>2 DEF Placed
<1>2. CASE MountFilesystem(p) /\ m = Entered(p)
  <2>1. pc[p] = "mountFs" /\ my[p].device \in DOMAIN on /\ on' = on
    BY <1>2 DEF MountFilesystem, CanMountFs, At, Exists
  <2>2. m.device = my[p].device /\ m.slot = my[p].slot
    BY <1>2 DEF Entered
  <2>3. /\ my[p].built = 0 => my[p].device = my[p].loop
        /\ my[p].built # 0 => my[p].device = Mapped(my[p].slot, 0)
        /\ my[p].built = 0 => ~Native(p)
    BY <2>1, ShapeFacts DEF Building, Native
  <2>4. CASE my[p].built # 0
    BY <2>1, <2>2, <2>3, <2>4
  <2>5. CASE my[p].built = 0
    <3>1. IsLoop(my[p].loop) /\ my[p].dir \in Nat
      BY <2>1, OwnedFacts DEF Shape, Looped, Building, Types, ControlTypes, Local
    <3>2. on[my[p].loop] = Image(my[p].dir)
      BY <2>1, <2>3, <2>5 DEF Mine, Looped, Building, Exists
    <3>. QED
      BY <2>1, <2>2, <2>3, <2>5, <3>1, <3>2
  <2>. QED
    BY <2>4, <2>5
<1>. QED
  BY <1>1, <1>2, MountsOfStep

\* A mount gives up from one of these steps.
LEMMA GivesUp ==
    ASSUME NEW p \in Callers, OwnedStep(p), pc'[p] \in {"dropPoint", "recall"} \cup UnmountStages
    PROVE  \/ Cleared(p) /\ fuse' = fuse /\ ~MountFilesystem(p) /\ (Recall(p) \/ my' = my)
           \/ MakePoint(p) \/ AttachFails(p) \/ UndoLoop(p)
           \/ ~Native(p) /\ (CheckPoint(p) \/ MountFilesystemFails(p))
<1>. Owned /\ Step(p) /\ pc \in [Callers -> Stages]
  BY OwnedFacts DEF OwnedStep, Types, ControlTypes
<1>. USE DEF Goto, Inside, Return, End, At, UnmountStages
<1>1. CASE CoalesceSlotNumberAndMountPoint(p) \/ CheckMounted(p) \/ OpenFails(p) \/ Scan(p) \/
           ClearDirectory(p) \/ MakeDirectory(p) \/ FuseServiceMount(p) \/ FuseServiceFails(p) \/
           DropDirectory(p)
  BY <1>1 DEF CoalesceSlotNumberAndMountPoint, CheckMounted, OpenFails, Scan, ClearDirectory,
     MakeDirectory, TryNextDir, FuseServiceMount, FuseServiceFails, DropDirectory
<1>2. CASE Attach(p) \/ CreateDevice(p) \/ CreateFails(p) \/ TestDevice(p) \/ SendAuxDeviceInfo(p) \/
           SendFails(p) \/ Confirm(p) \/ UndoFilesystem(p) \/ UndoDevice(p) \/ MountFilesystem(p)
  BY <1>2 DEF Attach, CreateDevice, CreateFails, TestDevice, SendAuxDeviceInfo, SendFails, Confirm,
     UndoFilesystem, UndoDevice, MountFilesystem
<1>3. CASE CheckPoint(p) \/ MountFilesystemFails(p)
  BY <1>3 DEF CheckPoint, MountFilesystemFails, MountFails
<1>4. CASE DropPoint(p) \/ Recall(p) \/ UmountFilesystem(p) \/ RemoveDevices(p) \/ DetachLoop(p)
  BY <1>4 DEF DropPoint, Recall, UmountFilesystem, RemoveDevices, DetachLoop, Cleared, system,
     MountFilesystem
<1>5. CASE UmountAux(p)
  BY <1>5 DEF UmountAux
<1>. QED
  BY <1>1, <1>2, <1>3, <1>4, <1>5 DEF Step

\* A mount that is over an image finds no file system on it when it is undone.
LEMMA ClearOfStep ==
    ASSUME NEW p \in Callers, TendedStep(p)
    PROVE  Clear'
<1>. Owned /\ OwnedStep(p) /\ Step(p) /\ Types /\ Roles /\ Clear /\ Placed
  BY OwnedFacts DEF TendedStep, OwnedStep, Tended
<1>. pc \in [Callers -> Stages] /\ my \in [Callers -> Local] /\ my[p] \in Local
  BY DEF Types, ControlTypes
<1>. DEFINE FreeLoop(q) == ~(arg'[q].layers > 0) /\ pc'[q] \in Looped \ {"confirm"} =>
                              \A m \in Mounts' : m.device # my'[q].loop
            FreeService(q) ==
              arg'[q].volume # None /\ pc'[q] \in {"dropPoint", "recall"} \cup UnmountStages =>
                \A e \in Services' : e.volume = arg'[q].volume =>
                    e.virtual = e.loop /\ \A m \in Mounts' : m.device # e.loop
            FreePoint(q) == arg'[q].volume # None /\ pc'[q] \in UnmountStages =>
                              my'[q].info.point = None
<1>. SUFFICES ASSUME NEW q \in Callers PROVE FreeLoop(q) /\ FreeService(q) /\ FreePoint(q)
  BY DEF Clear, Native, Mounting, Cleared
<1>1. CASE q # p
  <2>1. pc'[q] = pc[q] /\ arg'[q] = arg[q] /\ my'[q] = my[q]
    BY <1>1, OtherCaller
  <2>2. pc[q] # "idle" /\ (pc[q] \in MountStages \/ Mounting(q)) => ~MountFilesystem(p)
    <3>1. pc[p] # "idle"
      BY AboutStays
    <3>2. pc[q] \in MountStages => Mounting(q)
      BY DEF Roles
    <3>3. MountFilesystem(p) => Mounting(p)
      BY DEF Roles, MountFilesystem, At, MountStages, HeldStages
    <3>. QED
      BY <1>1, <3>1, <3>2, <3>3, OwnedFacts DEF Apart
  <2>3. ~MountFilesystem(p) => Mounts' \subseteq Mounts
    BY MountsOfStep
  <2>4. FreeLoop(q)
    BY <2>1, <2>2, <2>3 DEF Clear, Native, Looped, Building, MountStages, HeldStages
  <2>5. FreeService(q)
    <3>. SUFFICES ASSUME Mounting(q), Cleared(q), NEW e \in Services', e.volume = arg[q].volume
                  PROVE  e.virtual = e.loop /\ \A m \in Mounts' : m.device # e.loop
      BY <2>1 DEF Mounting, Cleared
    <3>1. pc[q] # "idle"
      BY DEF Cleared, UnmountStages
    <3>2. e \in Services
      BY <1>1, <3>1, OtherCaller, OthersServices DEF About
    <3>. QED
      BY <2>2, <2>3, <3>1, <3>2 DEF Clear
  <2>6. FreePoint(q)
    BY <2>1 DEF Clear, Mounting
  <2>. QED
    BY <2>4, <2>5, <2>6
<1>2. CASE q = p
  <2>1. FreeLoop(p)
    <3>. SUFFICES ASSUME ~(arg'[p].layers > 0), pc'[p] \in Looped \ {"confirm"}, NEW m \in Mounts'
                  PROVE  m.device # my'[p].loop
      OBVIOUS
    <3>1. CASE Attach(p)
      <4>1. PICK n \in FreeLoops : Set(p, [my[p] EXCEPT !.loop = Loop(n), !.device = Loop(n)])
        BY <3>1 DEF Attach
      <4>2. my'[p].loop = Loop(n) /\ ~Exists(Loop(n))
        BY <4>1, LoopIsDevice DEF Set, Local
      <4>3. m \in Mounts
        BY <3>1, MountsOfStep DEF Attach, MountFilesystem, At
      <4>. QED
        BY <4>2, <4>3 DEF Placed
    <3>2. CASE ~Attach(p)
      <4>1. pc[p] \in Looped /\ my'[p].loop = my[p].loop /\ arg' = arg /\ ~Native(p)
        BY <3>2, LoopKept DEF Native
      <4>2. pc[p] # "confirm"
        BY WhichStep DEF Confirm, Return, End, Goto, Looped, Building
      <4>3. ~MountFilesystem(p)
        BY <4>1 DEF MountFilesystem, Goto
      <4>4. m \in Mounts
        BY <4>3, MountsOfStep
      <4>. QED
        BY <4>1, <4>2, <4>4 DEF Clear
    <3>. QED
      BY <3>1, <3>2
  <2>2. FreeService(p)
    <3>. SUFFICES ASSUME arg'[p].volume # None,
                         pc'[p] \in {"dropPoint", "recall"} \cup UnmountStages,
                         NEW e \in Services', e.volume = arg'[p].volume
                  PROVE  e.virtual = e.loop /\ \A m \in Mounts' : m.device # e.loop
      OBVIOUS
    <3>1. arg' = arg /\ Mounting(p)
      BY AboutStays DEF UnmountStages, Mounting
    <3>2. CASE Cleared(p) /\ fuse' = fuse /\ ~MountFilesystem(p)
      <4>1. Services' = Services /\ Mounts' \subseteq Mounts
        BY <3>2, MountsOfStep DEF Services
      <4>. QED
        BY <3>1, <3>2, <4>1 DEF Clear
    <3>3. CASE MakePoint(p) \/ AttachFails(p) \/ UndoLoop(p) \/ CheckPoint(p) \/
               MountFilesystemFails(p)
      <4>1. /\ fuse' = fuse /\ fs' = fs
            /\ pc[p] \in {"point", "attach", "undoLoop", "checkPoint", "mountFs"}
        BY <3>3 DEF MakePoint, AttachFails, UndoLoop, CheckPoint, MountFilesystemFails, At, system
      <4>2. Services' = Services /\ Mounts' = Mounts
        BY <4>1 DEF Services, Mounts
      <4>3. PICK own \in Services : ServiceOf(p, own)
        BY <4>1, OwnService DEF HeldStages
      <4>4. ServiceOf(p, e)
        BY <3>1, <4>1, <4>2, <4>3, OwnVolume DEF HeldStages, About
      <4>5. CASE NotSent(p)
        <5>1. e.virtual = None /\ e.loop = None
          BY <4>1, <4>4, <4>5 DEF ServiceOf, HeldStages
        <5>2. \A m \in Mounts : m.device \in Devices
          BY ServiceTypes DEF Filesystem
        <5>. QED
          BY <4>2, <5>1, <5>2, UnixMountAssumption
      <4>6. CASE ~NotSent(p)
        <5>1. /\ Sent(p) /\ ~Native(p) /\ pc[p] \in {"checkPoint", "mountFs"}
              /\ pc[p] \in Looped \ {"confirm"} /\ pc[p] \in Building
          BY <4>1, <4>6 DEF NotSent, Sent, Looped, Building
        <5>2. e.virtual = my[p].device /\ e.loop = my[p].loop
          BY <4>1, <4>4, <5>1 DEF ServiceOf, HeldStages
        <5>3. my[p].device = my[p].loop
          BY <5>1, ShapeFacts DEF Native
        <5>. QED
          BY <4>2, <5>1, <5>2, <5>3 DEF Clear
      <4>. QED
        BY <4>5, <4>6
    <3>. QED
      BY <3>2, <3>3, GivesUp
  <2>3. FreePoint(p)
    <3>. SUFFICES ASSUME arg'[p].volume # None, pc'[p] \in UnmountStages
                  PROVE  my'[p].info.point = None
      OBVIOUS
    <3>1. arg' = arg /\ Mounting(p)
      BY AboutStays DEF UnmountStages, Mounting
    <3>2. CASE Recall(p)
      <4>1. PICK i \in DOMAIN fuse :
               fuse[i].volume = arg[p].volume /\ my'[p].info = Info(fuse[i]) /\ pc[p] = "recall"
        BY <3>2 DEF Recall, Return, End, Goto, Set, First, Listed, At, Local, UnmountStages
      <4>2. fuse[i] \in Services
        BY <4>1 DEF Services
      <4>3. fuse[i].virtual = fuse[i].loop /\ \A m \in Mounts : m.device # fuse[i].loop
        BY <3>1, <4>1, <4>2 DEF Clear, Cleared
      <4>4. {j \in DOMAIN fs : fs[j].device = fuse[i].virtual} = {}
        BY <4>3 DEF Mounts
      <4>. QED
        BY <4>1, <4>4 DEF Info
    <3>3. CASE ~Recall(p)
      <4>1. Cleared(p) /\ my' = my
        <5>1. ~MakePoint(p) /\ ~AttachFails(p) /\ ~UndoLoop(p) /\ ~CheckPoint(p) /\
              ~MountFilesystemFails(p)
          BY DEF MakePoint, AttachFails, UndoLoop, CheckPoint, MountFilesystemFails, MountFails,
             Goto, UnmountStages, Looped
        <5>. QED
          BY <3>3, <5>1, GivesUp
      <4>2. pc[p] \in UnmountStages
        BY <3>3, <4>1, WhichStep DEF Cleared, Recall, DropPoint, Goto, UnmountStages
      <4>. QED
        BY <3>1, <4>1, <4>2 DEF Clear
    <3>. QED
      BY <3>2, <3>3
  <2>. QED
    BY <1>2, <2>1, <2>2, <2>3
<1>. QED
  BY <1>1, <1>2

\* A caller that has a service has just mounted it, or had one before.
LEMMA GoesOn ==
    ASSUME NEW p \in Callers, OwnedStep(p), pc'[p] \in HeldStages \cup UnmountStages
    PROVE  /\ FuseServiceMount(p) \/ pc[p] \in HeldStages \cup UnmountStages
           /\ arg' = arg /\ About(p)' = About(p)
<1>. Owned /\ Step(p) /\ Types /\ Roles /\ pc \in [Callers -> Stages]
  BY OwnedFacts DEF OwnedStep, Types, ControlTypes
<1>. USE DEF Goto, Inside, Return, End, At, UnmountStages, HeldStages
<1>1. CASE CoalesceSlotNumberAndMountPoint(p) \/ CheckMounted(p) \/ OpenFails(p) \/ Scan(p) \/
           ClearDirectory(p) \/ MakeDirectory(p) \/ FuseServiceMount(p) \/ FuseServiceFails(p) \/
           DropDirectory(p)
  BY <1>1, AboutStays DEF CoalesceSlotNumberAndMountPoint, CheckMounted, OpenFails, Scan,
     ClearDirectory, MakeDirectory, TryNextDir, FuseServiceMount, FuseServiceFails, DropDirectory
<1>2. CASE MakePoint(p) \/ Attach(p) \/ AttachFails(p) \/ CreateDevice(p) \/ CreateFails(p) \/
           TestDevice(p) \/ CheckPoint(p) \/ MountFilesystem(p) \/ MountFilesystemFails(p)
  BY <1>2, AboutStays DEF MakePoint, Attach, AttachFails, CreateDevice, CreateFails, TestDevice,
     CheckPoint, MountFilesystem, MountFilesystemFails
<1>3. CASE SendAuxDeviceInfo(p) \/ SendFails(p) \/ Confirm(p) \/ UndoFilesystem(p) \/
           UndoDevice(p) \/ UndoLoop(p) \/ DropPoint(p) \/ Recall(p)
  BY <1>3, AboutStays DEF SendAuxDeviceInfo, SendFails, Confirm, UndoFilesystem, UndoDevice,
     UndoLoop, DropPoint, Recall
<1>4. CASE UmountFilesystem(p) \/ RemoveDevices(p) \/ DetachLoop(p) \/ UmountAux(p)
  BY <1>4, AboutStays DEF UmountFilesystem, RemoveDevices, DetachLoop, UmountAux
<1>. QED
  BY <1>1, <1>2, <1>3, <1>4 DEF Step

\* A mount attaches its loop device once.
LEMMA Enters ==
    ASSUME NEW p \in Callers, Step(p), pc \in [Callers -> Stages], pc[p] \in Looped
    PROVE  pc'[p] \notin {"point", "attach"}
BY DEF Step, At, Goto, Return, End, Looped, Building, CoalesceSlotNumberAndMountPoint, CheckMounted,
   OpenFails, Scan, ClearDirectory, MakeDirectory, FuseServiceMount, FuseServiceFails, DropDirectory,
   MakePoint, Attach, AttachFails, CreateDevice, CreateFails, TestDevice, CheckPoint, MountFails,
   MountFilesystem, MountFilesystemFails, SendAuxDeviceInfo, SendFails, Confirm, UndoFilesystem,
   UndoDevice, UndoLoop, DropPoint, Recall, UmountFilesystem, RemoveDevices, DetachLoop, UmountAux

\* A caller's own service after a step is the one it had, or the one it has mounted.
LEMMA OwnAfter ==
    ASSUME NEW p \in Callers, OwnedStep(p), pc'[p] \in HeldStages \cup UnmountStages,
           NEW e \in Services', e.volume = About(p)
    PROVE  \/ FuseServiceMount(p) /\ e = NewService(p) /\ ~FuseOn(my[p].dir)
           \/ \E own \in Services :
                 /\ ServiceOf(p, own) /\ pc[p] \in HeldStages \cup UnmountStages
                 /\ own.volume = e.volume /\ own.dir = e.dir /\ own.state = e.state
                 /\ e = own \/ pc[p] = "send"
<1>. Owned /\ Step(p) /\ Types /\ Roles /\ Listing
  BY OwnedFacts DEF OwnedStep
<1>1. CASE FuseServiceMount(p)
  <2>1. pc[p] = "fuse" /\ FuseGains(p) /\ ~FuseOn(my[p].dir)
    BY <1>1 DEF FuseServiceMount, At, FuseGains, CanMountFuse
  <2>2. About(p) = arg[p].volume
    BY <2>1 DEF Roles, About, MountStages, EarlyStages
  <2>3. e \notin Services
    BY <2>1, <2>2 DEF Listing, Services
  <2>. QED
    BY <1>1, <2>1, <2>3, Adds
<1>2. CASE ~FuseServiceMount(p)
  <2>1. pc[p] \in HeldStages \cup UnmountStages
    BY <1>2, GoesOn
  <2>2. PICK own \in Services : ServiceOf(p, own)
    BY <2>1, OwnService
  <2>3. own.volume = About(p)
    BY <2>1, <2>2, OwnVolume
  <2>4. CASE e \in Services
    BY <2>1, <2>2, <2>3, <2>4, OwnVolume
  <2>5. CASE e \notin Services
    <3>1. ~FuseGains(p)
      BY <2>1 DEF FuseGains, HeldStages, UnmountStages
    <3>2. ~Confirm(p)
      BY DEF Confirm, Return, End, Goto, HeldStages, UnmountStages, OwnedStep, IInv, Types,
         ControlTypes
    <3>3. PICK f \in Services : /\ ServiceOf(p, f) /\ f \in Service /\ pc[p] = "send"
                                /\ e = [f EXCEPT !.virtual = my[p].device, !.loop = my[p].loop]
      BY <2>5, <3>1, <3>2, NewServices
    <3>4. f.volume = e.volume /\ f.dir = e.dir /\ f.state = e.state
      BY <3>3 DEF Service
    <3>. QED
      BY <2>1, <3>3, <3>4
  <2>. QED
    BY <2>4, <2>5
<1>. QED
  BY <1>1, <1>2

\* Nothing is over a loop device that is over an image.
LEMMA ImageUnused ==
    ASSUME Rooted, NEW b, b \in DOMAIN on, NEW i, on[b] = Image(i)
    PROVE  UsedBy(b) = {}
<1>. SUFFICES ASSUME NEW d \in DOMAIN on, on[d] = b PROVE FALSE
  BY DEF UsedBy
<1>1. IsLoop(b)
  BY RootedFacts
<1>2. \E v \in Volumes : on[b] = File(v)
  BY <1>1, RootedFacts
<1>. QED
  BY <1>2 DEF File, Image

\* A loop device over the image of a mount is told to the service, or is detached before
\* the service is unmounted.
LEMMA ShownOfStep ==
    ASSUME NEW p \in Callers, TendedStep(p)
    PROVE  Shown'
<1>. Owned /\ OwnedStep(p) /\ Step(p) /\ Types /\ Roles /\ Clear /\ Rooted /\ Shown
  BY OwnedFacts DEF TendedStep, OwnedStep, Tended
<1>. pc \in [Callers -> Stages] /\ DOMAIN on \subseteq Devices
  BY DEF Types, ControlTypes, TableTypes
<1>. DEFINE On(q, e, b) ==
              /\ ~(arg'[q].layers > 0)
              /\ \/ pc'[q] \in Looped /\ b = my'[q].loop
                 \/ /\ pc'[q] \in {"dropPoint", "recall", "umount", "remove", "detach"}
                    /\ b = e.loop
<1>. SUFFICES ASSUME NEW q \in Callers, NEW e \in Services',
                     arg'[q].volume # None, pc'[q] \in HeldStages \cup UnmountStages,
                     e.volume = arg'[q].volume, e.volume \notin leaked',
                     NEW b \in DOMAIN on', on'[b] = Image(e.dir)
              PROVE  On(q, e, b)
  <2>1. ASSUME NEW q \in Callers, NEW e \in Services', Unfinished(q, e)',
               NEW b \in UsedBy(Image(e.dir))'
        PROVE  On(q, e, b)
    BY <2>1 DEF Unfinished, Mounting, UsedBy, Image
  <2>2. \A q \in Callers : \A e, b : On(q, e, b) => Attached(q, e, b)'
    BY DEF Attached, Native
  <2>. QED
    BY <2>1, <2>2 DEF Shown
<1>0. e.volume \notin leaked
  BY LeakedGrows
<1>1. CASE q # p
  <2>1. /\ pc'[q] = pc[q] /\ arg'[q] = arg[q] /\ my'[q] = my[q]
        /\ Mounting(q) /\ About(q) = e.volume
    BY <1>1, OtherCaller DEF Mounting, About
  <2>2. pc[q] # "idle" /\ pc[p] # "idle"
    BY <2>1, AboutStays DEF HeldStages, UnmountStages
  <2>3. ~Mounting(p)
    BY <1>1, <2>1, <2>2, OwnedFacts DEF Apart
  <2>4. pc[p] \notin {"create", "attach"}
    BY <2>3 DEF Roles, MountStages, HeldStages
  <2>5. b \in DOMAIN on /\ on[b] = Image(e.dir)
    BY <2>4, DevicesBefore DEF Creates, Attaches
  <2>6. e \in Services
    BY <1>1, <2>1, <2>2, OtherCaller, OthersServices
  <2>. QED
    BY <1>0, <2>1, <2>5, <2>6 DEF Shown, Unfinished, Attached, UsedBy, Native
<1>2. CASE q = p
  <2>1. arg' = arg /\ Mounting(p) /\ About(p) = e.volume
    BY <1>2, GoesOn DEF Mounting, About
  <2>2. CASE Creates(p, b)
    <3>1. on'[b] \in DOMAIN on
      BY <2>2, CreatesOver
    <3>. QED
      BY <3>1 DEF Devices, Image
  <2>3. CASE Attaches(p, b)
    <3>1. ~Native(p) /\ b = my'[p].loop
      BY <2>3 DEF Attaches, File, Image
    <3>2. pc'[p] \in Looped
      BY <2>3 DEF Attaches, Attach, Goto, Looped, Building
    <3>. QED
      BY <1>2, <2>1, <3>1, <3>2 DEF Native
  <2>4. CASE b \in DOMAIN on /\ on'[b] = on[b]
    <3>1. on[b] = Image(e.dir) /\ FuseOn(e.dir) /\ UsedBy(b) = {} /\ b \in Devices
      BY <2>4, RootedFacts, ImageUnused
    <3>2. ~(FuseServiceMount(p) /\ e = NewService(p) /\ ~FuseOn(my[p].dir))
      BY <3>1 DEF NewService
    <3>3. PICK own \in Services :
             /\ ServiceOf(p, own) /\ pc[p] \in HeldStages \cup UnmountStages
             /\ own.volume = e.volume /\ own.dir = e.dir
             /\ e = own \/ pc[p] = "send"
      BY <1>2, <2>1, <3>2, OwnAfter
    <3>4. Attached(p, own, b)
      BY <1>0, <2>1, <2>4, <3>1, <3>3 DEF Shown, Unfinished, UsedBy, About
    <3>5. CASE pc[p] \in Looped /\ b = my[p].loop
      <4>1. CASE pc'[p] \in Looped
        <5>1. my'[p].loop = my[p].loop
          BY <3>5, <4>1, LoopKept DEF Attach, At, Looped, Building
        <5>. QED
          BY <1>2, <2>1, <3>4, <3>5, <4>1, <5>1 DEF Attached, Native
      <4>2. CASE pc'[p] \notin Looped
        <5>1. pc'[p] \in {"dropPoint", "recall"} \cup UnmountStages
          <6>1. pc'[p] \notin {"point", "attach"}
            BY <3>5, Enters
          <6>. QED
            BY <1>2, <4>2, <6>1 DEF HeldStages, Looped, Building
        <5>2. \/ UndoLoop(p)
              \/ ~Native(p) /\ (CheckPoint(p) \/ MountFilesystemFails(p))
          BY <3>5, <5>1, GivesUp DEF Cleared, UnmountStages, Looped, Building, MakePoint,
             AttachFails, At
        <5>3. CASE UndoLoop(p)
          <6>1. arg[p].volume \notin leaked'
            BY <1>2, <2>1
          <6>2. on' = IF Busy(my[p].loop) THEN on ELSE Without({my[p].loop})
            BY <5>3, <6>1 DEF UndoLoop, Leak
          <6>3. ~Busy(b)
            BY <3>1, <3>4, <3>5, <5>3 DEF Busy, Clear, Attached, UndoLoop, At, Looped, Mounts
          <6>. QED
            BY <3>5, <6>2, <6>3 DEF Without
        <5>4. CASE ~Native(p) /\ (CheckPoint(p) \/ MountFilesystemFails(p))
          <6>1. pc[p] \in {"checkPoint", "mountFs"} /\ pc'[p] \in {"dropPoint", "mountFs"}
            BY <5>4 DEF CheckPoint, MountFilesystemFails, MountFails, At, Goto
          <6>2. own.loop = my[p].loop
            BY <3>3, <5>4, <6>1 DEF ServiceOf, Sent, HeldStages
          <6>3. e = own
            BY <3>3, <6>1
          <6>. QED
            BY <1>2, <2>1, <3>5, <4>2, <5>4, <6>1, <6>2, <6>3 DEF Looped, Building, Native
        <5>. QED
          BY <5>2, <5>3, <5>4
      <4>. QED
        BY <4>1, <4>2
    <3>6. CASE pc[p] \in {"dropPoint", "recall", "umount", "remove", "detach"} /\ b = own.loop
      <4>1. e = own
        BY <3>3, <3>6
      <4>2. CASE pc[p] = "detach"
        <5>1. my[p].info.loop = b /\ my[p].info.volume = e.volume
          BY <3>3, <3>6, <4>1, <4>2 DEF ServiceOf, UnmountStages
        <5>2. on' = IF b = None \/ Busy(b) THEN on ELSE Without({b})
          BY <4>2, <5>1, WhichStep DEF DetachLoop
        <5>3. ~Busy(b)
          BY <2>1, <3>1, <3>6, <4>1, <4>2 DEF Busy, Clear, Cleared, UnmountStages, Mounts, About
        <5>. QED
          BY <3>1, <5>2, <5>3, UnixMountAssumption DEF Without
      <4>3. CASE pc[p] # "detach"
        <5>1. pc'[p] \in {"dropPoint", "recall", "umount", "remove", "detach"}
          BY <1>2, <3>6, <4>3, WhichStep DEF DropPoint, Recall, UmountFilesystem, RemoveDevices,
             Return, End, Goto, HeldStages, UnmountStages
        <5>. QED
          BY <1>2, <2>1, <3>4, <3>6, <4>1, <5>1 DEF Attached, Native
      <4>. QED
        BY <4>2, <4>3
    <3>. QED
      BY <3>4, <3>5, <3>6 DEF Attached
  <2>. QED
    BY <1>2, <2>2, <2>3, <2>4, DevicesBefore
<1>. QED
  BY <1>1, <1>2

\* A call ends, once it has a service, at one of these steps.
LEMMA Ends ==
    ASSUME NEW p \in Callers, Step(p), pc \in [Callers -> Stages],
           pc[p] \in HeldStages \cup UnmountStages, pc'[p] \notin HeldStages \cup UnmountStages
    PROVE  Confirm(p) \/ Recall(p) \/ UmountFilesystem(p) \/ RemoveDevices(p) \/ UmountAux(p)
<1>. USE DEF At, Goto, HeldStages, UnmountStages
<1>1. ~(\/ CoalesceSlotNumberAndMountPoint(p) \/ CheckMounted(p) \/ OpenFails(p) \/ Scan(p)
        \/ ClearDirectory(p) \/ MakeDirectory(p) \/ FuseServiceMount(p) \/ FuseServiceFails(p)
        \/ DropDirectory(p))
  BY DEF CoalesceSlotNumberAndMountPoint, CheckMounted, OpenFails, Scan, ClearDirectory,
     MakeDirectory, FuseServiceMount, FuseServiceFails, DropDirectory
<1>2. ~(\/ MakePoint(p) \/ Attach(p) \/ AttachFails(p) \/ CreateDevice(p) \/ CreateFails(p)
        \/ TestDevice(p) \/ CheckPoint(p) \/ MountFilesystem(p) \/ MountFilesystemFails(p))
  BY DEF MakePoint, Attach, AttachFails, CreateDevice, CreateFails, TestDevice, CheckPoint,
     MountFilesystem, MountFilesystemFails, MountFails
<1>3. ~(\/ SendAuxDeviceInfo(p) \/ SendFails(p) \/ UndoFilesystem(p) \/ UndoDevice(p)
        \/ UndoLoop(p) \/ DropPoint(p) \/ DetachLoop(p))
  BY DEF SendAuxDeviceInfo, SendFails, UndoFilesystem, UndoDevice, UndoLoop, DropPoint, DetachLoop
<1>. QED
  BY <1>1, <1>2, <1>3 DEF Step

\* A call that ends within the care of a service has completed, unmounted or left it.
LEMMA BegunOfStep ==
    ASSUME NEW p \in Callers, TendedStep(p)
    PROVE  Begun'
<1>. Owned /\ OwnedStep(p) /\ Step(p) /\ Types /\ Roles /\ Clear /\ Shown /\ Begun /\ Named
  BY OwnedFacts DEF TendedStep, OwnedStep, Tended
<1>. pc \in [Callers -> Stages] /\ Services \subseteq Service /\ pc[p] # "idle"
  BY ServiceTypes, AboutStays DEF Types, ControlTypes
<1>. SUFFICES ASSUME NEW e \in Services', e.state = "new", e.volume \notin leaked'
              PROVE  \E q \in Callers : /\ arg'[q].volume = e.volume
                                        /\ pc'[q] \in HeldStages \cup UnmountStages
  BY DEF Begun
<1>0. e.volume \notin leaked
  BY LeakedGrows
<1>1. ASSUME e \in Services, NEW q \in Callers, q # p, arg[q].volume = e.volume,
             pc[q] \in HeldStages \cup UnmountStages
      PROVE  arg'[q].volume = e.volume /\ pc'[q] \in HeldStages \cup UnmountStages
  BY <1>1, OtherCaller
<1>2. CASE e.volume # About(p)
  <2>1. e \in Services
    BY <1>2, OthersServices
  <2>2. PICK q \in Callers : arg[q].volume = e.volume /\ pc[q] \in HeldStages \cup UnmountStages
    BY <1>0, <2>1 DEF Begun
  <2>3. e.volume # None
    BY <2>1, UnixMountAssumption DEF Service
  <2>4. q # p
    BY <1>2, <2>2, <2>3 DEF About, Mounting
  <2>. QED
    BY <1>1, <2>1, <2>2, <2>4
<1>3. CASE e.volume = About(p) /\ pc'[p] \in HeldStages \cup UnmountStages
  <2>1. arg' = arg
    BY <1>3, GoesOn
  <2>2. Mounting(p)
    <3>1. CASE FuseServiceMount(p)
      BY <3>1 DEF FuseServiceMount, At, Roles, MountStages, EarlyStages
    <3>2. ASSUME NEW own \in Services, ServiceOf(p, own),
                 pc[p] \in HeldStages \cup UnmountStages, own.state = "new"
          PROVE  Mounting(p)
      BY <3>2 DEF ServiceOf, Roles, MountStages
    <3>. QED
      BY <1>3, <3>1, <3>2, OwnAfter
  <2>. QED
    BY <1>3, <2>1, <2>2 DEF About, Mounting
<1>4. CASE /\ e.volume = About(p) /\ pc[p] \notin HeldStages \cup UnmountStages
           /\ pc'[p] \notin HeldStages \cup UnmountStages
  <2>1. CASE e \in Services
    <3>1. PICK q \in Callers : arg[q].volume = e.volume /\ pc[q] \in HeldStages \cup UnmountStages
      BY <1>0, <2>1 DEF Begun
    <3>2. q # p
      BY <1>4, <3>1
    <3>. QED
      BY <1>1, <2>1, <3>1, <3>2
  <2>2. CASE e \notin Services
    <3>1. FuseGains(p) /\ pc[p] = "fuse"
      BY <1>4, <2>2, NewServices DEF FuseGains, HeldStages
    <3>2. ~FuseServiceMount(p)
      BY <1>4 DEF FuseServiceMount, Goto, HeldStages
    <3>3. Mounting(p)
      BY <3>1 DEF Roles, MountStages, EarlyStages
    <3>4. fuse' # fuse
      BY <2>2 DEF Services
    <3>5. arg[p].volume \in leaked'
      BY <3>1, <3>2, <3>4, WhichStep DEF FuseServiceFails, Leak
    <3>. QED
      BY <1>4, <3>3, <3>5 DEF About
  <2>. QED
    BY <2>1, <2>2
<1>5. CASE /\ e.volume = About(p) /\ pc[p] \in HeldStages \cup UnmountStages
           /\ pc'[p] \notin HeldStages \cup UnmountStages
  <2>1. PICK own \in Services : ServiceOf(p, own)
    BY <1>5, OwnService
  <2>2. /\ own.volume = About(p)
        /\ \A f \in Services : f.volume = About(p) => f = own
    BY <1>5, <2>1, OwnVolume
  <2>3. Confirm(p) \/ Recall(p) \/ UmountFilesystem(p) \/ RemoveDevices(p) \/ UmountAux(p)
    BY <1>5, Ends
  <2>4. CASE Confirm(p)
    <3>1. Services' = (Services \ {own}) \cup {[own EXCEPT !.state = "mounted"]}
      BY <2>1, <2>4, Confirms
    <3>2. [own EXCEPT !.state = "mounted"].state = "mounted"
      BY DEF Service
    <3>3. e \in Services \ {own}
      BY <3>1, <3>2
    <3>. QED
      BY <1>5, <2>2, <3>3
  <2>5. CASE Recall(p)
    <3>1. pc[p] = "recall" /\ Listed(arg[p].volume) = {}
      BY <1>5, <2>5 DEF Recall, At, Goto, UnmountStages
    <3>2. own.volume = arg[p].volume
      BY <2>1, <3>1 DEF ServiceOf, HeldStages
    <3>. QED
      BY <3>1, <3>2 DEF Listed, Services
  <2>6. CASE UmountFilesystem(p) \/ RemoveDevices(p)
    <3>0. pc[p] \in {"umount", "remove"} /\ fuse' = fuse
      BY <2>6 DEF UmountFilesystem, RemoveDevices, At
    <3>1. pc[p] \in {"umount", "remove"} /\ Services' = Services
      BY <3>0 DEF Services
    <3>2. e = own
      BY <1>5, <2>2, <3>1
    <3>3. Mounting(p)
      BY <2>1, <3>1, <3>2 DEF ServiceOf, UnmountStages
    <3>4. my[p].info.virtual = own.virtual /\ own.volume = arg[p].volume
      BY <2>1, <2>2, <3>1, <3>3 DEF ServiceOf, UnmountStages, About
    <3>5. my[p].info.point = None /\ own.virtual = own.loop
      BY <3>1, <3>3, <3>4 DEF Clear, Cleared, UnmountStages
    <3>6. own.virtual = None \/ own.virtual[1] # "dm"
      BY <3>5 DEF Named, IsLoop, Loop
    <3>7. CASE UmountFilesystem(p)
      BY <1>5, <3>5, <3>7 DEF UmountFilesystem, Goto, UnmountStages
    <3>8. CASE RemoveDevices(p)
      BY <1>5, <3>4, <3>6, <3>8 DEF RemoveDevices, Goto, UnmountStages
    <3>. QED
      BY <2>6, <3>7, <3>8
  <2>7. CASE UmountAux(p)
    <3>1. Services' # Services \ {own}
      BY <1>5, <2>2
    <3>2. /\ Services' = Services
          /\ UsedBy(Image(own.dir)) = {} /\ Mounting(p) => arg[p].volume \in leaked'
      BY <2>1, <2>7, <3>1, Unlists
    <3>3. e = own /\ pc[p] = "umountAux"
      BY <1>5, <2>2, <2>7, <3>2 DEF UmountAux, At
    <3>4. Mounting(p)
      BY <2>1, <3>3 DEF ServiceOf, UnmountStages
    <3>5. own.volume = arg[p].volume
      BY <2>2, <3>4 DEF About
    <3>6. UsedBy(Image(own.dir)) = {}
      BY <1>0, <3>3, <3>4, <3>5 DEF Shown, Unfinished, Attached, UnmountStages, Looped, Building
    <3>. QED
      BY <3>2, <3>3, <3>4, <3>5, <3>6
  <2>. QED
    BY <2>3, <2>4, <2>5, <2>6, <2>7
<1>. QED
  BY <1>2, <1>3, <1>4, <1>5

\* What it takes to keep, or to have made, what is over a loop device after a step.
LEMMA KeptAfter ==
    ASSUME NEW e, NEW b, e.loop = b, e.virtual = Mapped(e.slot, 0),
           \A d \in DOMAIN on' : on'[d] = b =>
              \E l \in Nat : d = Mapped(e.slot, l) /\
                             \A k \in 0 .. l : Mapped(e.slot, k) \in DOMAIN on',
           \A r \in Callers :
              /\ pc'[r] = "detach" /\ my'[r].info.volume = e.volume =>
                    \A d \in DOMAIN on' : on'[d] # b
              /\ pc'[r] = "umountAux" => my'[r].info.volume # e.volume
    PROVE  Kept(e, b)'
<1>1. (e.loop = b)' /\ (e.virtual = Mapped(e.slot, 0))'
  BY DEF Mapped
<1>2. \A d \in UsedBy(b)' : Reaches(e.slot, d)'
  BY DEF UsedBy, Reaches, Exists, Mapped
<1>3. \A r \in Callers :
        /\ pc'[r] = "detach" /\ my'[r].info.volume = e.volume => UsedBy(b)' = {}
        /\ pc'[r] = "umountAux" => my'[r].info.volume # e.volume
  BY DEF UsedBy
<1>. QED
  BY <1>1, <1>2, <1>3 DEF Kept

\* The part of Made that is about one device over the loop device.
Stage(at, request, l, devices, d) ==
    /\ l.built > 0 /\ at # "undoLoop"
    /\ at \in Building =>
          /\ d = Mapped(l.slot, request.layers - 1)
          /\ \A k \in request.layers - l.built .. request.layers - 1 : Mapped(l.slot, k) \in devices
    /\ at \in {"undoFs", "undoDevice"} =>
          /\ l.device = Mapped(l.slot, 0)
          /\ \E n \in Nat : d = Mapped(l.slot, n) /\ \A k \in 0 .. n : Mapped(l.slot, k) \in devices

\* Made in these terms, before and after a step.
LEMMA MadeAs ==
    ASSUME NEW q \in Callers, NEW v, NEW b
    PROVE  /\ Made(q, v, b) <=>
              /\ pc[q] \in Looped \ {"confirm"} /\ arg[q].layers > 0 /\ arg[q].volume = v
              /\ my[q].loop = b
              /\ \A d \in DOMAIN on : on[d] = b => Stage(pc[q], arg[q], my[q], DOMAIN on, d)
           /\ Made(q, v, b)' <=>
              /\ pc'[q] \in Looped \ {"confirm"} /\ arg'[q].layers > 0 /\ arg'[q].volume = v
              /\ my'[q].loop = b
              /\ \A d \in DOMAIN on' : on'[d] = b => Stage(pc'[q], arg'[q], my'[q], DOMAIN on', d)
BY DEF Made, Stage, Native, UsedBy, Reaches, Exists, Mapped

\* A device that is over a loop device of a volume was so before, or is the first that the
\* mount of the volume creates.
LEMMA UsersBefore ==
    ASSUME NEW p \in Callers, TendedStep(p), NEW v \in Volumes, NEW b \in DOMAIN on,
           on[b] = File(v),
           NEW d \in DOMAIN on', on'[d] = b
    PROVE  \/ d \in DOMAIN on /\ on[d] = b
           \/ Creates(p, d) /\ my[p].built = 0 /\ arg[p].volume = v /\ About(p) = v
<1>. Rooted /\ DOMAIN on \subseteq Devices
  BY OwnedFacts DEF TendedStep, OwnedStep, Tended, Types, TableTypes
<1>1. IsLoop(b) /\ v # None
  BY RootedFacts, UnixMountAssumption
<1>2. CASE Creates(p, d)
  <2>1. my[p].built = 0
    BY <1>1, <1>2, CreatesOver DEF IsLoop, Loop, Mapped
  <2>2. OverFile(b, arg[p].volume)
    BY <1>2, <2>1, CreatesOver
  <2>3. arg[p].volume = v
    BY <2>2 DEF OverFile, File
  <2>. QED
    BY <1>1, <1>2, <2>1, <2>3 DEF About, Mounting
<1>3. ~Attaches(p, d)
  BY <1>1 DEF Attaches, File, Image, IsLoop, Loop
<1>. QED
  BY <1>2, <1>3, DevicesBefore

\* A caller leaves alone what the service of another volume keeps.
LEMMA KeptOfOther ==
    ASSUME NEW p \in Callers, TendedStep(p), NEW e \in Services, e.volume # About(p),
           e.volume \in Volumes,
           NEW b \in DOMAIN on, on[b] = File(e.volume), Kept(e, b)
    PROVE  e \in Services' /\ Kept(e, b)'
<1>. Owned /\ OwnedStep(p) /\ Step(p) /\ Types /\ Roles'
  BY OwnedFacts DEF TendedStep, OwnedStep, IInv
<1>1. e \in Services'
  BY OthersServices
<1>2. \A d \in DOMAIN on' : on'[d] = b => d \in DOMAIN on /\ on[d] = b
  BY UsersBefore
<1>3. \A k : Mapped(e.slot, k) \in DOMAIN on => Mapped(e.slot, k) \in DOMAIN on'
  BY MappedSpared, DevicesOfStep
<1>4. \A d \in DOMAIN on : on[d] = b => Reaches(e.slot, d)
  BY DEF Kept, UsedBy
<1>5. ASSUME NEW d \in DOMAIN on', on'[d] = b
      PROVE  \E l \in Nat : d = Mapped(e.slot, l) /\
                            \A k \in 0 .. l : Mapped(e.slot, k) \in DOMAIN on'
  BY <1>2, <1>3, <1>4, <1>5 DEF Reaches, Exists
<1>6. ASSUME NEW r \in Callers
      PROVE  /\ pc'[r] = "detach" /\ my'[r].info.volume = e.volume =>
                   \A d \in DOMAIN on' : on'[d] # b
             /\ pc'[r] = "umountAux" => my'[r].info.volume # e.volume
  <2>1. CASE r # p
    <3>1. pc'[r] = pc[r] /\ my'[r] = my[r]
      BY <2>1, OtherCaller
    <3>. QED
      BY <1>2, <3>1 DEF Kept, UsedBy
  <2>2. CASE r = p
    <3>1. pc'[p] \in UnmountStages => my'[p].info.volume = About(p)
      BY GoesOn DEF Roles
    <3>. QED
      BY <2>2, <3>1 DEF UnmountStages
  <2>. QED
    BY <2>1, <2>2
<1>7. e.loop = b /\ e.virtual = Mapped(e.slot, 0)
  BY DEF Kept
<1>. QED
  BY <1>1, <1>5, <1>6, <1>7, KeptAfter

\* No file system is on a loop device of a volume; nothing else says it is busy.
LEMMA NotBusy ==
    ASSUME Placed, NEW b \in DOMAIN on, NEW v, on[b] = File(v), IsLoop(b), UsedBy(b) = {}
    PROVE  ~Busy(b)
BY DEF Placed, Busy, Mounts, File, Image, IsLoop, Loop, Mapped

\* The service of the caller keeps what it has, until the caller has removed all of it.
LEMMA KeptOfOwn ==
    ASSUME NEW p \in Callers, TendedStep(p), NEW e \in Services, e.volume = About(p),
           e.volume \in Volumes,
           e.volume \notin leaked',
           NEW b \in DOMAIN on, b \in DOMAIN on', on[b] = File(e.volume), Kept(e, b)
    PROVE  \E f \in Services' : f.volume = e.volume /\ Kept(f, b)'
<1>. Owned /\ OwnedStep(p) /\ Step(p) /\ Types /\ Roles /\ Rooted /\ Placed /\ Clear
  BY OwnedFacts DEF TendedStep, OwnedStep, Tended
<1>. pc \in [Callers -> Stages] /\ e \in Service /\ b \in Devices /\ e.slot \in Nat
  BY ServiceTypes DEF Types, ControlTypes, TableTypes, Service
<1>0. e.loop = b /\ e.virtual = Mapped(e.slot, 0) /\ IsLoop(b) /\ e.virtual # e.loop /\ e.loop # None
  BY RootedFacts, UnixMountAssumption DEF Kept, IsLoop, Loop, Mapped
<1>1. /\ \A d \in DOMAIN on : on[d] = b => Reaches(e.slot, d)
      /\ \A r \in Callers :
          /\ pc[r] = "detach" /\ my[r].info.volume = e.volume => \A d \in DOMAIN on : on[d] # b
          /\ pc[r] = "umountAux" => my[r].info.volume # e.volume
  BY DEF Kept, UsedBy
<1>2. \A r \in Callers : r # p => pc'[r] = pc[r] /\ my'[r] = my[r]
  BY OtherCaller
\* Steps that leave the devices alone and do not lead to where there may be none.
<1>a. ASSUME DOMAIN on' = DOMAIN on, \A d \in DOMAIN on : on'[d] = on[d], pc'[p] \notin {"detach",
             "umountAux"},
             NEW f \in Services', f.volume = e.volume, f.slot = e.slot, f.loop = e.loop,
             f.virtual = e.virtual
      PROVE  Kept(f, b)'
  <2>1. \A d \in DOMAIN on' : on'[d] = b =>
              \E l \in Nat : d = Mapped(f.slot, l) /\
                             \A k \in 0 .. l : Mapped(f.slot, k) \in DOMAIN on'
    BY <1>1, <1>a DEF Reaches, Exists
  <2>2. ASSUME NEW r \in Callers
        PROVE  /\ pc'[r] = "detach" /\ my'[r].info.volume = f.volume =>
                     \A d \in DOMAIN on' : on'[d] # b
               /\ pc'[r] = "umountAux" => my'[r].info.volume # f.volume
    <3>1. CASE r = p
      BY <1>a, <3>1
    <3>2. CASE r # p
      BY <1>1, <1>2, <1>a, <3>2
    <3>. QED
      BY <3>1, <3>2
  <2>. QED
    BY <1>0, <1>a, <2>1, <2>2, KeptAfter
<1>3. CASE pc[p] \in EarlyStages
  <2>1. ~OnSteps(p) /\ pc'[p] \notin {"detach", "umountAux"}
    <3>1. ~OnSteps(p)
      BY <1>3 DEF OnSteps, EarlyStages, Attach, CreateDevice, CreateFails, UndoDevice, UndoLoop,
         RemoveDevices, DetachLoop, At
    <3>2. pc'[p] \in {"detach", "umountAux"} => FuseServiceMount(p)
      BY <1>3, GoesOn DEF EarlyStages, HeldStages, UnmountStages
    <3>. QED
      BY <3>1, <3>2 DEF FuseServiceMount, Goto
  <2>2. on' = on
    BY <2>1, TablesKept
  <2>3. e \in Services'
    <3>1. CASE FuseSteps(p)
      <4>1. FuseServiceMount(p) \/ FuseServiceFails(p)
        BY <1>3, <3>1 DEF FuseSteps, EarlyStages, SendAuxDeviceInfo, Confirm, UmountAux, At
      <4>2. fuse' = fuse \/ FuseGains(p)
        BY <4>1 DEF FuseServiceMount, FuseServiceFails, FuseGains, At
      <4>. QED
        BY <4>2, Adds DEF Services
    <3>2. CASE ~FuseSteps(p)
      BY <3>2, TablesKept DEF Services
    <3>. QED
      BY <3>1, <3>2
  <2>. QED
    BY <1>a, <2>1, <2>2, <2>3
<1>4. ASSUME pc[p] \in HeldStages \cup UnmountStages PROVE ServiceOf(p, e)
  <2>1. PICK own \in Services : ServiceOf(p, own)
    BY <1>4, OwnService
  <2>2. e = own
    BY <1>4, <2>1, OwnVolume
  <2>. QED
    BY <2>1, <2>2
<1>5. CASE pc[p] \in HeldStages
  <2>1. Mounting(p) /\ e.volume = arg[p].volume
    BY <1>5 DEF Roles, MountStages, About
  <2>2. pc[p] \notin {"dropPoint", "recall"}
    BY <1>0, <2>1 DEF Clear, Cleared
  <2>3. Sent(p)
    BY <1>0, <1>4, <1>5, <2>2 DEF ServiceOf, NotSent
  <2>4. Native(p) \/ pc[p] = "confirm"
    <3>. SUFFICES ASSUME ~Native(p), pc[p] \in {"checkPoint", "mountFs"} PROVE FALSE
      BY <2>3 DEF Sent
    <3>1. my[p].device = my[p].loop
      BY ShapeFacts DEF Native, Building
    <3>2. e.virtual = my[p].device /\ e.loop = my[p].loop
      BY <1>4, <1>5, <2>3 DEF ServiceOf
    <3>. QED
      BY <1>0, <3>1, <3>2
  <2>5. Confirm(p)
    BY <2>3, <2>4, WhichStep DEF Sent
  <2>6. [e EXCEPT !.state = "mounted"] \in Services'
    BY <1>4, <1>5, <2>5, Confirms
  <2>7. on' = on /\ pc'[p] = "idle"
    BY <2>5 DEF Confirm, Return, End, Goto
  <2>. DEFINE f == [e EXCEPT !.state = "mounted"]
  <2>8. f.volume = e.volume /\ f.slot = e.slot /\ f.loop = e.loop /\ f.virtual = e.virtual
    BY DEF Service
  <2>. HIDE DEF f
  <2>9. f \in Services'
    BY <2>6 DEF f
  <2>. QED
    BY <1>a, <2>7, <2>8, <2>9
<1>6. CASE pc[p] \in UnmountStages
  <2>1. my[p].info.volume = e.volume /\ my[p].info.virtual = e.virtual /\ my[p].info.loop = b
    BY <1>0, <1>4, <1>6 DEF ServiceOf
  <2>2. CASE pc[p] = "umount"
    <3>1. UmountFilesystem(p)
      BY <2>2, WhichStep
    <3>2. on' = on /\ fuse' = fuse /\ pc'[p] \in {"remove", "idle"}
      BY <3>1 DEF UmountFilesystem, Return, End, Goto
    <3>3. Services' = Services
      BY <3>2 DEF Services
    <3>. QED
      BY <1>a, <3>2, <3>3
  <2>3. CASE pc[p] = "remove"
    <3>1. RemoveDevices(p) /\ fuse' = fuse
      BY <2>3, WhichStep DEF RemoveDevices
    <3>2. Services' = Services
      BY <3>1 DEF Services
    <3>. DEFINE x == Mapped(e.slot, 0)
    <3>3. x # None /\ x[1] = "dm" /\ my[p].info.virtual = x
      BY <1>0, <2>1, UnixMountAssumption DEF Mapped, Devices
    <3>4. \/ on' = Without(Removable(x)) /\ (Removable(x) # Chain(x) => pc'[p] = "idle")
          \/ on' = on /\ pc'[p] = "idle"
      BY <3>1, <3>3 DEF RemoveDevices, Return, End, Goto
    <3>5. on' = Without({}) => DOMAIN on' = DOMAIN on /\ \A d \in DOMAIN on : on'[d] = on[d]
      BY DEF Without
    <3>6. CASE /\ DOMAIN on' = DOMAIN on /\ \A d \in DOMAIN on : on'[d] = on[d]
               /\ pc'[p] = "idle"
      BY <1>a, <3>2, <3>6
    <3>7. CASE Removable(x) = Chain(x) /\ on' = Without(Chain(x))
      <4>1. \A d \in DOMAIN on' : d \in DOMAIN on /\ on'[d] = on[d] /\ d \notin Chain(x)
        BY <3>7 DEF Without
      <4>2. \A d \in DOMAIN on : on[d] = b => d \in Chain(x)
        BY <1>1, RemovableIsAll
      <4>3. \A d \in DOMAIN on' : on'[d] # b
        BY <4>1, <4>2
      <4>4. ASSUME NEW r \in Callers PROVE pc'[r] = "umountAux" => my'[r].info.volume # e.volume
        <5>1. pc'[p] \in {"idle", "detach"}
          BY <3>1 DEF RemoveDevices, Return, End, Goto
        <5>2. CASE r = p
          BY <5>1, <5>2
        <5>3. CASE r # p
          BY <1>1, <1>2, <5>3
        <5>. QED
          BY <5>2, <5>3
      <4>5. Kept(e, b)'
        BY <1>0, <4>3, <4>4, KeptAfter
      <4>. QED
        BY <3>2, <4>5
    <3>8. Removable(x) \in {{}, Chain(x)}
      BY RemovableIsAll
    <3>9. CASE on' = on /\ pc'[p] = "idle"
      BY <3>6, <3>9
    <3>10. CASE Removable(x) = {} /\ Removable(x) # Chain(x) /\ on' = Without(Removable(x))
      BY <3>4, <3>5, <3>6, <3>9, <3>10
    <3>. QED
      BY <3>4, <3>7, <3>8, <3>9, <3>10
  <2>4. CASE pc[p] = "detach"
    <3>1. DetachLoop(p)
      BY <2>4, WhichStep
    <3>2. on' = IF b = None \/ Busy(b) THEN on ELSE Without({b})
      BY <2>1, <3>1 DEF DetachLoop
    <3>3. UsedBy(b) = {}
      BY <1>1, <2>1, <2>4 DEF UsedBy
    <3>4. ~Busy(b)
      BY <1>0, <3>3, NotBusy
    <3>. QED
      BY <1>0, <3>2, <3>4 DEF Without
  <2>5. CASE pc[p] = "umountAux"
    BY <1>1, <2>1, <2>5
  <2>. QED
    BY <1>6, <2>2, <2>3, <2>4, <2>5 DEF UnmountStages
<1>7. pc[p] \in EarlyStages \cup HeldStages \cup UnmountStages
  BY AboutStays DEF Stages, MountStages
<1>. QED
  BY <1>3, <1>5, <1>6, <1>7

\* A caller leaves alone what another one has made.
LEMMA MadeOfOther ==
    ASSUME NEW p \in Callers, TendedStep(p), NEW q \in Callers, q # p, NEW v \in Volumes,
           NEW b \in DOMAIN on, on[b] = File(v), Made(q, v, b)
    PROVE  Made(q, v, b)'
<1>. Owned /\ OwnedStep(p) /\ Step(p) /\ Types /\ Roles
  BY OwnedFacts DEF TendedStep, OwnedStep
<1>1. /\ pc[q] \in Looped \ {"confirm"} /\ arg[q].layers > 0 /\ arg[q].volume = v /\ my[q].loop = b
      /\ \A d \in DOMAIN on : on[d] = b => Stage(pc[q], arg[q], my[q], DOMAIN on, d)
  BY MadeAs
<1>2. /\ pc[q] \in HeldStages /\ pc[q] \in MountStages /\ pc[q] # "idle"
  BY <1>1 DEF Looped, Building, HeldStages, MountStages
<1>3. /\ pc'[q] = pc[q] /\ arg'[q] = arg[q] /\ my'[q] = my[q]
      /\ About(q) = v /\ About(q) # About(p)
  BY <1>1, <1>2, OtherCaller
<1>4. PICK e \in Services : ServiceOf(q, e) /\ e.slot = my[q].slot /\ e.volume = v
  BY <1>1, <1>2, OwnService DEF ServiceOf
<1>5. \A k : Mapped(my[q].slot, k) \in DOMAIN on => Mapped(my[q].slot, k) \in DOMAIN on'
  BY <1>3, <1>4, MappedSpared, DevicesOfStep
<1>6. ASSUME NEW d \in DOMAIN on', on'[d] = b
      PROVE  Stage(pc'[q], arg'[q], my'[q], DOMAIN on', d)
  <2>1. d \in DOMAIN on /\ on[d] = b
    BY <1>3, <1>6, UsersBefore
  <2>2. Stage(pc[q], arg[q], my[q], DOMAIN on, d)
    BY <1>1, <2>1
  <2>. QED
    BY <1>3, <1>5, <2>2 DEF Stage
<1>. QED
  BY <1>1, <1>3, <1>6, MadeAs

\* What a mount has over its loop device once it has created all devices of its cascade.
LEMMA AllBuilt ==
    ASSUME NEW p \in Callers, TendedStep(p), pc[p] \in Building \ {"create"}, arg[p].layers > 0,
           NEW devices, NEW d, Stage(pc[p], arg[p], my[p], devices, d)
    PROVE  /\ my[p].built > 0 /\ my[p].device = Mapped(my[p].slot, 0)
           /\ \E n \in Nat : /\ d = Mapped(my[p].slot, n)
                             /\ \A k \in 0 .. n : Mapped(my[p].slot, k) \in devices
<1>. Owned
  BY DEF TendedStep, OwnedStep
<1>1. /\ arg[p].layers \in Nat /\ my[p].built \in Nat /\ my[p].built = arg[p].layers
      /\ my[p].device = Mapped(my[p].slot, 0)
  BY ShapeFacts
<1>2. /\ d = Mapped(my[p].slot, arg[p].layers - 1)
      /\ \A k \in arg[p].layers - my[p].built .. arg[p].layers - 1 : Mapped(my[p].slot, k) \in devices
  BY DEF Stage
<1>3. arg[p].layers - 1 \in Nat /\ arg[p].layers - my[p].built = 0
  BY <1>1
<1>. QED
  BY <1>1, <1>2, <1>3

\* A mount tells its service of what it has made, or takes it back.
LEMMA MadeOfOwn ==
    ASSUME NEW p \in Callers, TendedStep(p), NEW v \in Volumes, v \notin leaked',
           NEW b \in DOMAIN on, b \in DOMAIN on', on[b] = File(v), Made(p, v, b)
    PROVE  \/ \E f \in Services' : f.volume = v /\ Kept(f, b)'
           \/ Made(p, v, b)'
<1>. Owned /\ OwnedStep(p) /\ Step(p) /\ Types /\ Roles /\ Rooted /\ Placed
  BY OwnedFacts DEF TendedStep, OwnedStep, Tended
<1>. /\ pc \in [Callers -> Stages] /\ my \in [Callers -> Local] /\ my[p] \in Local
     /\ b \in Devices /\ IsLoop(b) /\ my[p].slot \in Nat
  BY RootedFacts DEF Types, ControlTypes, TableTypes, Local
<1>1. /\ pc[p] \in Looped \ {"confirm"} /\ arg[p].layers > 0 /\ arg[p].volume = v /\ my[p].loop = b
      /\ \A d \in DOMAIN on : on[d] = b => Stage(pc[p], arg[p], my[p], DOMAIN on, d)
      /\ Native(p) /\ About(p) = v
  BY MadeAs, UnixMountAssumption DEF Native, About, Mounting
\* Steps that leave the devices alone.
<1>a. ASSUME on' = on, arg' = arg, my'[p].loop = my[p].loop, my'[p].slot = my[p].slot,
             my'[p].built = my[p].built, my'[p].device = my[p].device,
             pc[p] \in Building \ {"create"} \/ pc[p] = "undoFs",
             pc'[p] \in {"checkPoint", "mountFs", "send", "undoFs", "undoDevice"},
             pc[p] = "undoFs" => pc'[p] = "undoDevice"
      PROVE  Made(p, v, b)'
  <2>1. ASSUME NEW d \in DOMAIN on, on[d] = b
        PROVE  Stage(pc'[p], arg[p], my'[p], DOMAIN on, d)
    <3>1. Stage(pc[p], arg[p], my[p], DOMAIN on, d)
      BY <1>1, <2>1
    <3>2. CASE pc'[p] \in Building
      <4>1. pc[p] \in Building /\ pc'[p] \notin {"undoLoop", "undoFs", "undoDevice"}
        BY <1>a, <3>2 DEF Building
      <4>. QED
        BY <1>a, <3>1, <3>2, <4>1 DEF Stage
    <3>3. CASE pc'[p] \in {"undoFs", "undoDevice"} /\ pc[p] # "undoFs"
      <4>1. /\ my[p].built > 0 /\ my[p].device = Mapped(my[p].slot, 0)
            /\ \E n \in Nat : /\ d = Mapped(my[p].slot, n)
                              /\ \A k \in 0 .. n : Mapped(my[p].slot, k) \in DOMAIN on
        BY <1>1, <1>a, <3>1, <3>3, AllBuilt
      <4>. QED
        BY <1>a, <3>3, <4>1 DEF Stage, Building
    <3>4. CASE pc[p] = "undoFs"
      BY <1>a, <3>1, <3>4 DEF Stage, Building
    <3>. QED
      BY <1>a, <3>2, <3>3, <3>4 DEF Building
  <2>2. pc'[p] \in Looped \ {"confirm"}
    BY <1>a DEF Looped, Building
  <2>. QED
    BY <1>1, <1>a, <2>1, <2>2, MadeAs
<1>2. CASE pc[p] = "create"
  <2>0. /\ arg[p].layers \in Nat /\ my[p].built \in Nat /\ my[p].built < arg[p].layers
        /\ NewDevice(p) = Mapped(my[p].slot, arg[p].layers - 1 - my[p].built)
    BY <1>2, ShapeFacts DEF Building, NewDevice
  <2>1. CASE CreateDevice(p)
    <3>1. /\ on' = With(NewDevice(p), my[p].device) /\ arg' = arg
          /\ my'[p].loop = my[p].loop /\ my'[p].slot = my[p].slot /\ my'[p].built = my[p].built + 1
          /\ pc'[p] \in {"create", "test"} /\ pc[p] = "create"
      BY <2>1 DEF CreateDevice, Set, Goto, Inside, Local, At
    <3>2. NewDevice(p) \in DOMAIN on' /\ DOMAIN on \subseteq DOMAIN on'
      BY <3>1 DEF With
    <3>3. ASSUME NEW d \in DOMAIN on', on'[d] = b
          PROVE  Stage(pc'[p], arg'[p], my'[p], DOMAIN on', d)
      <4>1. /\ d = Mapped(my[p].slot, arg[p].layers - 1)
            /\ \A k \in arg[p].layers - my[p].built .. arg[p].layers - 1 :
                  Mapped(my[p].slot, k) \in DOMAIN on'
        <5>1. CASE d \in DOMAIN on /\ on[d] = b
          <6>1. Stage(pc[p], arg[p], my[p], DOMAIN on, d)
            BY <1>1, <5>1
          <6>. QED
            BY <1>2, <3>2, <6>1 DEF Stage, Building
        <5>2. CASE Creates(p, d) /\ my[p].built = 0
          <6>1. d = NewDevice(p) /\ arg[p].layers - 1 - my[p].built = arg[p].layers - 1
            BY <2>0, <5>2 DEF Creates
          <6>2. \A k \in arg[p].layers - my[p].built .. arg[p].layers - 1 : FALSE
            BY <2>0, <5>2
          <6>. QED
            BY <2>0, <6>1, <6>2
        <5>. QED
          BY <3>3, <5>1, <5>2, UsersBefore
      <4>2. ASSUME NEW k \in arg[p].layers - (my[p].built + 1) .. arg[p].layers - 1
            PROVE  Mapped(my[p].slot, k) \in DOMAIN on'
        <5>1. k = arg[p].layers - 1 - my[p].built \/
              k \in arg[p].layers - my[p].built .. arg[p].layers - 1
          BY <2>0, <4>2
        <5>. QED
          BY <2>0, <3>2, <4>1, <5>1
      <4>3. my'[p].built > 0
        BY <2>0, <3>1
      <4>. QED
        BY <3>1, <4>1, <4>2, <4>3 DEF Stage
    <3>4. pc'[p] \in Looped \ {"confirm"}
      BY <3>1 DEF Looped, Building
    <3>. QED
      BY <1>1, <3>1, <3>3, <3>4, MadeAs
  <2>2. CASE CreateFails(p)
    <3>1. /\ my[p].built = 0 /\ on' = on
      BY <1>1, <2>0, <2>2 DEF CreateFails
    <3>2. arg' = arg /\ my'[p].loop = my[p].loop /\ pc'[p] = "undoDevice"
      BY <2>2 DEF CreateFails, Set, Goto, Inside, Local
    <3>3. \A d \in DOMAIN on : on[d] # b
      BY <1>1, <3>1 DEF Stage
    <3>. QED
      BY <1>1, <3>1, <3>2, <3>3, MadeAs DEF Looped
  <2>. QED
    BY <1>2, <2>1, <2>2, WhichStep
<1>3. CASE pc[p] = "test"
  <2>1. /\ on' = on /\ arg' = arg /\ my' = my /\ pc'[p] \in {"checkPoint", "send", "undoDevice"}
    BY <1>3, WhichStep DEF TestDevice, system, Goto, Inside
  <2>. QED
    BY <1>3, <1>a, <2>1 DEF Building
<1>4. CASE pc[p] \in {"checkPoint", "mountFs"}
  <2>1. CheckPoint(p) \/ MountFilesystem(p) \/ MountFilesystemFails(p)
    BY <1>4, WhichStep
  <2>2. /\ on' = on /\ arg' = arg /\ my'[p].loop = my[p].loop /\ my'[p].slot = my[p].slot
        /\ my'[p].built = my[p].built /\ my'[p].device = my[p].device
        /\ pc'[p] \in {"mountFs", "send", "undoDevice"}
    BY <1>1, <2>1 DEF CheckPoint, MountFilesystem, MountFilesystemFails, MountFails, system, Goto,
       Set, Inside, Local
  <2>. QED
    BY <1>4, <1>a, <2>2 DEF Building
<1>5. CASE pc[p] = "send"
  <2>1. CASE SendFails(p)
    <3>1. on' = on /\ arg' = arg /\ my' = my /\ pc'[p] = "undoFs"
      BY <1>1, <2>1 DEF SendFails, system, Goto, Inside
    <3>. QED
      BY <1>5, <1>a, <3>1 DEF Building
  <2>2. CASE SendAuxDeviceInfo(p)
    <3>1. on' = on /\ pc'[p] = "confirm"
      BY <1>1, <2>2 DEF SendAuxDeviceInfo, Goto
    <3>2. PICK own \in Services : ServiceOf(p, own)
      BY <1>5, OwnService DEF HeldStages
    <3>3. own \in Service /\ own.volume = v /\ own.slot = my[p].slot
      BY <1>1, <1>5, <3>2, OwnVolume DEF HeldStages, ServiceOf
    <3>4. PICK f \in Services' : f = [own EXCEPT !.virtual = my[p].device, !.loop = my[p].loop]
      <4>1. Services' = (Services \ {own}) \cup
                        {[own EXCEPT !.virtual = my[p].device, !.loop = my[p].loop]}
        BY <2>2, <3>2, Sends
      <4>. QED
        BY <4>1
    <3>5. f.volume = v /\ f.slot = my[p].slot /\ f.virtual = my[p].device /\ f.loop = b
      BY <1>1, <3>3, <3>4 DEF Service
    <3>6. my[p].device = Mapped(my[p].slot, 0)
      <4>1. my[p].built # 0
        BY <1>1, <1>5, ShapeFacts DEF Building
      <4>. QED
        BY <1>5, <4>1, ShapeFacts DEF Building
    <3>7. \A d \in DOMAIN on : on[d] = b =>
             \E n \in Nat : d = Mapped(my[p].slot, n) /\ \A k \in 0 .. n : Mapped(my[p].slot, k) \in DOMAIN on
      BY <1>1, <1>5, AllBuilt DEF Building
    <3>8. ASSUME NEW r \in Callers, pc'[r] \in UnmountStages PROVE my'[r].info.volume # v
      <4>1. r # p
        BY <3>1, <3>8 DEF UnmountStages
      <4>2. pc'[r] = pc[r] /\ my'[r] = my[r] /\ About(r) # About(p)
        BY <3>8, <4>1, OtherCaller DEF UnmountStages
      <4>. QED
        BY <1>1, <3>8, <4>2 DEF Roles
    <3>9. Kept(f, b)'
      BY <3>1, <3>5, <3>6, <3>7, <3>8, KeptAfter DEF UnmountStages
    <3>. QED
      BY <3>5, <3>9
  <2>. QED
    BY <1>5, <2>1, <2>2, WhichStep
<1>6. CASE pc[p] = "undoFs"
  <2>1. on' = on /\ arg' = arg /\ my' = my /\ pc'[p] = "undoDevice"
    BY <1>6, WhichStep DEF UndoFilesystem, Goto, Inside
  <2>. QED
    BY <1>6, <1>a, <2>1
<1>7. CASE pc[p] = "undoDevice"
  <2>1. /\ on' = IF my[p].built > 0 THEN Without(Removable(my[p].device)) ELSE on
        /\ arg' = arg /\ my' = my /\ pc'[p] = "undoLoop"
    BY <1>7, WhichStep DEF UndoDevice, Goto, Inside
  <2>2. ASSUME NEW d \in DOMAIN on', on'[d] = b PROVE FALSE
    <3>1. d \in DOMAIN on /\ on[d] = b
      BY <1>7, <2>2, UsersBefore DEF Creates
    <3>2. Stage(pc[p], arg[p], my[p], DOMAIN on, d)
      BY <1>1, <3>1
    <3>3. my[p].built > 0 /\ my[p].device = Mapped(my[p].slot, 0) /\ Reaches(my[p].slot, d)
      BY <1>7, <3>2 DEF Stage, Reaches, Exists
    <3>4. \A m \in Mounts : m.slot # my[p].slot
      <4>1. v \notin leaked
        BY LeakedGrows
      <4>2. FreeOfMounts(p)
        BY <1>1, <1>7, <4>1 DEF FreeOfMounts
      <4>. QED
        BY <4>2, OwnedFacts DEF Slotted
    <3>5. d \in Removable(my[p].device)
      BY <3>1, <3>3, <3>4, RemovableIsAll
    <3>. QED
      BY <2>1, <2>2, <3>3, <3>5 DEF Without
  <2>. QED
    BY <1>1, <2>1, <2>2, MadeAs DEF Looped
<1>8. CASE pc[p] = "undoLoop"
  <2>1. on' = IF Busy(b) THEN on ELSE Without({b})
    BY <1>1, <1>8, WhichStep DEF UndoLoop, Leak
  <2>2. UsedBy(b) = {}
    BY <1>1, <1>8 DEF Stage, UsedBy
  <2>3. ~Busy(b)
    BY <2>2, NotBusy
  <2>. QED
    BY <2>1, <2>3 DEF Without
<1>. QED
  BY <1>1, <1>2, <1>3, <1>4, <1>5, <1>6, <1>7, <1>8 DEF Looped, Building

\* A loop device over a volume stays in someone's care.
LEMMA ClaimedOfStep ==
    ASSUME NEW p \in Callers, TendedStep(p)
    PROVE  Claimed'
<1>. Owned /\ OwnedStep(p) /\ Step(p) /\ Types /\ Roles /\ Rooted /\ Claimed
  BY OwnedFacts DEF TendedStep, OwnedStep, Tended
<1>. DEFINE Cared(v, b) == \/ \E e \in Services' : e.volume = v /\ Kept(e, b)'
                           \/ \E q \in Callers : Made(q, v, b)'
<1>. SUFFICES ASSUME NEW v \in Volumes, v \notin leaked', NEW b \in DOMAIN on', on'[b] = File(v)
              PROVE  Cared(v, b)
  BY DEF Claimed, File
<1>1. CASE b \in DOMAIN on /\ on'[b] = on[b]
  <2>1. v \notin leaked
    BY LeakedGrows
  <2>2. ASSUME NEW e \in Services, e.volume = v, Kept(e, b) PROVE Cared(v, b)
    <3>1. CASE v = About(p)
      BY <1>1, <2>2, <3>1, KeptOfOwn
    <3>2. CASE v # About(p)
      BY <1>1, <2>2, <3>2, KeptOfOther
    <3>. QED
      BY <3>1, <3>2
  <2>3. ASSUME NEW q \in Callers, Made(q, v, b) PROVE Cared(v, b)
    <3>1. CASE q = p
      BY <1>1, <2>3, <3>1, MadeOfOwn
    <3>2. CASE q # p
      BY <1>1, <2>3, <3>2, MadeOfOther
    <3>. QED
      BY <3>1, <3>2
  <2>. QED
    BY <1>1, <2>1, <2>2, <2>3 DEF Claimed
<1>2. CASE Creates(p, b)
  <2>1. on'[b] \in Devices
    BY <1>2, CreatesOver DEF Types, TableTypes
  <2>. QED
    BY <2>1 DEF Devices, File
<1>3. CASE Attaches(p, b)
  <2>1. Native(p) /\ arg[p].volume = v
    BY <1>3 DEF Attaches, File, Image
  <2>2. /\ pc'[p] = "create" /\ arg' = arg /\ my'[p].loop = b /\ ~Exists(b) /\ IsLoop(b)
        /\ pc[p] = "attach"
    BY <1>3, <2>1, OwnedFacts DEF Attaches, Attach, Goto, Inside, Types, ControlTypes
  <2>3. ASSUME NEW d \in DOMAIN on', on'[d] = b PROVE FALSE
    <3>1. UsedBy(b) = {}
      BY <2>2, UnusedIfNew
    <3>2. ~(d \in DOMAIN on /\ on[d] = b)
      BY <3>1 DEF UsedBy
    <3>3. ~Creates(p, d)
      BY <2>2 DEF Creates
    <3>4. ~Attaches(p, d)
      BY <2>2, <2>3 DEF Attaches, File, Image, IsLoop, Loop
    <3>. QED
      BY <2>3, <3>2, <3>3, <3>4, DevicesBefore
  <2>4. Made(p, v, b)'
    BY <2>1, <2>2, <2>3, MadeAs DEF Native, Looped, Building
  <2>. QED
    BY <2>4
<1>. QED
  BY <1>1, <1>2, <1>3, DevicesBefore

\* A step of a call keeps the fourth invariant.
LEMMA TendedOfStep ==
    ASSUME IInv, OInv, AInv, NEW p \in Callers, Step(p)
    PROVE  AInv'
<1>. SUFFICES ASSUME ~overlapped' PROVE Tended'
  BY DEF AInv
<1>1. Dirs' /\ IInv'
  BY DirsOfStep, StepKeeps DEF IInv, OInv
<1>2. ~overlapped
  BY AboutStays DEF IInv
<1>3. TendedStep(p)
  BY <1>1, <1>2 DEF TendedStep, OwnedStep, Owned, OInv, AInv
<1>. QED
  BY <1>3, RootedOfStep, PlacedOfStep, ClearOfStep, MineOfStep, ClaimedOfStep, BegunOfStep,
     ShownOfStep DEF Tended

\* A caller whose variables stay as they are, or that starts a call.
Starts(q) == \/ Same(q) \/ Begins(q)
             \/ pc[q] = "idle" /\ pc'[q] = "umount" /\ arg'[q].volume = None

\* A service that differs at most by its having been chosen.
Alike(e, f) ==
    /\ e.volume = f.volume /\ e.slot = f.slot /\ e.dir = f.dir
    /\ e.virtual = f.virtual /\ e.loop = f.loop
    /\ e.state = "new" => f.state = "new"

\* The start of a call, like a step that changes nothing, keeps what is tended.
LEMMA TendedAtStart ==
    ASSUME Tended, on' = on, fs' = fs, leaked' = leaked, \A q \in Callers : Starts(q),
           \A e \in Services' : \E f \in Services : Alike(e, f),
           \A f \in Services : \E e \in Services' : Alike(e, f)
    PROVE  Tended'
<1>. Rooted /\ Placed /\ Clear /\ Mine /\ Claimed /\ Begun /\ Shown
  BY DEF Tended
<1>1. Mounts' = Mounts
  BY DEF Mounts
<1>2. \A i : FuseOn(i) => FuseOn(i)'
  <2>1. \A i : FuseOn(i) <=> \E f \in Services : f.dir = i
    BY DEF FuseOn, Services
  <2>2. \A i : FuseOn(i)' <=> \E e \in Services' : e.dir = i
    BY DEF FuseOn, Services
  <2>. QED
    BY <2>1, <2>2 DEF Alike
<1>3. \A q \in Callers : \/ Same(q)
                         \/ pc[q] = "idle" /\ pc'[q] = "coalesce"
                         \/ pc[q] = "idle" /\ pc'[q] = "umount" /\ arg'[q].volume = None
  BY DEF Starts, Begins
<1>4. Rooted'
  <2>1. \A s, l, n, b : Stack(s, l, n, b) => Stack(s, l, n, b)'
    BY DEF Stack, Exists, Mapped
  <2>2. \A d : OverImage(d) => OverImage(d)'
    BY <1>2 DEF OverImage, IsLoop, Image, Loop
  <2>3. \A d, v : OverFile(d, v) => OverFile(d, v)'
    BY DEF OverFile, IsLoop, File, Loop
  <2>. QED
    BY <2>1, <2>2, <2>3 DEF Rooted, Mapped
<1>5. Placed'
  BY <1>1 DEF Placed, Exists, Mapped, IsLoop, Loop, Image
<1>6. Clear'
  <2>. SUFFICES ASSUME NEW q \in Callers
                PROVE  /\ ~Native(q)' /\ pc'[q] \in Looped \ {"confirm"} =>
                             \A m \in Mounts : m.device # my'[q].loop
                       /\ Mounting(q)' /\ Cleared(q)' =>
                             \A e \in Services' : e.volume = arg'[q].volume =>
                                e.virtual = e.loop /\ \A m \in Mounts : m.device # e.loop
                       /\ Mounting(q)' /\ pc'[q] \in UnmountStages => my'[q].info.point = None
    BY <1>1 DEF Clear
  <2>1. pc'[q] \in Looped \/ (Mounting(q)' /\ Cleared(q)') \/ (Mounting(q)' /\ pc'[q] \in UnmountStages)
           => Same(q)
    BY <1>3 DEF Looped, Building, Mounting, Cleared, UnmountStages
  <2>2. Same(q) => /\ Native(q)' = Native(q) /\ Mounting(q)' = Mounting(q)
                   /\ Cleared(q)' = Cleared(q)
    BY DEF Same, Native, Mounting, Cleared
  <2>3. ASSUME Same(q), Mounting(q), Cleared(q), NEW e \in Services', e.volume = arg'[q].volume
        PROVE  e.virtual = e.loop /\ \A m \in Mounts : m.device # e.loop
    <3>1. PICK f \in Services : Alike(e, f)
      OBVIOUS
    <3>2. f.volume = arg[q].volume
      BY <2>3, <3>1 DEF Alike, Same
    <3>3. f.virtual = f.loop /\ \A m \in Mounts : m.device # f.loop
      BY <2>3, <3>2 DEF Clear
    <3>. QED
      BY <3>1, <3>3 DEF Alike
  <2>4. Same(q) /\ ~Native(q) /\ pc[q] \in Looped \ {"confirm"} => \A m \in Mounts : m.device # my'[q].loop
    BY DEF Clear, Same
  <2>5. Same(q) /\ Mounting(q) /\ pc[q] \in UnmountStages => my'[q].info.point = None
    BY DEF Clear, Same
  <2>6. Same(q) => pc'[q] = pc[q]
    BY DEF Same
  <2>. QED
    BY <2>1, <2>2, <2>3, <2>4, <2>5, <2>6
<1>7. Mine'
  <2>1. \A q \in Callers : pc'[q] \in Looped => Same(q)
    BY <1>3 DEF Looped, Building
  <2>. QED
    BY <2>1 DEF Mine, Same, Native, Exists, File, Image
<1>8. Claimed'
  <2>1. ASSUME NEW e \in Services, NEW b, Kept(e, b)
        PROVE  \E f \in Services' : f.volume = e.volume /\ Kept(f, b)'
    <3>1. PICK f \in Services' : Alike(f, e)
      OBVIOUS
    <3>2. f.loop = b /\ f.virtual = Mapped(f.slot, 0) /\ f.slot = e.slot /\ f.volume = e.volume
      BY <2>1, <3>1 DEF Alike, Kept
    <3>3. \A d \in DOMAIN on' : on'[d] = b =>
             \E l \in Nat : d = Mapped(f.slot, l) /\ \A k \in 0 .. l : Mapped(f.slot, k) \in DOMAIN on'
      BY <2>1, <3>2 DEF Kept, UsedBy, Reaches, Exists
    <3>4. \A r \in Callers :
             /\ pc'[r] = "detach" /\ my'[r].info.volume = f.volume => \A d \in DOMAIN on' : on'[d] # b
             /\ pc'[r] = "umountAux" => my'[r].info.volume # f.volume
      BY <1>3, <2>1, <3>2 DEF Same, Kept, UsedBy
    <3>. QED
      BY <3>2, <3>3, <3>4, KeptAfter
  <2>2. ASSUME NEW q \in Callers, NEW v, NEW b, Made(q, v, b) PROVE Made(q, v, b)'
    <3>1. Same(q)
      BY <1>3, <2>2 DEF Made, Looped, Building
    <3>. QED
      BY <2>2, <3>1, MadeAs DEF Same
  <2>3. ASSUME NEW v \in Volumes, v \notin leaked', NEW b \in DOMAIN on', on'[b] = File(v)
        PROVE  \/ \E e \in Services' : e.volume = v /\ Kept(e, b)'
               \/ \E q \in Callers : Made(q, v, b)'
    BY <2>1, <2>2, <2>3 DEF Claimed
  <2>. QED
    BY <2>3 DEF Claimed, File
<1>9. Begun'
  <2>. SUFFICES ASSUME NEW e \in Services', e.state = "new", e.volume \notin leaked'
                PROVE  \E q \in Callers : /\ arg'[q].volume = e.volume
                                          /\ pc'[q] \in HeldStages \cup UnmountStages
    BY DEF Begun
  <2>1. PICK f \in Services : Alike(e, f)
    OBVIOUS
  <2>2. PICK q \in Callers : arg[q].volume = e.volume /\ pc[q] \in HeldStages \cup UnmountStages
    BY <2>1 DEF Begun, Alike
  <2>3. Same(q)
    BY <1>3, <2>2 DEF HeldStages, UnmountStages
  <2>. QED
    BY <2>2, <2>3 DEF Same
<1>10. Shown'
  <2>1. ASSUME NEW q \in Callers, NEW e \in Services', Unfinished(q, e)',
               NEW b \in UsedBy(Image(e.dir))'
        PROVE  Attached(q, e, b)'
    <3>1. PICK f \in Services : Alike(e, f)
      OBVIOUS
    <3>2. Same(q)
      BY <1>3, <2>1 DEF Unfinished, Mounting, HeldStages, UnmountStages
    <3>3. Unfinished(q, f)
      BY <2>1, <3>1, <3>2 DEF Unfinished, Mounting, Same, Alike
    <3>4. b \in UsedBy(Image(f.dir))
      BY <2>1, <3>1 DEF UsedBy, Alike, Image
    <3>5. Attached(q, f, b)
      BY <3>3, <3>4 DEF Shown
    <3>. QED
      BY <3>1, <3>2, <3>5 DEF Attached, Native, Same, Alike
  <2>. QED
    BY <2>1 DEF Shown
<1>. QED
  BY <1>4, <1>5, <1>6, <1>7, <1>8, <1>9, <1>10 DEF Tended

\* At the start there is nothing to tend.
LEMMA TendedAtFirst == Init => AInv
<1>. SUFFICES ASSUME Init PROVE AInv
  OBVIOUS
<1>1. fuse = <<>> /\ on = <<>> /\ fs = <<>> /\ \A p \in Callers : pc[p] = "idle"
  BY DEF Init
<1>2. Services = {} /\ Mounts = {} /\ DOMAIN on = {}
  BY <1>1 DEF Services, Mounts
<1>3. Rooted /\ Placed /\ Begun /\ Shown /\ Claimed
  BY <1>2 DEF Rooted, Placed, Begun, Shown, Claimed
<1>4. Clear /\ Mine
  BY <1>1 DEF Clear, Mine, Looped, Building, Cleared, UnmountStages
<1>. QED
  BY <1>3, <1>4 DEF AInv, Tended

\* Every step keeps the fourth invariant.
LEMMA NextKeepsTended == IInv /\ OInv /\ AInv /\ [Next]_vars => AInv'
<1>. SUFFICES ASSUME IInv, OInv, AInv, [Next]_vars PROVE AInv'
  OBVIOUS
<1>1. \A e : Alike(e, e)
  BY DEF Alike
<1>2. ASSUME NEW p \in Callers, NEW v \in Volumes, NEW layers \in Layers, NEW files \in Files,
             MountVolume(p, v, layers, files)
      PROVE  AInv'
  <2>1. /\ fuse' = fuse /\ on' = on /\ fs' = fs /\ leaked' = leaked
        /\ ~overlapped' => ~overlapped
        /\ \A q \in Callers : Starts(q)
    BY <1>2, StartOfMount DEF Starts
  <2>2. Services' = Services
    BY <2>1 DEF Services
  <2>. QED
    BY <1>1, <2>1, <2>2, TendedAtStart DEF AInv
<1>3. ASSUME NEW p \in Callers, NEW i \in DOMAIN fuse, DismountVolume(p, i) PROVE AInv'
  <2>. SUFFICES ASSUME ~overlapped' PROVE Tended'
    BY DEF AInv
  <2>1. PICK old, new : Chosen(p, old, new)
    BY <1>3, StartOfDismount DEF OInv
  <2>2. /\ on' = on /\ fs' = fs /\ leaked' = leaked /\ ~overlapped
        /\ pc[p] = "idle" /\ pc'[p] = "umount" /\ arg'[p].volume = None
        /\ \A q \in Callers \ {p} : Same(q)
    BY <2>1 DEF Chosen, Mounting
  <2>3. /\ old \in Services /\ new \in Services' /\ Alike(new, old)
        /\ \A e \in Services' : e = new \/ e \in Services
        /\ \A f \in Services : f # old => f \in Services'
    BY <2>1 DEF Chosen, Marked, Alike
  <2>4. \A q \in Callers : Starts(q)
    BY <2>2 DEF Starts
  <2>5. /\ \A e \in Services' : \E f \in Services : Alike(e, f)
        /\ \A f \in Services : \E e \in Services' : Alike(e, f)
    BY <1>1, <2>3
  <2>. QED
    BY <2>2, <2>4, <2>5, TendedAtStart DEF AInv
<1>4. CASE UNCHANGED vars
  <2>1. /\ fuse' = fuse /\ on' = on /\ fs' = fs /\ pc' = pc /\ arg' = arg /\ my' = my
        /\ overlapped' = overlapped /\ leaked' = leaked
    BY <1>4 DEF vars, system, ghosts
  <2>2. Services' = Services /\ \A q \in Callers : Starts(q)
    BY <2>1 DEF Services, Starts, Same
  <2>. QED
    BY <1>1, <2>1, <2>2, TendedAtStart DEF AInv
<1>. QED
  BY <1>2, <1>3, <1>4, TendedOfStep DEF Next

\* When no call is running a device is in the end over the file of a volume, or over the
\* image of a service that is listed.
LEMMA RootedIsOver ==
    ASSUME Rooted, NEW d \in DOMAIN on
    PROVE  \/ \E i \in Nat : FuseOn(i) /\ Over(d, Image(i))
           \/ \E v \in Volumes, b \in DOMAIN on : on[b] = File(v) /\ Over(d, File(v))
<1>0. Under(d, d)
  BY DEF Under
<1>1. CASE OverImage(d)
  BY <1>0, <1>1 DEF OverImage, Over, Exists
<1>2. CASE \E v \in Volumes : OverFile(d, v)
  BY <1>0, <1>2 DEF OverFile, Over, Exists
<1>3. ASSUME NEW v \in Volumes, NEW s \in Nat, NEW l \in Nat, NEW n \in Nat, NEW b \in DOMAIN on,
             d = Mapped(s, l), l < n, Stack(s, l, n, b), OverFile(b, v)
      PROVE  on[b] = File(v) /\ Over(d, File(v))
  <2>. DEFINE low == Mapped(s, n - 1)
  <2>1. low \in DOMAIN on /\ on[low] = b
    <3>1. n - 1 \in l .. n - 1
      BY <1>3
    <3>. QED
      BY <1>3, <3>1 DEF Stack, Exists
  <2>2. Under(d, low)
    <3>1. CASE l = n - 1
      BY <1>0, <1>3, <3>1
    <3>2. CASE l # n - 1
      <4>1. /\ d[1] = "dm" /\ low[1] = "dm" /\ d[2] = s /\ low[2] = s /\ d[3] = l
            /\ low[3] = n - 1
        BY <1>3 DEF Mapped
      <4>2. n - 1 > l
        BY <1>3, <3>2
      <4>3. \A k \in l .. n - 1 - 1 :
               Exists(Mapped(s, k)) /\ on[Mapped(s, k)] = Mapped(s, k + 1)
        <5>1. \A k \in l .. n - 1 - 1 : k \in l .. n - 1 /\ k # n - 1
          BY <1>3
        <5>. QED
          BY <1>3, <5>1 DEF Stack
      <4>. QED
        BY <4>1, <4>2, <4>3 DEF Under
    <3>. QED
      BY <3>1, <3>2
  <2>3. on[b] = File(v)
    BY <1>3 DEF OverFile
  <2>. QED
    BY <2>1, <2>2, <2>3 DEF Over, Exists
<1>. QED
  BY <1>1, <1>2, <1>3 DEF Rooted

\* A mount or an unmount that fails at any one step, or at several, leaves nothing that the
\* user can neither see nor unmount, except where the code is known to leave it: when no
\* call is running, every device belongs to a volume that is listed, and no service is
\* listed whose mount has not completed.  MountVolumeNative and DismountVolume undo or go
\* on with what they have begun, and the service outlives its devices.
THEOREM NothingIsLost == Spec => []Accounted
<1>1. Init => IInv /\ OInv /\ AInv
  BY InitHolds, OwnersAtFirst, TendedAtFirst
<1>2. IInv /\ OInv /\ AInv /\ [Next]_vars => (IInv /\ OInv /\ AInv)'
  BY NextKeeps, NextKeepsOwners, NextKeepsTended
<1>3. IInv /\ OInv /\ AInv => Accounted
  <2>. SUFFICES ASSUME Tended, AllIdle
                PROVE  /\ \A d \in DOMAIN on : \/ \E i \in DOMAIN fuse : Lists(fuse[i], d)
                                              \/ \E v \in leaked : Over(d, File(v))
                       /\ \A i \in DOMAIN fuse : fuse[i].state # "new" \/ fuse[i].volume \in leaked
    BY DEF AInv, Accounted
  <2>. Rooted /\ Claimed /\ Begun /\ \A p \in Callers : pc[p] = "idle"
    BY DEF Tended, AllIdle
  <2>1. ASSUME NEW d \in DOMAIN on
        PROVE  \/ \E i \in DOMAIN fuse : Lists(fuse[i], d)
               \/ \E v \in leaked : Over(d, File(v))
    <3>1. CASE \E i \in Nat : FuseOn(i) /\ Over(d, Image(i))
      BY <3>1 DEF FuseOn, Lists
    <3>2. ASSUME NEW v \in Volumes, NEW b \in DOMAIN on, on[b] = File(v), Over(d, File(v)),
                 v \notin leaked
          PROVE  \E i \in DOMAIN fuse : Lists(fuse[i], d)
      <4>1. \A p \in Callers : ~Made(p, v, b)
        BY DEF Made, Looped, Building
      <4>2. PICK e \in Services : e.volume = v
        BY <3>2, <4>1 DEF Claimed
      <4>. QED
        BY <3>2, <4>2 DEF Services, Lists
    <3>. QED
      BY <3>1, <3>2, RootedIsOver
  <2>2. ASSUME NEW i \in DOMAIN fuse PROVE fuse[i].state # "new" \/ fuse[i].volume \in leaked
    BY DEF Begun, Services, HeldStages, UnmountStages
  <2>. QED
    BY <2>1, <2>2
<1>. QED
  BY <1>1, <1>2, <1>3, PTL DEF Spec
================================================================================
