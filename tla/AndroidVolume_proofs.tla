-------------------------- MODULE AndroidVolume_proofs --------------------------
(***************************************************************************)
(* A volume whose creation was reported, with no rival under its name, is  *)
(* intact for ever after, and a mount never runs without a header: for any *)
(* names, numbers of attempts, blocks and tasks.                           *)
(*                                                                         *)
(* The argument: two attempts under one name that are both past the check  *)
(* for an existing file overlapped (Apart), because a volume that is being *)
(* written exists (Exists).  So nobody writes to the files of an attempt   *)
(* that is alone but itself (Own).                                         *)
(***************************************************************************)
EXTENDS AndroidVolume, TLAPS

Active  == {"keys", "openKey", "writeKey", "derive", "open", "header", "blocks", "report"}
Stages  == Active \cup {"new", "check", "done", "failed", "dead"}
AnyName == Names \cup {CHOOSE n \in Names : TRUE}
Task    == [task : {"read"}, file : Names] \cup [task : {"readCopy"}, header : {Nobody, Foreign}]
               \cup [task : {"mount"}, password : 1 .. Foreign]

Attempt == [stage : Stages, name : AnyName, block : 1 .. Blocks, rivals : SUBSET Attempts]
Volume  == [exists : BOOLEAN, cell : [0 .. Blocks -> Writers]]

AttemptTypes ==
    /\ attempt \in [Attempts -> Attempt]
    /\ \A a \in Attempts : attempt[a].stage # "new" => attempt[a].name \in Names
FileTypes  == keyFile \in [Names -> Writers] /\ volume \in [Names -> Volume]
MountTypes == header \in Headers /\ shown \in Headers /\ queue \in Seq(Task) /\ posts \in Nat
Types == AttemptTypes /\ FileTypes /\ MountTypes

\* What has not been checked has no rivals, and blocks are written from the first.
Early ==
    \A a \in Attempts :
        /\ attempt[a].stage \in {"new", "check"} => attempt[a].rivals = {}
        /\ attempt[a].stage \in (Active \ {"blocks", "report"}) \cup {"new", "check"} =>
               attempt[a].block = 1

\* The volume that an attempt writes, or has written, exists.
Exists ==
    \A a \in Attempts : attempt[a].stage \in {"header", "blocks", "report", "done"} =>
        volume[attempt[a].name].exists

Rival(a, b) == a \in attempt[b].rivals \/ b \in attempt[a].rivals

\* An attempt that is past the check is a rival of any other of its name that is
\* past it too, or has been reported.
Apart ==
    \A a, b \in Attempts :
        /\ a # b /\ attempt[a].name = attempt[b].name
        /\ attempt[a].stage \in Active /\ attempt[b].stage \in Active \cup {"done"}
        => Rival(a, b)

\* What an attempt without rivals has written is there.
Own ==
    \A a \in Attempts : Alone(a) =>
        /\ attempt[a].stage \in {"derive", "open", "header", "blocks", "report", "done"} =>
               keyFile[attempt[a].name] = a
        /\ attempt[a].stage = "blocks" =>
               \A i \in 0 .. attempt[a].block - 1 : volume[attempt[a].name].cell[i] = a
        /\ attempt[a].stage \in {"report", "done"} =>
               \A i \in 0 .. Blocks : volume[attempt[a].name].cell[i] = a

\* Where a header is shown, about to be shown or to be mounted, one was read.
HeaderKnown ==
    posts > 0 \/ shown # Nobody \/ (\E i \in 1 .. Len(queue) : queue[i].task = "mount") =>
        header # Nobody

IInv == Types /\ Early /\ Exists /\ Apart /\ Own /\ HeaderKnown

-----------------------------------------------------------------------------
(* The steps *)

\* No header is shown or mounted before one was read.
LEMMA HeaderStep == IInv /\ [Next]_vars => HeaderKnown'
<1>. SUFFICES ASSUME IInv, [Next]_vars PROVE HeaderKnown'
  OBVIOUS
<1>. USE AndroidAssumption DEF IInv, files, mountUi, Goto, Attempts, Nobody, Foreign
<1>1. ASSUME NEW n \in Names, CreateVolume(n) PROVE HeaderKnown'
  BY <1>1 DEF CreateVolume, HeaderKnown, Types, MountTypes, Task
<1>2. CASE Leave
  BY <1>2 DEF Leave, HeaderKnown, Types, MountTypes, Task
<1>3. CASE Kill
  BY <1>3 DEF Kill, ProcessEnds, FreshActivity, HeaderKnown, Types, MountTypes, Task
<1>4. ASSUME NEW a \in Attempts, Check(a) PROVE HeaderKnown'
  BY <1>4 DEF Check, HeaderKnown, Types, MountTypes, Task
<1>5. ASSUME NEW a \in Attempts, GenerateKeys(a) PROVE HeaderKnown'
  BY <1>5 DEF GenerateKeys, HeaderKnown, Types, MountTypes, Task
<1>6. ASSUME NEW a \in Attempts, OpenKeyFile(a) PROVE HeaderKnown'
  BY <1>6 DEF OpenKeyFile, HeaderKnown, Types, MountTypes, Task
<1>7. ASSUME NEW a \in Attempts, WriteKeyFile(a) PROVE HeaderKnown'
  BY <1>7 DEF WriteKeyFile, HeaderKnown, Types, MountTypes, Task
<1>8. ASSUME NEW a \in Attempts, DeriveKeyAndEncrypt(a) PROVE HeaderKnown'
  BY <1>8 DEF DeriveKeyAndEncrypt, HeaderKnown, Types, MountTypes, Task
<1>9. ASSUME NEW a \in Attempts, OpenVolume(a) PROVE HeaderKnown'
  BY <1>9 DEF OpenVolume, HeaderKnown, Types, MountTypes, Task
<1>10. ASSUME NEW a \in Attempts, WriteHeader(a) PROVE HeaderKnown'
  BY <1>10 DEF WriteHeader, HeaderKnown, Types, MountTypes, Task
<1>11. ASSUME NEW a \in Attempts, WriteBlock(a) PROVE HeaderKnown'
  BY <1>11 DEF WriteBlock, HeaderKnown, Types, MountTypes, Task
<1>12. ASSUME NEW a \in Attempts, Report(a) PROVE HeaderKnown'
  BY <1>12 DEF Report, FinishActivity, HeaderKnown, Types, MountTypes, Task
<1>13. ASSUME NEW a \in Attempts, Fail(a) PROVE HeaderKnown'
  BY <1>13 DEF Fail, FinishActivity, Fails, HeaderKnown, Types, MountTypes, Task
<1>14. CASE OpenMountActivity
  BY <1>14 DEF OpenMountActivity, FreshActivity, HeaderKnown, Types, MountTypes, Task
<1>15. ASSUME NEW n \in Names, SelectVolume(n) PROVE HeaderKnown'
  BY <1>15 DEF SelectVolume, HeaderKnown, Types, MountTypes, Task
<1>16. CASE PickFile
  BY <1>16 DEF PickFile, HeaderKnown, Types, MountTypes, Task
<1>17. CASE ReadHeader
  BY <1>17 DEF ReadHeader, HeaderKnown, Types, MountTypes, Task
<1>18. CASE DisplayVolumeInfo
  BY <1>18 DEF DisplayVolumeInfo, HeaderKnown, Types, MountTypes, Task
<1>19. ASSUME NEW p \in 1 .. Foreign, ClickMount(p) PROVE HeaderKnown'
  BY <1>19 DEF ClickMount, HeaderKnown, Types, MountTypes, Task
<1>20. CASE MountVolume
  <2>1. CASE ProcessEnds
    BY <2>1 DEF ProcessEnds, FreshActivity, HeaderKnown
  <2>2. CASE /\ queue' = Tail(queue) /\ queue # <<>>
             /\ UNCHANGED <<attempt, front, files, header, shown, posts>>
    <3>1. \A i \in 1 .. Len(queue') : i + 1 \in 1 .. Len(queue) /\ queue'[i] = queue[i
       + 1]
      BY <2>2 DEF Types, MountTypes
    <3>. QED
      BY <2>2, <3>1 DEF HeaderKnown
  <2>. QED
    BY <1>20, <2>1, <2>2 DEF MountVolume
<1>21. CASE UNCHANGED vars
  BY <1>21 DEF vars, HeaderKnown, Types, MountTypes, Task
<1>. QED
  BY <1>1, <1>2, <1>3, <1>4, <1>5, <1>6, <1>7, <1>8, <1>9, <1>10, <1>11, <1>12, <1>13,
     <1>14, <1>15, <1>16, <1>17, <1>18, <1>19, <1>20, <1>21 DEF Next, Creation, Create,
     Mount


\* Rivals are found, and blocks written, in their time.
LEMMA EarlyStep == IInv /\ [Next]_vars => Early'
<1>. SUFFICES ASSUME IInv, [Next]_vars PROVE Early'
  OBVIOUS
<1>. USE AndroidAssumption DEF IInv, files, mountUi, Goto, Attempts, Nobody, Foreign
<1>1. ASSUME NEW n \in Names, CreateVolume(n) PROVE Early'
  BY <1>1 DEF CreateVolume, Early, Types, AttemptTypes, Attempt, Active, Stages, Running
<1>2. CASE Leave
  BY <1>2 DEF Leave, Early, Types, AttemptTypes, Attempt, Active, Stages, Running
<1>3. CASE Kill
  BY <1>3 DEF Kill, ProcessEnds, FreshActivity, Early, Types, AttemptTypes, Attempt,
     Active, Stages, Running
<1>4. ASSUME NEW a \in Attempts, Check(a) PROVE Early'
  BY <1>4 DEF Check, Early, Types, AttemptTypes, Attempt, Active, Stages, Running
<1>5. ASSUME NEW a \in Attempts, GenerateKeys(a) PROVE Early'
  BY <1>5 DEF GenerateKeys, Early, Types, AttemptTypes, Attempt, Active, Stages, Running
<1>6. ASSUME NEW a \in Attempts, OpenKeyFile(a) PROVE Early'
  BY <1>6 DEF OpenKeyFile, Early, Types, AttemptTypes, Attempt, Active, Stages, Running
<1>7. ASSUME NEW a \in Attempts, WriteKeyFile(a) PROVE Early'
  BY <1>7 DEF WriteKeyFile, Early, Types, AttemptTypes, Attempt, Active, Stages, Running
<1>8. ASSUME NEW a \in Attempts, DeriveKeyAndEncrypt(a) PROVE Early'
  BY <1>8 DEF DeriveKeyAndEncrypt, Early, Types, AttemptTypes, Attempt, Active, Stages,
     Running
<1>9. ASSUME NEW a \in Attempts, OpenVolume(a) PROVE Early'
  BY <1>9 DEF OpenVolume, Early, Types, AttemptTypes, Attempt, Active, Stages, Running
<1>10. ASSUME NEW a \in Attempts, WriteHeader(a) PROVE Early'
  BY <1>10 DEF WriteHeader, Early, Types, AttemptTypes, Attempt, Active, Stages, Running
<1>11. ASSUME NEW a \in Attempts, WriteBlock(a) PROVE Early'
  BY <1>11 DEF WriteBlock, Early, Types, AttemptTypes, Attempt, Active, Stages, Running
<1>12. ASSUME NEW a \in Attempts, Report(a) PROVE Early'
  BY <1>12 DEF Report, FinishActivity, Early, Types, AttemptTypes, Attempt, Active,
     Stages, Running
<1>13. ASSUME NEW a \in Attempts, Fail(a) PROVE Early'
  BY <1>13 DEF Fail, FinishActivity, Fails, Early, Types, AttemptTypes, Attempt,
     Active, Stages, Running
<1>14. CASE OpenMountActivity
  BY <1>14 DEF OpenMountActivity, FreshActivity, Early, Types, AttemptTypes, Attempt,
     Active, Stages, Running
<1>15. ASSUME NEW n \in Names, SelectVolume(n) PROVE Early'
  BY <1>15 DEF SelectVolume, Early, Types, AttemptTypes, Attempt, Active, Stages,
     Running
<1>16. CASE PickFile
  BY <1>16 DEF PickFile, Early, Types, AttemptTypes, Attempt, Active, Stages, Running
<1>17. CASE ReadHeader
  BY <1>17 DEF ReadHeader, Early, Types, AttemptTypes, Attempt, Active, Stages, Running
<1>18. CASE DisplayVolumeInfo
  BY <1>18 DEF DisplayVolumeInfo, Early, Types, AttemptTypes, Attempt, Active, Stages,
     Running
<1>19. ASSUME NEW p \in 1 .. Foreign, ClickMount(p) PROVE Early'
  BY <1>19 DEF ClickMount, Early, Types, AttemptTypes, Attempt, Active, Stages, Running
<1>20. CASE MountVolume
  <2>1. CASE ProcessEnds
    BY <2>1 DEF ProcessEnds, FreshActivity, Early, Types, AttemptTypes, Attempt,
       Active, Stages, Running
  <2>2. CASE /\ queue' = Tail(queue) /\ queue # <<>>
             /\ UNCHANGED <<attempt, front, files, header, shown, posts>>
    BY <2>2 DEF Early, Types, AttemptTypes, Attempt, Active, Stages, Running
  <2>. QED
    BY <1>20, <2>1, <2>2 DEF MountVolume
<1>21. CASE UNCHANGED vars
  BY <1>21 DEF vars, Early, Types, AttemptTypes, Attempt, Active, Stages, Running
<1>. QED
  BY <1>1, <1>2, <1>3, <1>4, <1>5, <1>6, <1>7, <1>8, <1>9, <1>10, <1>11, <1>12, <1>13,
     <1>14, <1>15, <1>16, <1>17, <1>18, <1>19, <1>20, <1>21 DEF Next, Creation, Create,
     Mount


\* No volume is ever deleted.
LEMMA ExistsStep == IInv /\ [Next]_vars => Exists'
<1>. SUFFICES ASSUME IInv, [Next]_vars PROVE Exists'
  OBVIOUS
<1>. USE AndroidAssumption DEF IInv, files, mountUi, Goto, Attempts, Nobody, Foreign
<1>1. ASSUME NEW n \in Names, CreateVolume(n) PROVE Exists'
  BY <1>1 DEF CreateVolume, Exists, FileTypes, Volume, Types, AttemptTypes, Attempt,
     Active, Stages, Running, NoVolume
<1>2. CASE Leave
  BY <1>2 DEF Leave, Exists, FileTypes, Volume, Types, AttemptTypes, Attempt, Active,
     Stages, Running, NoVolume
<1>3. CASE Kill
  BY <1>3 DEF Kill, ProcessEnds, FreshActivity, Exists, FileTypes, Volume, Types,
     AttemptTypes, Attempt, Active, Stages, Running, NoVolume
<1>4. ASSUME NEW a \in Attempts, Check(a) PROVE Exists'
  BY <1>4 DEF Check, Exists, FileTypes, Volume, Types, AttemptTypes, Attempt, Active,
     Stages, Running, NoVolume
<1>5. ASSUME NEW a \in Attempts, GenerateKeys(a) PROVE Exists'
  BY <1>5 DEF GenerateKeys, Exists, FileTypes, Volume, Types, AttemptTypes, Attempt,
     Active, Stages, Running, NoVolume
<1>6. ASSUME NEW a \in Attempts, OpenKeyFile(a) PROVE Exists'
  BY <1>6 DEF OpenKeyFile, Exists, FileTypes, Volume, Types, AttemptTypes, Attempt,
     Active, Stages, Running, NoVolume
<1>7. ASSUME NEW a \in Attempts, WriteKeyFile(a) PROVE Exists'
  BY <1>7 DEF WriteKeyFile, Exists, FileTypes, Volume, Types, AttemptTypes, Attempt,
     Active, Stages, Running, NoVolume
<1>8. ASSUME NEW a \in Attempts, DeriveKeyAndEncrypt(a) PROVE Exists'
  BY <1>8 DEF DeriveKeyAndEncrypt, Exists, FileTypes, Volume, Types, AttemptTypes,
     Attempt, Active, Stages, Running, NoVolume
<1>9. ASSUME NEW a \in Attempts, OpenVolume(a) PROVE Exists'
  BY <1>9 DEF OpenVolume, Exists, FileTypes, Volume, Types, AttemptTypes, Attempt,
     Active, Stages, Running, NoVolume
<1>10. ASSUME NEW a \in Attempts, WriteHeader(a) PROVE Exists'
  BY <1>10 DEF WriteHeader, Exists, FileTypes, Volume, Types, AttemptTypes, Attempt,
     Active, Stages, Running, NoVolume
<1>11. ASSUME NEW a \in Attempts, WriteBlock(a) PROVE Exists'
  BY <1>11 DEF WriteBlock, Exists, FileTypes, Volume, Types, AttemptTypes, Attempt,
     Active, Stages, Running, NoVolume
<1>12. ASSUME NEW a \in Attempts, Report(a) PROVE Exists'
  BY <1>12 DEF Report, FinishActivity, Exists, FileTypes, Volume, Types, AttemptTypes,
     Attempt, Active, Stages, Running, NoVolume
<1>13. ASSUME NEW a \in Attempts, Fail(a) PROVE Exists'
  BY <1>13 DEF Fail, FinishActivity, Fails, Exists, FileTypes, Volume, Types,
     AttemptTypes, Attempt, Active, Stages, Running, NoVolume
<1>14. CASE OpenMountActivity
  BY <1>14 DEF OpenMountActivity, FreshActivity, Exists, FileTypes, Volume, Types,
     AttemptTypes, Attempt, Active, Stages, Running, NoVolume
<1>15. ASSUME NEW n \in Names, SelectVolume(n) PROVE Exists'
  BY <1>15 DEF SelectVolume, Exists, FileTypes, Volume, Types, AttemptTypes, Attempt,
     Active, Stages, Running, NoVolume
<1>16. CASE PickFile
  BY <1>16 DEF PickFile, Exists, FileTypes, Volume, Types, AttemptTypes, Attempt,
     Active, Stages, Running, NoVolume
<1>17. CASE ReadHeader
  BY <1>17 DEF ReadHeader, Exists, FileTypes, Volume, Types, AttemptTypes, Attempt,
     Active, Stages, Running, NoVolume
<1>18. CASE DisplayVolumeInfo
  BY <1>18 DEF DisplayVolumeInfo, Exists, FileTypes, Volume, Types, AttemptTypes,
     Attempt, Active, Stages, Running, NoVolume
<1>19. ASSUME NEW p \in 1 .. Foreign, ClickMount(p) PROVE Exists'
  BY <1>19 DEF ClickMount, Exists, FileTypes, Volume, Types, AttemptTypes, Attempt,
     Active, Stages, Running, NoVolume
<1>20. CASE MountVolume
  <2>1. CASE ProcessEnds
    BY <2>1 DEF ProcessEnds, FreshActivity, Exists, FileTypes, Volume, Types,
       AttemptTypes, Attempt, Active, Stages, Running, NoVolume
  <2>2. CASE /\ queue' = Tail(queue) /\ queue # <<>>
             /\ UNCHANGED <<attempt, front, files, header, shown, posts>>
    BY <2>2 DEF Exists, FileTypes, Volume, Types, AttemptTypes, Attempt, Active,
       Stages, Running, NoVolume
  <2>. QED
    BY <1>20, <2>1, <2>2 DEF MountVolume
<1>21. CASE UNCHANGED vars
  BY <1>21 DEF vars, Exists, FileTypes, Volume, Types, AttemptTypes, Attempt, Active,
     Stages, Running, NoVolume
<1>. QED
  BY <1>1, <1>2, <1>3, <1>4, <1>5, <1>6, <1>7, <1>8, <1>9, <1>10, <1>11, <1>12, <1>13,
     <1>14, <1>15, <1>16, <1>17, <1>18, <1>19, <1>20, <1>21 DEF Next, Creation, Create,
     Mount


\* Whoever passes the check meets the attempts that run, and none that is reported.
LEMMA ApartStep == IInv /\ [Next]_vars => Apart'
<1>. SUFFICES ASSUME IInv, [Next]_vars PROVE Apart'
  OBVIOUS
<1>. USE AndroidAssumption DEF IInv, files, mountUi, Goto, Attempts, Nobody, Foreign
<1>1. ASSUME NEW n \in Names, CreateVolume(n) PROVE Apart'
  BY <1>1 DEF CreateVolume, Apart, Exists, FileTypes, Volume, Types, AttemptTypes,
     Attempt, Active, Stages, Running, Rival, Rivals
<1>2. CASE Leave
  BY <1>2 DEF Leave, Apart, Exists, FileTypes, Volume, Types, AttemptTypes, Attempt,
     Active, Stages, Running, Rival, Rivals
<1>3. CASE Kill
  BY <1>3 DEF Kill, ProcessEnds, FreshActivity, Apart, Exists, FileTypes, Volume,
     Types, AttemptTypes, Attempt, Active, Stages, Running, Rival, Rivals
<1>4. ASSUME NEW a \in Attempts, Check(a) PROVE Apart'
  BY <1>4 DEF Check, Apart, Exists, FileTypes, Volume, Types, AttemptTypes, Attempt,
     Active, Stages, Running, Rival, Rivals
<1>5. ASSUME NEW a \in Attempts, GenerateKeys(a) PROVE Apart'
  BY <1>5 DEF GenerateKeys, Apart, Exists, FileTypes, Volume, Types, AttemptTypes,
     Attempt, Active, Stages, Running, Rival, Rivals
<1>6. ASSUME NEW a \in Attempts, OpenKeyFile(a) PROVE Apart'
  BY <1>6 DEF OpenKeyFile, Apart, Exists, FileTypes, Volume, Types, AttemptTypes,
     Attempt, Active, Stages, Running, Rival, Rivals
<1>7. ASSUME NEW a \in Attempts, WriteKeyFile(a) PROVE Apart'
  BY <1>7 DEF WriteKeyFile, Apart, Exists, FileTypes, Volume, Types, AttemptTypes,
     Attempt, Active, Stages, Running, Rival, Rivals
<1>8. ASSUME NEW a \in Attempts, DeriveKeyAndEncrypt(a) PROVE Apart'
  BY <1>8 DEF DeriveKeyAndEncrypt, Apart, Exists, FileTypes, Volume, Types,
     AttemptTypes, Attempt, Active, Stages, Running, Rival, Rivals
<1>9. ASSUME NEW a \in Attempts, OpenVolume(a) PROVE Apart'
  BY <1>9 DEF OpenVolume, Apart, Exists, FileTypes, Volume, Types, AttemptTypes,
     Attempt, Active, Stages, Running, Rival, Rivals
<1>10. ASSUME NEW a \in Attempts, WriteHeader(a) PROVE Apart'
  BY <1>10 DEF WriteHeader, Apart, Exists, FileTypes, Volume, Types, AttemptTypes,
     Attempt, Active, Stages, Running, Rival, Rivals
<1>11. ASSUME NEW a \in Attempts, WriteBlock(a) PROVE Apart'
  BY <1>11 DEF WriteBlock, Apart, Exists, FileTypes, Volume, Types, AttemptTypes,
     Attempt, Active, Stages, Running, Rival, Rivals
<1>12. ASSUME NEW a \in Attempts, Report(a) PROVE Apart'
  BY <1>12 DEF Report, FinishActivity, Apart, Exists, FileTypes, Volume, Types,
     AttemptTypes, Attempt, Active, Stages, Running, Rival, Rivals
<1>13. ASSUME NEW a \in Attempts, Fail(a) PROVE Apart'
  BY <1>13 DEF Fail, FinishActivity, Fails, Apart, Exists, FileTypes, Volume, Types,
     AttemptTypes, Attempt, Active, Stages, Running, Rival, Rivals
<1>14. CASE OpenMountActivity
  BY <1>14 DEF OpenMountActivity, FreshActivity, Apart, Exists, FileTypes, Volume,
     Types, AttemptTypes, Attempt, Active, Stages, Running, Rival, Rivals
<1>15. ASSUME NEW n \in Names, SelectVolume(n) PROVE Apart'
  BY <1>15 DEF SelectVolume, Apart, Exists, FileTypes, Volume, Types, AttemptTypes,
     Attempt, Active, Stages, Running, Rival, Rivals
<1>16. CASE PickFile
  BY <1>16 DEF PickFile, Apart, Exists, FileTypes, Volume, Types, AttemptTypes,
     Attempt, Active, Stages, Running, Rival, Rivals
<1>17. CASE ReadHeader
  BY <1>17 DEF ReadHeader, Apart, Exists, FileTypes, Volume, Types, AttemptTypes,
     Attempt, Active, Stages, Running, Rival, Rivals
<1>18. CASE DisplayVolumeInfo
  BY <1>18 DEF DisplayVolumeInfo, Apart, Exists, FileTypes, Volume, Types,
     AttemptTypes, Attempt, Active, Stages, Running, Rival, Rivals
<1>19. ASSUME NEW p \in 1 .. Foreign, ClickMount(p) PROVE Apart'
  BY <1>19 DEF ClickMount, Apart, Exists, FileTypes, Volume, Types, AttemptTypes,
     Attempt, Active, Stages, Running, Rival, Rivals
<1>20. CASE MountVolume
  <2>1. CASE ProcessEnds
    BY <2>1 DEF ProcessEnds, FreshActivity, Apart, Exists, FileTypes, Volume, Types,
       AttemptTypes, Attempt, Active, Stages, Running, Rival, Rivals
  <2>2. CASE /\ queue' = Tail(queue) /\ queue # <<>>
             /\ UNCHANGED <<attempt, front, files, header, shown, posts>>
    BY <2>2 DEF Apart, Exists, FileTypes, Volume, Types, AttemptTypes, Attempt, Active,
       Stages, Running, Rival, Rivals
  <2>. QED
    BY <1>20, <2>1, <2>2 DEF MountVolume
<1>21. CASE UNCHANGED vars
  BY <1>21 DEF vars, Apart, Exists, FileTypes, Volume, Types, AttemptTypes, Attempt,
     Active, Stages, Running, Rival, Rivals
<1>. QED
  BY <1>1, <1>2, <1>3, <1>4, <1>5, <1>6, <1>7, <1>8, <1>9, <1>10, <1>11, <1>12, <1>13,
     <1>14, <1>15, <1>16, <1>17, <1>18, <1>19, <1>20, <1>21 DEF Next, Creation, Create,
     Mount


\* A change of an attempt is an attempt.
LEMMA Updates ==
    /\ \A r \in Attempt, s \in Stages : [r EXCEPT !.stage = s] \in Attempt
    /\ \A r \in Attempt, n \in Names : [r EXCEPT !.stage = "check", !.name = n] \in Attempt
    /\ \A r \in Attempt, S \in SUBSET Attempts :
          [r EXCEPT !.stage = "keys", !.rivals = S] \in Attempt
    /\ \A r \in Attempt, i \in 1 .. Blocks, s \in Stages :
          [r EXCEPT !.block = i, !.stage = s] \in Attempt
<1>1. "check" \in Stages /\ "keys" \in Stages /\ Names \subseteq AnyName
  BY DEF Stages, Active, AnyName
<1>. QED
  BY <1>1 DEF Attempt

LEMMA StageTypes ==
    ASSUME AttemptTypes, NEW a \in Attempts, attempt[a].stage # "new", NEW s \in Stages,
           attempt' = [attempt EXCEPT ![a].stage = s]
    PROVE  AttemptTypes'
<1>1. [attempt[a] EXCEPT !.stage = s] \in Attempt
  BY Updates DEF AttemptTypes
<1>2. attempt' \in [Attempts -> Attempt]
  BY <1>1 DEF AttemptTypes
<1>. QED
  BY <1>2 DEF AttemptTypes, Attempt

\* The end of the process ends the attempts that run, and nothing else.
LEMMA Ended ==
    ASSUME Types, ProcessEnds
    PROVE  /\ \A a \in Attempts :
                 /\ attempt'[a].stage = (IF Running(a) THEN "dead" ELSE attempt[a].stage)
                 /\ attempt'[a].name = attempt[a].name /\ attempt'[a].block = attempt[a].block
                 /\ attempt'[a].rivals = attempt[a].rivals
           /\ UNCHANGED files
  BY DEF Types, AttemptTypes, Attempt, ProcessEnds

LEMMA EndedTypes == Types /\ ProcessEnds => Types'
<1>. SUFFICES ASSUME Types, ProcessEnds PROVE Types'
  OBVIOUS
<1>1. ASSUME NEW a \in Attempts
      PROVE  [attempt[a] EXCEPT !.stage = IF Running(a) THEN "dead" ELSE @] \in Attempt
  BY DEF Types, AttemptTypes, Attempt, Stages
<1>2. attempt' \in [Attempts -> Attempt]
  BY <1>1 DEF ProcessEnds
<1>3. AttemptTypes'
  BY <1>2, Ended DEF AttemptTypes, Types, Running
<1>4. FileTypes' /\ MountTypes'
  <2>1. <<>> \in Seq(Task) /\ Nobody \in Headers
    BY AndroidAssumption DEF Headers, Nobody, Foreign
  <2>. QED
    BY <2>1 DEF Types, FileTypes, MountTypes, ProcessEnds, files, FreshActivity
<1>. QED
  BY <1>3, <1>4 DEF Types

LEMMA EndedLeavesOwn == Types /\ Own /\ ProcessEnds => Own'
<1>. SUFFICES ASSUME Types, Own, ProcessEnds PROVE Own'
  OBVIOUS
<1>1. \A a \in Attempts : Alone(a)' => Alone(a)
  BY Ended DEF Alone
<1>2. \A a \in Attempts : attempt'[a].stage # "dead" => attempt'[a].stage = attempt[a].stage
  BY Ended
<1>. QED
  BY <1>1, <1>2, Ended DEF Own, files

\* An attempt that has just begun does not touch what others wrote.
LEMMA OthersKeepOwn ==
    ASSUME Own, NEW a \in Attempts, attempt'[a].stage \in {"check", "keys"},
           \A b \in Attempts \ {a} : attempt'[b] = attempt[b],
           \A b \in Attempts : Alone(b)' => Alone(b),
           UNCHANGED <<keyFile, volume>>
    PROVE  Own'
<1>1. ASSUME NEW b \in Attempts, Alone(b)', b # a
      PROVE  Alone(b) /\ attempt'[b] = attempt[b]
  BY <1>1
<1>. QED
  BY <1>1 DEF Own

\* Nobody but its rivals writes to the files of an attempt.
LEMMA OwnStep == IInv /\ [Next]_vars => Own'
<1>. SUFFICES ASSUME IInv, [Next]_vars PROVE Own'
  OBVIOUS
<1>. USE AndroidAssumption DEF IInv, files, mountUi, Goto, Attempts, Nobody, Foreign
<1>1. ASSUME NEW n \in Names, CreateVolume(n) PROVE Own'
  <2>1. PICK a \in Attempts :
            /\ attempt[a].stage = "new"
            /\ attempt' = [attempt EXCEPT ![a].stage = "check", ![a].name = n]
    BY <1>1 DEF CreateVolume
  <2>2. /\ attempt'[a].stage = "check"
        /\ \A b \in Attempts : attempt'[b].rivals = attempt[b].rivals
        /\ \A b \in Attempts \ {a} : attempt'[b] = attempt[b]
    BY <2>1 DEF Types, AttemptTypes, Attempt
  <2>3. \A b \in Attempts : Alone(b)' => Alone(b)
    BY <2>2 DEF Alone
  <2>4. UNCHANGED <<keyFile, volume>> /\ attempt'[a].stage = "check"
    BY <1>1, <2>2 DEF CreateVolume
  <2>. QED
    BY <2>2, <2>3, <2>4, OthersKeepOwn
<1>2. CASE Leave
  BY <1>2 DEF Leave, Own, Alone, Apart, Types, AttemptTypes, Attempt, FileTypes,
     Volume, MountTypes, Active, Stages, Running, Rival, Early
<1>3. CASE Kill
  BY <1>3, EndedLeavesOwn DEF Kill
<1>4. ASSUME NEW a \in Attempts, Check(a) PROVE Own'
  <2>1. /\ attempt'[a].stage = "keys" /\ attempt[a].rivals = {}
        /\ \A b \in Attempts \ {a} : attempt'[b] = attempt[b]
    BY <1>4 DEF Check, Types, AttemptTypes, Attempt, Early
  <2>2. \A b \in Attempts : Alone(b)' => Alone(b)
    BY <2>1 DEF Alone
  <2>3. UNCHANGED <<keyFile, volume>>
    BY <1>4 DEF Check
  <2>. QED
    BY <2>1, <2>2, <2>3, OthersKeepOwn
<1>5. ASSUME NEW a \in Attempts, GenerateKeys(a) PROVE Own'
  BY <1>5 DEF GenerateKeys, Own, Alone, Apart, Types, AttemptTypes, Attempt, FileTypes,
     Volume, MountTypes, Active, Stages, Running, Rival, Early
<1>6. ASSUME NEW a \in Attempts, OpenKeyFile(a) PROVE Own'
  BY <1>6 DEF OpenKeyFile, Own, Alone, Apart, Types, AttemptTypes, Attempt, FileTypes,
     Volume, MountTypes, Active, Stages, Running, Rival, Early
<1>7. ASSUME NEW a \in Attempts, WriteKeyFile(a) PROVE Own'
  BY <1>7 DEF WriteKeyFile, Own, Alone, Apart, Types, AttemptTypes, Attempt, FileTypes,
     Volume, MountTypes, Active, Stages, Running, Rival, Early
<1>8. ASSUME NEW a \in Attempts, DeriveKeyAndEncrypt(a) PROVE Own'
  BY <1>8 DEF DeriveKeyAndEncrypt, Own, Alone, Apart, Types, AttemptTypes, Attempt,
     FileTypes, Volume, MountTypes, Active, Stages, Running, Rival, Early
<1>9. ASSUME NEW a \in Attempts, OpenVolume(a) PROVE Own'
  BY <1>9 DEF OpenVolume, Own, Alone, Apart, Types, AttemptTypes, Attempt, FileTypes,
     Volume, MountTypes, Active, Stages, Running, Rival, Early, NoVolume
<1>10. ASSUME NEW a \in Attempts, WriteHeader(a) PROVE Own'
  BY <1>10 DEF WriteHeader, Own, Alone, Apart, Types, AttemptTypes, Attempt, FileTypes,
     Volume, MountTypes, Active, Stages, Running, Rival, Early
<1>11. ASSUME NEW a \in Attempts, WriteBlock(a) PROVE Own'
  <2>. DEFINE i == attempt[a].block
  <2>1. /\ attempt[a].stage = "blocks" /\ i \in 1 .. Blocks /\ attempt[a].name \in Names
        /\ attempt'[a].stage = (IF i < Blocks THEN "blocks" ELSE "report")
        /\ attempt'[a].block = (IF i < Blocks THEN i + 1 ELSE i)
        /\ \A b \in Attempts \ {a} : attempt'[b] = attempt[b]
        /\ \A b \in Attempts : /\ attempt'[b].rivals = attempt[b].rivals
                              /\ attempt'[b].name = attempt[b].name
    BY <1>11 DEF WriteBlock, Types, AttemptTypes, Attempt
  <2>2. /\ keyFile' = keyFile
        /\ \A m \in Names, j \in 0 .. Blocks :
              volume'[m].cell[j] = IF m = attempt[a].name /\ j = i THEN a ELSE
                 volume[m].cell[j]
    BY <1>11, <2>1 DEF WriteBlock, Types, FileTypes, Volume
  <2>3. ASSUME NEW b \in Attempts, Alone(b)'
        PROVE  Alone(b)
    BY <2>1, <2>3 DEF Alone
  <2>4. ASSUME NEW b \in Attempts \ {a}, Alone(b),
               attempt[b].stage \in {"blocks", "report", "done"}
        PROVE  attempt[b].name # attempt[a].name /\ attempt[b].name \in Names
    BY <2>1, <2>4 DEF Apart, Rival, Alone, Active, Types, AttemptTypes
  <2>5. ASSUME NEW b \in Attempts \ {a}, Alone(b)
        PROVE  /\ attempt'[b].stage = "blocks" =>
                      \A j \in 0 .. attempt'[b].block - 1 :
                         volume'[attempt'[b].name].cell[j] = b
               /\ attempt'[b].stage \in {"report", "done"} =>
                      \A j \in 0 .. Blocks : volume'[attempt'[b].name].cell[j] = b
    <3>1. attempt[b].block - 1 \in 0 .. Blocks /\ attempt'[b] = attempt[b]
      BY <2>1 DEF Types, AttemptTypes, Attempt
    <3>. QED
      BY <2>2, <2>4, <2>5, <3>1 DEF Own
  <2>6. ASSUME Alone(a)
        PROVE  /\ attempt'[a].stage = "blocks" =>
                      \A j \in 0 .. attempt'[a].block - 1 :
                         volume'[attempt'[a].name].cell[j] = a
               /\ attempt'[a].stage = "report" =>
                      \A j \in 0 .. Blocks : volume'[attempt'[a].name].cell[j] = a
    <3>1. \A j \in 0 .. i - 1 : volume[attempt[a].name].cell[j] = a
      BY <2>1, <2>6 DEF Own
    <3>. QED
      BY <2>1, <2>2, <3>1
  <2>7. \A b \in Attempts : attempt'[b].stage \in {"derive", "open", "header",
     "blocks", "report", "done"}
            => attempt[b].stage \in {"derive", "open", "header", "blocks", "report",
               "done"}
    BY <2>1
  <2>. QED
    BY <2>1, <2>2, <2>3, <2>5, <2>6, <2>7 DEF Own
<1>12. ASSUME NEW a \in Attempts, Report(a) PROVE Own'
  BY <1>12 DEF Report, FinishActivity, Own, Alone, Apart, Types, AttemptTypes, Attempt,
     FileTypes, Volume, MountTypes, Active, Stages, Running, Rival, Early
<1>13. ASSUME NEW a \in Attempts, Fail(a) PROVE Own'
  BY <1>13 DEF Fail, FinishActivity, Fails, Own, Alone, Apart, Types, AttemptTypes,
     Attempt, FileTypes, Volume, MountTypes, Active, Stages, Running, Rival, Early
<1>14. CASE OpenMountActivity
  BY <1>14 DEF OpenMountActivity, FreshActivity, Own, Alone, Apart, Types,
     AttemptTypes, Attempt, FileTypes, Volume, MountTypes, Active, Stages, Running,
     Rival, Early
<1>15. ASSUME NEW n \in Names, SelectVolume(n) PROVE Own'
  BY <1>15 DEF SelectVolume, Own, Alone, Apart, Types, AttemptTypes, Attempt,
     FileTypes, Volume, MountTypes, Active, Stages, Running, Rival, Early
<1>16. CASE PickFile
  BY <1>16 DEF PickFile, Own, Alone, Apart, Types, AttemptTypes, Attempt, FileTypes,
     Volume, MountTypes, Active, Stages, Running, Rival, Early
<1>17. CASE ReadHeader
  BY <1>17 DEF ReadHeader, Own, Alone, Apart, Types, AttemptTypes, Attempt, FileTypes,
     Volume, MountTypes, Active, Stages, Running, Rival, Early
<1>18. CASE DisplayVolumeInfo
  BY <1>18 DEF DisplayVolumeInfo, Own, Alone, Apart, Types, AttemptTypes, Attempt,
     FileTypes, Volume, MountTypes, Active, Stages, Running, Rival, Early
<1>19. ASSUME NEW p \in 1 .. Foreign, ClickMount(p) PROVE Own'
  BY <1>19 DEF ClickMount, Own, Alone, Apart, Types, AttemptTypes, Attempt, FileTypes,
     Volume, MountTypes, Active, Stages, Running, Rival, Early
<1>20. CASE MountVolume
  <2>1. CASE ProcessEnds
    BY <2>1, EndedLeavesOwn
  <2>2. CASE UNCHANGED <<attempt, files>>
    BY <2>2 DEF Own, Alone
  <2>. QED
    BY <1>20, <2>1, <2>2 DEF MountVolume
<1>21. CASE UNCHANGED vars
  BY <1>21 DEF vars, Own, Alone, Apart, Types, AttemptTypes, Attempt, FileTypes,
     Volume, MountTypes, Active, Stages, Running, Rival, Early
<1>. QED
  BY <1>1, <1>2, <1>3, <1>4, <1>5, <1>6, <1>7, <1>8, <1>9, <1>10, <1>11, <1>12, <1>13,
     <1>14, <1>15, <1>16, <1>17, <1>18, <1>19, <1>20, <1>21 DEF Next, Creation, Create,
     Mount


\* The types are kept.
LEMMA TypesStep == IInv /\ [Next]_vars => Types'
<1>. SUFFICES ASSUME IInv, [Next]_vars PROVE Types'
  OBVIOUS
<1>. USE AndroidAssumption DEF IInv, files, mountUi, Goto, Attempts, Nobody, Foreign
<1>1. ASSUME NEW n \in Names, CreateVolume(n) PROVE Types'
  <2>1. AttemptTypes'
    <3>1. PICK a \in Attempts :
              attempt' = [attempt EXCEPT ![a].stage = "check", ![a].name = n]
      BY <1>1 DEF CreateVolume
    <3>2. [attempt[a] EXCEPT !.stage = "check", !.name = n] \in Attempt
      BY Updates DEF Types, AttemptTypes
    <3>. QED
      BY <3>1, <3>2 DEF Types, AttemptTypes, Attempt
  <2>2. FileTypes'
    BY <1>1 DEF CreateVolume, Types, FileTypes
  <2>3. MountTypes'
    BY <1>1 DEF CreateVolume, Types, MountTypes
  <2>. QED
    BY <2>1, <2>2, <2>3 DEF Types
<1>2. CASE Leave
  BY <1>2 DEF Leave, Types, AttemptTypes, Attempt, Stages, FileTypes, Volume,
     MountTypes, Active, AnyName, Task, Writers, Headers
<1>3. CASE Kill
  BY <1>3, EndedTypes DEF Kill
<1>4. ASSUME NEW a \in Attempts, Check(a) PROVE Types'
  <2>1. AttemptTypes'
    <3>1. [attempt[a] EXCEPT !.stage = "keys", !.rivals = Rivals(a)] \in Attempt
      BY Updates DEF Types, AttemptTypes, Rivals
    <3>. QED
      BY <1>4, <3>1 DEF Check, Types, AttemptTypes, Attempt
  <2>2. FileTypes'
    BY <1>4 DEF Check, Types, FileTypes
  <2>3. MountTypes'
    BY <1>4 DEF Check, Types, MountTypes
  <2>. QED
    BY <2>1, <2>2, <2>3 DEF Types
<1>5. ASSUME NEW a \in Attempts, GenerateKeys(a) PROVE Types'
  BY <1>5 DEF GenerateKeys, Types, AttemptTypes, Attempt, Stages, FileTypes, Volume,
     MountTypes, Active, AnyName, Task, Writers, Headers
<1>6. ASSUME NEW a \in Attempts, OpenKeyFile(a) PROVE Types'
  <2>1. AttemptTypes'
    BY <1>6, StageTypes DEF OpenKeyFile, Types, Stages, Active
  <2>2. FileTypes'
    <3>1. Nobody \in Writers
      BY DEF Writers
    <3>. QED
      BY <1>6, <3>1 DEF OpenKeyFile, Types, FileTypes
  <2>3. MountTypes'
    BY <1>6 DEF OpenKeyFile, Types, MountTypes
  <2>. QED
    BY <2>1, <2>2, <2>3 DEF Types
<1>7. ASSUME NEW a \in Attempts, WriteKeyFile(a) PROVE Types'
  <2>1. AttemptTypes'
    BY <1>7, StageTypes DEF WriteKeyFile, Types, Stages, Active
  <2>2. FileTypes'
    <3>1. a \in Writers
      BY DEF Writers
    <3>. QED
      BY <1>7, <3>1 DEF WriteKeyFile, Types, FileTypes
  <2>3. MountTypes'
    BY <1>7 DEF WriteKeyFile, Types, MountTypes
  <2>. QED
    BY <2>1, <2>2, <2>3 DEF Types
<1>8. ASSUME NEW a \in Attempts, DeriveKeyAndEncrypt(a) PROVE Types'
  BY <1>8 DEF DeriveKeyAndEncrypt, Types, AttemptTypes, Attempt, Stages, FileTypes,
     Volume, MountTypes, Active, AnyName, Task, Writers, Headers
<1>9. ASSUME NEW a \in Attempts, OpenVolume(a) PROVE Types'
  <2>1. AttemptTypes'
    BY <1>9, StageTypes DEF OpenVolume, Types, Stages, Active
  <2>2. FileTypes'
    <3>1. [NoVolume EXCEPT !.exists = TRUE] \in Volume
      <4>1. [i \in 0 .. Blocks |-> Nobody] \in [0 .. Blocks -> Writers]
        BY DEF Writers
      <4>2. NoVolume \in Volume
        BY <4>1, Zenon DEF NoVolume, Volume
      <4>3. TRUE \in BOOLEAN
        BY Zenon
      <4>. QED
        BY <4>2, <4>3 DEF Volume
    <3>. QED
      BY <1>9, <3>1 DEF OpenVolume, Types, FileTypes
  <2>3. MountTypes'
    BY <1>9 DEF OpenVolume, Types, MountTypes
  <2>. QED
    BY <2>1, <2>2, <2>3 DEF Types
<1>10. ASSUME NEW a \in Attempts, WriteHeader(a) PROVE Types'
  <2>1. AttemptTypes'
    BY <1>10, StageTypes DEF WriteHeader, Types, Stages, Active
  <2>2. FileTypes'
    <3>1. 0 \in 0 .. Blocks /\ a \in Writers
      BY DEF Types, AttemptTypes, Attempt, Writers
    <3>. DEFINE n == attempt[a].name
    <3>2. ASSUME n \in Names PROVE [volume[n] EXCEPT !.cell[0] = a] \in Volume
      BY <3>1, <3>2 DEF Types, FileTypes, Volume
    <3>3. volume' = [volume EXCEPT ![n] = [@ EXCEPT !.cell[0] = a]] /\ UNCHANGED keyFile
      BY <1>10 DEF WriteHeader
    <3>. QED
      BY <3>2, <3>3 DEF Types, FileTypes
  <2>3. MountTypes'
    BY <1>10 DEF WriteHeader, Types, MountTypes
  <2>. QED
    BY <2>1, <2>2, <2>3 DEF Types
<1>11. ASSUME NEW a \in Attempts, WriteBlock(a) PROVE Types'
  <2>1. AttemptTypes'
    <3>1. PICK i \in 1 .. Blocks, s \in Active :
              attempt' = [attempt EXCEPT ![a].block = i, ![a].stage = s]
      <4>1. attempt[a].block \in 1 .. Blocks
        BY DEF Types, AttemptTypes, Attempt
      <4>2. CASE attempt[a].block < Blocks
        <5>1. /\ attempt[a].block + 1 \in 1 .. Blocks /\ "blocks" \in Active
              /\ attempt' = [attempt EXCEPT ![a].block = attempt[a].block + 1,
                                           ![a].stage = "blocks"]
          BY <1>11, <4>1, <4>2 DEF WriteBlock, Active
        <5>. QED
          BY <5>1
      <4>3. CASE ~(attempt[a].block < Blocks)
        BY <1>11, <4>1, <4>3 DEF WriteBlock, Active
      <4>. QED
        BY <4>2, <4>3
    <3>2. [attempt[a] EXCEPT !.block = i, !.stage = s] \in Attempt
      BY <3>1, Updates DEF Types, AttemptTypes, Stages
    <3>3. attempt[a].name \in Names
      BY <1>11 DEF WriteBlock, Types, AttemptTypes
    <3>. QED
      BY <3>1, <3>2, <3>3 DEF Types, AttemptTypes, Attempt
  <2>2. FileTypes'
    <3>1. attempt[a].block \in 0 .. Blocks /\ a \in Writers
      BY DEF Types, AttemptTypes, Attempt, Writers
    <3>. DEFINE n == attempt[a].name
    <3>2. ASSUME n \in Names PROVE [volume[n] EXCEPT !.cell[attempt[a].block] = a] \in
       Volume
      BY <3>1, <3>2 DEF Types, FileTypes, Volume
    <3>3. volume' = [volume EXCEPT ![n] = [@ EXCEPT !.cell[attempt[a].block] = a]] /\
       UNCHANGED keyFile
      BY <1>11 DEF WriteBlock
    <3>. QED
      BY <3>2, <3>3 DEF Types, FileTypes
  <2>3. MountTypes'
    BY <1>11 DEF WriteBlock, Types, MountTypes
  <2>. QED
    BY <2>1, <2>2, <2>3 DEF Types
<1>12. ASSUME NEW a \in Attempts, Report(a) PROVE Types'
  BY <1>12 DEF Report, FinishActivity, Types, AttemptTypes, Attempt, Stages, FileTypes,
     Volume, MountTypes, Active, AnyName, Task, Writers, Headers
<1>13. ASSUME NEW a \in Attempts, Fail(a) PROVE Types'
  BY <1>13 DEF Fail, FinishActivity, Fails, Types, AttemptTypes, Attempt, Stages,
     FileTypes, Volume, MountTypes, Active, AnyName, Task, Writers, Headers
<1>14. CASE OpenMountActivity
  BY <1>14 DEF OpenMountActivity, FreshActivity, Types, AttemptTypes, Attempt, Stages,
     FileTypes, Volume, MountTypes, Active, AnyName, Task, Writers, Headers
<1>15. ASSUME NEW n \in Names, SelectVolume(n) PROVE Types'
  BY <1>15 DEF SelectVolume, Types, AttemptTypes, Attempt, Stages, FileTypes, Volume,
     MountTypes, Active, AnyName, Task, Writers, Headers
<1>16. CASE PickFile
  BY <1>16 DEF PickFile, Types, AttemptTypes, Attempt, Stages, FileTypes, Volume,
     MountTypes, Active, AnyName, Task, Writers, Headers
<1>17. CASE ReadHeader
  <2>1. \A n \in Names : volume[n].cell[0] \in Headers
    BY DEF Types, FileTypes, Volume, Writers, Headers
  <2>2. Head(queue) \in Task /\ Tail(queue) \in Seq(Task)
    BY <1>17 DEF ReadHeader, Types, MountTypes
  <2>3. header' \in Headers /\ posts' \in Nat
    <3>1. CASE Head(queue).task = "read"
      BY <1>17, <2>1, <2>2, <3>1 DEF ReadHeader, Types, MountTypes, Task
    <3>2. CASE Head(queue).task = "readCopy"
      BY <1>17, <2>2, <3>2 DEF ReadHeader, Types, MountTypes, Task, Headers
    <3>. QED
      BY <1>17, <3>1, <3>2 DEF ReadHeader
  <2>. QED
    BY <1>17, <2>2, <2>3 DEF ReadHeader, Types, AttemptTypes, FileTypes, MountTypes
<1>18. CASE DisplayVolumeInfo
  BY <1>18 DEF DisplayVolumeInfo, Types, AttemptTypes, Attempt, Stages, FileTypes,
     Volume, MountTypes, Active, AnyName, Task, Writers, Headers
<1>19. ASSUME NEW p \in 1 .. Foreign, ClickMount(p) PROVE Types'
  BY <1>19 DEF ClickMount, Types, AttemptTypes, Attempt, Stages, FileTypes, Volume,
     MountTypes, Active, AnyName, Task, Writers, Headers
<1>20. CASE MountVolume
  <2>1. CASE ProcessEnds
    BY <2>1, EndedTypes
  <2>2. CASE /\ queue' = Tail(queue) /\ queue # <<>>
             /\ UNCHANGED <<attempt, front, files, header, shown, posts>>
    BY <2>2 DEF Types, AttemptTypes, FileTypes, MountTypes
  <2>. QED
    BY <1>20, <2>1, <2>2 DEF MountVolume
<1>21. CASE UNCHANGED vars
  BY <1>21 DEF vars, Types, AttemptTypes, Attempt, Stages, FileTypes, Volume,
     MountTypes, Active, AnyName, Task, Writers, Headers
<1>. QED
  BY <1>1, <1>2, <1>3, <1>4, <1>5, <1>6, <1>7, <1>8, <1>9, <1>10, <1>11, <1>12, <1>13,
     <1>14, <1>15, <1>16, <1>17, <1>18, <1>19, <1>20, <1>21 DEF Next, Creation, Create,
     Mount


-----------------------------------------------------------------------------
(* The invariant, and what follows from it *)

\* It holds at first: nothing was attempted, no file exists.
LEMMA IInit == Init => IInv
<1>. SUFFICES ASSUME Init PROVE IInv
  OBVIOUS
<1>. USE AndroidAssumption DEF Attempts, Nobody, Foreign
<1>1. \A a \in Attempts : /\ attempt[a].stage = "new" /\ attempt[a].block = 1
                          /\ attempt[a].rivals = {}
  BY DEF Init
<1>2. AttemptTypes
  <2>. DEFINE n == CHOOSE m \in Names : TRUE
  <2>1. n \in AnyName
    BY DEF AnyName
  <2>. HIDE DEF n
  <2>2. [stage |-> "new", name |-> n, block |-> 1, rivals |-> {}] \in Attempt
    BY <2>1 DEF Attempt, Stages
  <2>3. attempt = [a \in Attempts |-> [stage |-> "new", name |-> n, block |-> 1, rivals |-> {}]]
    BY Zenon DEF Init, n
  <2>. QED
    BY <1>1, <2>2, <2>3 DEF AttemptTypes
<1>3. FileTypes
  <2>1. [i \in 0 .. Blocks |-> Nobody] \in [0 .. Blocks -> Writers] /\ Nobody \in Writers
    BY DEF Writers
  <2>2. NoVolume \in Volume
    BY <2>1, Zenon DEF NoVolume, Volume
  <2>. QED
    BY <2>1, <2>2 DEF Init, FileTypes
<1>4. MountTypes /\ HeaderKnown
  BY DEF Init, MountTypes, HeaderKnown, Headers
<1>5. Early /\ Exists /\ Apart /\ Own
  BY <1>1 DEF Early, Exists, Apart, Own, Active
<1>. QED
  BY <1>2, <1>3, <1>4, <1>5 DEF IInv, Types

\* Every step keeps it.
LEMMA IStep == IInv /\ [Next]_vars => IInv'
  BY TypesStep, EarlyStep, ExistsStep, ApartStep, OwnStep, HeaderStep DEF IInv

LEMMA Invariant == Spec => []IInv
  BY IInit, IStep, PTL DEF Spec

\* A reported volume whose creation did not overlap with another of its name
\* stays intact, whatever attempts follow, fail or are killed.
THEOREM ReportedStays == Spec => []ReportedAloneIntact
<1>1. IInv => ReportedAloneIntact
  BY DEF IInv, Own, ReportedAloneIntact, Intact
<1>. QED
  BY Invariant, <1>1, PTL

\* A mount runs only when a header has been read.
THEOREM MountHasHeader == Spec => []HeaderBeforeMount
<1>1. IInv => HeaderBeforeMount
  <2>. SUFFICES ASSUME IInv, queue # <<>>, Head(queue).task = "mount" PROVE header # Nobody
    BY DEF HeaderBeforeMount
  <2>1. 1 \in 1 .. Len(queue) /\ Head(queue) = queue[1]
    BY DEF IInv, Types, MountTypes
  <2>. QED
    BY <2>1 DEF IInv, HeaderKnown
<1>. QED
  BY Invariant, <1>1, PTL
=============================================================================
