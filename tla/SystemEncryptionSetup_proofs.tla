---------------------- MODULE SystemEncryptionSetup_proofs ----------------------
(***************************************************************************)
(* What the system reads while its drive is encrypted or decrypted is what *)
(* it wrote, the keys are kept while data depend on them, a shutdown loses *)
(* nothing and a crash little: for every size of the drive, of a block and *)
(* of the distance between two saves of the header.                        *)
(*                                                                         *)
(* The argument: while a block is on its way, its buffer stands for it     *)
(* (Right); the block lies at the end of the encrypted area, on the side   *)
(* it is about to change to (Positioned); and the header tells the area    *)
(* unless an update is required or the last save failed (Current), or is   *)
(* behind by no more than the units that were counted (Counted).           *)
(***************************************************************************)
EXTENDS SystemEncryptionSetup, FiniteSetTheorems, TLAPS

Buffered == pc \in {"wipe", "write", "undo"}
InBlock  == pc \in {"hold", "read", "wipe", "write", "undo"}
Looping  == pc \in {"loop", "save"} \/ InBlock

\* Nothing is known of the drive while the machine is off, and the thread runs
\* only on a drive that is mounted.
Powered ==
    /\ ~power => /\ pc = "none" /\ areaStart = None /\ areaEnd = None /\ configuredEnd = None
                 /\ ~mounted /\ ~shuttingDown
    /\ pc \notin {"none", "done"} => power /\ mounted
    /\ held => pc \in {"read", "wipe", "write", "undo", "end"}
    /\ pc \in {"read", "wipe", "write", "undo"} => held

\* The area: what of it is not known, and when.
Areas ==
    /\ areaStart = None => areaEnd = None
    /\ areaStart # None /\ areaEnd = None =>
           mode = "encrypt" /\ (Looping \/ pc = "end") /\ pc # "save"
    /\ areaEnd = 0 => mode = "decrypt" /\ pc \in {"save", "loop", "end", "clear"}
    /\ ~mounted => areaStart = None
    /\ mounted /\ configuredEnd # Last =>
           mode = "decrypt" /\ areaStart = None /\ pc \in {"finalSave", "finish", "dismount"}
    /\ pc = "clear" => mode = "decrypt" /\ EncryptedArea = {}
    /\ pc \in {"finalSave", "finish"} /\ mode = "decrypt" /\ EncryptedArea = {} =>
           configuredEnd = None
    /\ pc = "dismount" => configuredEnd # Last

\* The next block, or the one at hand, is at the end of the area.
Positioned ==
    /\ pc = "start" \/ Looping => blockSize >= 1
    /\ Looping =>
         /\ areaStart = First
         /\ mode = "encrypt" => offset = IF areaEnd = None THEN First ELSE areaEnd + 1
         /\ mode = "decrypt" =>
              /\ areaEnd # None
              /\ offset = areaEnd + 1 - (IF InBlock THEN blockSize ELSE 0)
         /\ mode = "encrypt" /\ InBlock => offset + blockSize <= Last + 1

\* What a unit holds, or held before its block was taken in hand.
Old(b) == IF Buffered /\ b \in Block THEN buffer[b] ELSE disk[b]

\* Each unit that is not lost holds what the system wrote, in the form that the
\* area implies; while the machine is off, the area is what the header says.
Right ==
    /\ Buffered => buffer \in [Block -> Content]
    /\ power => \A b \in Units \ lost :
           Old(b) = IF b \in EncryptedArea THEN Cipher(latest[b]) ELSE Plain(latest[b])
    /\ ~power => \A b \in Units \ lost :
           disk[b] = IF b \in HeaderArea(header) THEN Cipher(latest[b]) ELSE Plain(latest[b])

\* Without a header the drive is decrypted, or about to be dismounted as such.
Absent ==
    ~header.present =>
        \/ ~mounted
        \/ /\ mode = "decrypt" /\ EncryptedArea = {}
           /\ pc \in {"loop", "end", "clear", "finalSave", "finish", "dismount"}

\* The header tells the area, unless an update is required, or has failed.
Current ==
    /\ pc = "start" => ~updateRequired
    /\ pc \in {"save", "finalSave"} => updateRequired
    /\ mode = "encrypt" /\ updateRequired => areaEnd # None /\ areaEnd >= First
    /\ power /\ saved /\ (~updateRequired \/ pc \in {"finish", "dismount", "done", "none"}) =>
           HeaderArea(header) = EncryptedArea

\* How far the encrypted area reaches, and how far the header says it does.
Length       == IF NoArea THEN 0 ELSE areaEnd
HeaderLength == IF header.present THEN header.length ELSE 0

\* No block is left after those that were taken.
AtEnd == IF mode = "encrypt" THEN offset + (IF InBlock THEN blockSize ELSE 0) = Last + 1
                             ELSE offset = First

Running     == pc \in {"start", "end", "clear", "finalSave"} \/ Looping
Multiple(n) == \E k \in 0 .. n : n = k * BlockSize
Limit       == BlocksToThreshold * BlockSize

\* bytesWrittenSinceHeaderUpdate tells how far the header may be behind, and
\* all blocks but the last one are of the same size.
Counted ==
    /\ pc = "start" => blockSize = BlockSize /\ sinceUpdate = 0
    /\ Looping => blockSize = BlockSize \/ AtEnd
    /\ saved /\ Running =>
         /\ mode = "encrypt" => HeaderLength <= Length /\ Length - HeaderLength <= sinceUpdate
         /\ mode = "decrypt" => Length <= HeaderLength /\ HeaderLength - Length <= sinceUpdate
         /\ sinceUpdate <= Limit
         /\ Looping /\ pc # "save" =>
                \/ AtEnd /\ ~InBlock
                \/ sinceUpdate < Threshold /\ Multiple(sinceUpdate)

IInv == TypeOK /\ Powered /\ Areas /\ Positioned /\ Right /\ Absent /\ Current /\ Counted

-----------------------------------------------------------------------------
(* The operators of the model *)

\* A unit is encrypted and decrypted as it should be, and nothing else is.
LEMMA Ciphers ==
    ASSUME NEW c \in Content, NEW d \in {0, 1}
    PROVE  /\ Plain(d) \in Content /\ Cipher(d) \in Content /\ Junk \in Content
           /\ Encrypt(c) \in Content /\ Decrypt(c) \in Content
           /\ Encrypt(c) = Cipher(d) <=> c = Plain(d)
           /\ Decrypt(c) = Plain(d) <=> c = Cipher(d)
           /\ Plain(d) # Cipher(d)
  BY DEF Content, Plain, Cipher, Junk, Encrypt, Decrypt

\* A unit is read right exactly when it has the form that its place implies.
LEMMA WrongRight ==
    ASSUME latest \in [Units -> {0, 1}], NEW disc \in [Units -> Content], NEW encrypted,
           NEW b \in Units
    PROVE  b \notin Wrong(disc, encrypted) <=>
               disc[b] = IF b \in encrypted THEN Cipher(latest[b]) ELSE Plain(latest[b])
<1>1. disc[b] \in Content /\ latest[b] \in {0, 1}
  OBVIOUS
<1>. QED
  BY <1>1, Ciphers DEF Wrong, View

\* The area is empty when it is not known or ends before it starts.
LEMMA EmptyArea ==
    ASSUME TypeOK
    PROVE  EncryptedArea = {} <=> NoArea \/ areaEnd < areaStart
<1>1. ASSUME ~NoArea, areaStart <= areaEnd PROVE areaStart \in EncryptedArea
  BY <1>1 DEF TypeOK, EncryptedArea, NoArea, First, None
<1>2. ASSUME ~NoArea, areaEnd < areaStart PROVE EncryptedArea = {}
  BY <1>2 DEF TypeOK, EncryptedArea, NoArea, First, None
<1>. QED
  BY <1>1, <1>2 DEF TypeOK, EncryptedArea, NoArea, First, None

\* A write changes what it is to change, and puts contents where it does.
LEMMA PutTypes ==
    ASSUME disk \in [Units -> Content], NEW new, NEW where,
           \A b \in where : new[b] \in Content
    PROVE  Put(new, where) \in [Units -> Content]
  BY DEF Put

\* Whatever is being written is the block at hand.
LEMMA WritingTypes ==
    ASSUME TypeOK, Buffered => buffer \in [Block -> Content]
    PROVE  /\ Buffered => Block \subseteq Units /\ DOMAIN Writing = Block
           /\ ~Buffered => DOMAIN Writing = {}
           /\ \A b \in DOMAIN Writing : Writing[b] \in Content
<1>1. CASE pc = "write"
  <2>1. Writing = Transformed
    BY <1>1 DEF Writing
  <2>2. \A b \in Block : Encrypt(buffer[b]) \in Content /\ Decrypt(buffer[b]) \in Content
    BY <1>1, Ciphers DEF Buffered
  <2>3. DOMAIN Transformed = Block /\ \A b \in Block : Transformed[b] \in Content
    BY <2>2 DEF Transformed
  <2>. QED
    BY <1>1, <2>1, <2>3 DEF TypeOK, Buffered
<1>2. CASE pc = "wipe"
  <2>1. Writing = Wiped /\ Junk \in Content
    BY <1>2 DEF Writing, Junk, Content
  <2>. QED
    BY <1>2, <2>1 DEF Wiped, TypeOK, Buffered
<1>3. CASE pc = "undo"
  BY <1>3 DEF Writing, TypeOK, Buffered
<1>4. CASE ~Buffered
  BY <1>4 DEF Writing, Buffered
<1>. QED
  BY <1>1, <1>2, <1>3, <1>4 DEF Buffered

\* The lengths give the areas.
LEMMA Lengths ==
    TypeOK => /\ Length \in 0 .. Last /\ HeaderLength \in 0 .. Last
              /\ EncryptedArea = First .. Length
              /\ HeaderArea(header) = First .. HeaderLength
              /\ HeaderArea(header) = EncryptedArea => HeaderLength = Length
<1>. SUFFICES ASSUME TypeOK
              PROVE  /\ Length \in 0 .. Last /\ HeaderLength \in 0 .. Last
                     /\ EncryptedArea = First .. Length
                     /\ HeaderArea(header) = First .. HeaderLength
                     /\ HeaderArea(header) = EncryptedArea => HeaderLength = Length
  OBVIOUS
<1>. USE SetupAssumption DEF First, None
<1>1. Length \in 0 .. Last /\ HeaderLength \in 0 .. Last
  BY DEF Length, HeaderLength, NoArea, TypeOK
<1>2. EncryptedArea = First .. Length
  BY DEF EncryptedArea, NoArea, Length, TypeOK
<1>3. HeaderArea(header) = First .. HeaderLength
  BY DEF HeaderArea, HeaderLength, TypeOK
<1>4. ASSUME HeaderArea(header) = EncryptedArea PROVE HeaderLength = Length
  <2>1. \A i \in Nat \ {0} : i <= Length <=> i <= HeaderLength
    BY <1>1, <1>2, <1>3, <1>4
  <2>. QED
    BY <1>1, <2>1
<1>. QED
  BY <1>1, <1>2, <1>3, <1>4

\* Whole blocks are counted, and there is room for one more below the threshold.
LEMMA Blocks ==
    /\ BlocksToThreshold \in Nat /\ Limit \in Nat
    /\ 0 < Threshold /\ Multiple(0)
    /\ \A n \in Nat : Multiple(n) => Multiple(n + BlockSize)
    /\ \A n \in Nat : Multiple(n) /\ n < Threshold => n + BlockSize <= Limit
<1>. USE SetupAssumption
<1>. DEFINE q == BlocksToThreshold
<1>1. q \in Nat /\ Threshold <= q * BlockSize
  <2>1. q \in Int /\ q * BlockSize <= Threshold + BlockSize - 1
        /\ Threshold + BlockSize - 1 < q * BlockSize + BlockSize
    BY DEF BlocksToThreshold
  <2>2. q >= 0
    BY DEF BlocksToThreshold
  <2>. QED
    BY <2>1, <2>2
<1>2. Limit \in Nat
  BY <1>1 DEF Limit
<1>3. Multiple(0)
  BY DEF Multiple
<1>4. ASSUME NEW n \in Nat, Multiple(n)
      PROVE  Multiple(n + BlockSize) /\ (n < Threshold => n + BlockSize <= Limit)
  <2>1. PICK k \in 0 .. n : n = k * BlockSize
    BY <1>4 DEF Multiple
  <2>2. n + BlockSize = (k + 1) * BlockSize /\ k + 1 \in 0 .. n + BlockSize
    BY <2>1
  <2>3. ASSUME n < Threshold PROVE n + BlockSize <= Limit
    <3>1. k * BlockSize < q * BlockSize
      BY <1>1, <2>1, <2>3
    <3>2. k < q
      BY <1>1, <2>1, <3>1
    <3>3. (k + 1) * BlockSize <= q * BlockSize
      BY <1>1, <2>1, <3>2
    <3>. QED
      BY <2>2, <3>3 DEF Limit
  <2>. QED
    BY <2>2, <2>3 DEF Multiple
<1>. QED
  BY <1>1, <1>2, <1>3, <1>4

-----------------------------------------------------------------------------
(* The steps *)

\* A machine that is off, or has just been started, is in a state as declared.
LEMMA OffTypes ==
    ASSUME Off, disk' \in [Units -> Content], latest' \in [Units -> {0, 1}],
           lost' \subseteq Units, TypeOK, UNCHANGED stored
    PROVE  TypeOK'
<1>1. /\ power' \in BOOLEAN /\ mounted' \in BOOLEAN /\ held' \in BOOLEAN /\ wipe' \in BOOLEAN
      /\ updateRequired' \in BOOLEAN /\ abortRequested' \in BOOLEAN /\ shuttingDown' \in BOOLEAN
  BY Zenon DEF Off
<1>2. /\ areaStart' \in {None, First} /\ areaEnd' \in {None} \cup (0 .. Last)
      /\ configuredEnd' \in {None, Last} /\ mode' \in {"encrypt", "decrypt"}
      /\ offset' \in First .. Last + 1 /\ blockSize' \in 0 .. BlockSize
      /\ sinceUpdate' \in Nat /\ mutex' \in {"free", "abort", "thread"}
      /\ pc' \in Places /\ pc' \notin {"hold", "read", "wipe", "write", "undo"}
  BY SetupAssumption DEF Off, Places, First, None
<1>3. header' \in [present : BOOLEAN, length : 0 .. Last] /\ saved' \in BOOLEAN
  BY DEF TypeOK, stored
<1>. QED
  BY <1>1, <1>2, <1>3 DEF TypeOK

\* The types are kept, and the block at hand is within the area.
LEMMA TypeStep == IInv /\ [Next]_vars => TypeOK'
<1>. SUFFICES ASSUME IInv, [Next]_vars PROVE TypeOK'
  OBVIOUS
<1>. USE SetupAssumption DEF IInv, First, None, Units, drive, stored, area, request,
   locals, control,
     Goto
<1>1. CASE MountDrive
  BY <1>1 DEF MountDrive, HeaderArea, TypeOK, Places, Content, Block, Powered, Areas, Positioned,
     Looping, InBlock, NoArea
<1>2. CASE Shutdown
  BY <1>2 DEF Shutdown, TypeOK, Places, Content, Block, Powered, Areas, Positioned,
     Looping, InBlock, NoArea
<1>3. CASE PowerOff
  <2>1. lost' \subseteq Units
    BY <1>3 DEF PowerOff, Wrong
  <2>. QED
    BY <1>3, <2>1, OffTypes DEF PowerOff, TypeOK
<1>4. CASE Crash
  <2>1. PICK written \in SUBSET DOMAIN Writing : disk' = Put(Writing, written)
    BY <1>4 DEF Crash
  <2>2. disk' \in [Units -> Content]
    BY <2>1, WritingTypes, PutTypes DEF TypeOK, Right
  <2>3. lost' \subseteq Units
    BY <1>4 DEF Crash, Wrong
  <2>. QED
    BY <1>4, <2>2, <2>3, OffTypes DEF Crash, TypeOK
<1>5. ASSUME NEW b \in Units, SystemWrites(b) PROVE TypeOK'
  <2>1. latest[b] \in {0, 1} /\ 1 - latest[b] \in {0, 1}
    BY DEF TypeOK
  <2>2. Cipher(1 - latest[b]) \in Content /\ Plain(1 - latest[b]) \in Content
    BY <2>1 DEF Cipher, Plain, Content
  <2>3. disk' \in [Units -> Content] /\ latest' \in [Units -> {0, 1}]
    BY <1>5, <2>1, <2>2 DEF SystemWrites, TypeOK
  <2>4. lost' \subseteq Units /\ Block' = Block
    BY <1>5 DEF SystemWrites, TypeOK, Block
  <2>. QED
    BY <1>5, <2>3, <2>4 DEF SystemWrites, TypeOK
<1>6. ASSUME NEW m \in {"encrypt", "decrypt"}, NEW w \in BOOLEAN,
             StartBootEncryptionSetup(m, w)
      PROVE  TypeOK'
  <2>1. wipe' \in BOOLEAN /\ abortRequested' \in BOOLEAN /\ updateRequired' \in BOOLEAN
    BY <1>6, Zenon DEF StartBootEncryptionSetup
  <2>. QED
    BY <1>6, <2>1 DEF StartBootEncryptionSetup, TypeOK, Places
<1>7. CASE RequestAbort
  BY <1>7 DEF RequestAbort, TypeOK, Places, Content, Block, Powered, Areas, Positioned,
     Looping, InBlock, NoArea
<1>8. CASE AbortReturns
  BY <1>8 DEF AbortReturns, TypeOK, Places, Content, Block, Powered, Areas, Positioned,
     Looping, InBlock, NoArea
<1>9. CASE HoldAborted
  BY <1>9 DEF HoldAborted, TypeOK, Places, Content, Block, Powered, Areas, Positioned,
     Looping, InBlock, NoArea
<1>10. CASE BeginEncryption
  BY <1>10 DEF BeginEncryption, TypeOK, Places, Content, Block, Powered, Areas,
     Positioned, Looping, InBlock, NoArea
<1>11. CASE BeginDecryption
  BY <1>11 DEF BeginDecryption, TypeOK, Places, Content, Block, Powered, Areas,
     Positioned, Looping, InBlock, NoArea
<1>12. CASE LoopAborted
  BY <1>12 DEF LoopAborted, TypeOK, Places, Content, Block, Powered, Areas, Positioned,
     Looping, InBlock, NoArea
<1>13. CASE NextUp
  BY <1>13 DEF NextUp, TypeOK, Places, Content, Block, Powered, Areas, Positioned,
     Looping, InBlock, NoArea
<1>14. CASE NextDown
  BY <1>14 DEF NextDown, TypeOK, Places, Content, Block, Powered, Areas, Positioned,
     Looping, InBlock, NoArea
<1>15. CASE Hold
  BY <1>15 DEF Hold, TypeOK, Places, Content, Block, Powered, Areas, Positioned,
     Looping, InBlock, NoArea
<1>16. CASE ReadBlock
  BY <1>16 DEF ReadBlock, AfterRead, TypeOK, Places, Content, Block, Powered, Areas, Positioned,
     Looping, InBlock, NoArea
<1>17. CASE ReadRecovers
  <2>1. PICK bad \in SUBSET Block :
            /\ disk' = [b \in Units |-> IF b \in bad THEN Junk ELSE disk[b]]
            /\ lost' = lost \cup bad
    BY <1>17 DEF ReadRecovers
  <2>2. disk' \in [Units -> Content]
    BY <2>1 DEF TypeOK, Junk, Content
  <2>3. lost' \subseteq Units
    BY <1>17, <2>1 DEF ReadRecovers, TypeOK
  <2>4. pc' \in Places /\ Block' = Block /\ Block \subseteq Units
    BY <1>17 DEF ReadRecovers, AfterRead, Places, Block, TypeOK
  <2>. QED
    BY <1>17, <2>2, <2>3, <2>4 DEF ReadRecovers, TypeOK
<1>18. CASE ReadFails
  BY <1>18 DEF ReadFails, TypeOK, Places, Content, Block, Powered, Areas, Positioned,
     Looping, InBlock, NoArea
<1>19. CASE WipeBlock
  <2>1. Writing = Wiped /\ disk' = Put(Writing, DOMAIN Writing)
    BY <1>19, WritingTypes DEF WipeBlock, Writing, Buffered, Right
  <2>2. disk' \in [Units -> Content]
    BY <2>1, WritingTypes, PutTypes DEF TypeOK, Right
  <2>. QED
    BY <1>19, <2>2 DEF WipeBlock, TypeOK, Places, Block
<1>20. CASE WriteBlock
  <2>1. Writing = Transformed /\ disk' = Put(Writing, DOMAIN Writing)
    BY <1>20, WritingTypes DEF WriteBlock, Writing, Buffered, Right
  <2>2. disk' \in [Units -> Content]
    BY <2>1, WritingTypes, PutTypes DEF TypeOK, Right
  <2>3. offset' \in First .. Last + 1 /\ areaEnd' \in 0 .. Last /\ sinceUpdate' \in Nat
    BY <1>20 DEF WriteBlock, TypeOK, Positioned, Looping, InBlock, Block
  <2>. QED
    BY <1>20, <2>2, <2>3 DEF WriteBlock, TypeOK, Places
<1>21. CASE WriteFails
  <2>1. PICK written \in SUBSET DOMAIN Writing : disk' = Put(Writing, written)
    BY <1>21, WritingTypes DEF WriteFails, Buffered, Right
  <2>2. disk' \in [Units -> Content]
    BY <2>1, WritingTypes, PutTypes DEF TypeOK, Right
  <2>. QED
    BY <1>21, <2>2 DEF WriteFails, TypeOK, Places, Block
<1>22. CASE UndoWrite
  <2>1. Writing = buffer /\ disk' = Put(Writing, DOMAIN Writing)
    BY <1>22, WritingTypes DEF UndoWrite, Writing, Buffered, Right
  <2>2. disk' \in [Units -> Content]
    BY <2>1, WritingTypes, PutTypes DEF TypeOK, Right
  <2>. QED
    BY <1>22, <2>2 DEF UndoWrite, TypeOK, Places
<1>23. CASE UndoFails
  <2>1. Writing = buffer /\ Block \subseteq Units
    BY <1>23, WritingTypes DEF UndoFails, Writing, Buffered, Right
  <2>2. PICK written \in SUBSET DOMAIN Writing : disk' = Put(Writing, written)
    BY <1>23, <2>1, WritingTypes DEF UndoFails, Buffered, Right
  <2>3. disk' \in [Units -> Content]
    BY <2>2, WritingTypes, PutTypes DEF TypeOK, Right
  <2>4. lost' \subseteq Units
    BY <1>23, <2>1 DEF UndoFails, TypeOK
  <2>. QED
    BY <1>23, <2>3, <2>4 DEF UndoFails, TypeOK, Places
<1>24. CASE SaveHeader
  <2>1. header' \in [present : BOOLEAN, length : 0 .. Last]
    BY <1>24 DEF SaveHeader, SaveDriveVolumeHeader, SavedHeader, TypeOK, NoArea
  <2>. QED
    BY <1>24, <2>1 DEF SaveHeader, SaveDriveVolumeHeader, TypeOK, Places
<1>25. CASE SaveFails
  BY <1>25 DEF SaveFails, TypeOK, Places, Content, Block, Powered, Areas, Positioned,
     Looping, InBlock, NoArea
<1>26. CASE End
  BY <1>26 DEF End, TypeOK, Places, Content, Block, Powered, Areas, Positioned,
     Looping, InBlock, NoArea
<1>27. CASE ClearArea
  BY <1>27 DEF ClearArea, TypeOK, Places, Content, Block, Powered, Areas, Positioned,
     Looping, InBlock, NoArea
<1>28. CASE FinalSave
  <2>1. header' \in [present : BOOLEAN, length : 0 .. Last]
    BY <1>28 DEF FinalSave, SaveDriveVolumeHeader, SavedHeader, TypeOK, NoArea
  <2>. QED
    BY <1>28, <2>1 DEF FinalSave, SaveDriveVolumeHeader, TypeOK, Places
<1>29. CASE Finish
  BY <1>29 DEF Finish, TypeOK, Places, Content, Block, Powered, Areas, Positioned,
     Looping, InBlock, NoArea
<1>30. CASE AcquireMutex
  BY <1>30 DEF AcquireMutex, TypeOK, Places, Content, Block, Powered, Areas,
     Positioned, Looping, InBlock, NoArea
<1>31. CASE MutexAborted
  BY <1>31 DEF MutexAborted, TypeOK, Places, Content, Block, Powered, Areas,
     Positioned, Looping, InBlock, NoArea
<1>32. CASE DismountDrive
  BY <1>32 DEF DismountDrive, TypeOK, Places, Content, Block, Powered, Areas,
     Positioned, Looping, InBlock, NoArea
<1>33. CASE UNCHANGED vars
  BY <1>33 DEF vars, TypeOK, Places, Content, Block, Powered, Areas, Positioned,
     Looping, InBlock, NoArea
<1>. QED
  BY <1>1, <1>2, <1>3, <1>4, <1>5, <1>6, <1>7, <1>8, <1>9, <1>10, <1>11, <1>12, <1>13,
     <1>14, <1>15, <1>16, <1>17, <1>18, <1>19, <1>20, <1>21, <1>22, <1>23, <1>24,
     <1>25, <1>26, <1>27, <1>28, <1>29, <1>30, <1>31, <1>32, <1>33
  DEF Next, SetupThreadProc, AfterHold, OnItsOwn

\* The thread runs on a mounted drive, and holds the queue while a block is on its
\* way.
LEMMA PoweredStep == IInv /\ [Next]_vars => Powered'
<1>. SUFFICES ASSUME IInv, [Next]_vars PROVE Powered'
  OBVIOUS
<1>. USE SetupAssumption DEF IInv, First, None, Units, drive, stored, area, request,
   locals, control,
     Goto
<1>1. CASE MountDrive
  BY <1>1 DEF MountDrive, TypeOK, Powered, Areas, Decrypted, AfterRead, Looping, InBlock
<1>2. CASE Shutdown
  BY <1>2 DEF Shutdown, TypeOK, Powered, Areas, Decrypted, AfterRead, Looping, InBlock
<1>3. CASE PowerOff
  BY <1>3 DEF PowerOff, Off, TypeOK, Powered, Areas, Decrypted, AfterRead, Looping,
     InBlock
<1>4. CASE Crash
  BY <1>4 DEF Crash, Off, TypeOK, Powered, Areas, Decrypted, AfterRead, Looping, InBlock
<1>5. ASSUME NEW b \in Units, SystemWrites(b) PROVE Powered'
  BY <1>5 DEF SystemWrites, TypeOK, Powered, Areas, Decrypted, AfterRead, Looping,
     InBlock
<1>6. ASSUME NEW m \in {"encrypt", "decrypt"}, NEW w \in BOOLEAN,
             StartBootEncryptionSetup(m, w)
      PROVE  Powered'
  BY <1>6 DEF StartBootEncryptionSetup, TypeOK, Powered, Areas, Decrypted, AfterRead,
     Looping, InBlock
<1>7. CASE RequestAbort
  BY <1>7 DEF RequestAbort, TypeOK, Powered, Areas, Decrypted, AfterRead, Looping,
     InBlock
<1>8. CASE AbortReturns
  BY <1>8 DEF AbortReturns, TypeOK, Powered, Areas, Decrypted, AfterRead, Looping,
     InBlock
<1>9. CASE HoldAborted
  BY <1>9 DEF HoldAborted, TypeOK, Powered, Areas, Decrypted, AfterRead, Looping,
     InBlock
<1>10. CASE BeginEncryption
  BY <1>10 DEF BeginEncryption, TypeOK, Powered, Areas, Decrypted, AfterRead, Looping,
     InBlock
<1>11. CASE BeginDecryption
  BY <1>11 DEF BeginDecryption, TypeOK, Powered, Areas, Decrypted, AfterRead, Looping,
     InBlock
<1>12. CASE LoopAborted
  BY <1>12 DEF LoopAborted, TypeOK, Powered, Areas, Decrypted, AfterRead, Looping,
     InBlock
<1>13. CASE NextUp
  BY <1>13 DEF NextUp, TypeOK, Powered, Areas, Decrypted, AfterRead, Looping, InBlock
<1>14. CASE NextDown
  BY <1>14 DEF NextDown, TypeOK, Powered, Areas, Decrypted, AfterRead, Looping, InBlock
<1>15. CASE Hold
  BY <1>15 DEF Hold, TypeOK, Powered, Areas, Decrypted, AfterRead, Looping, InBlock
<1>16. CASE ReadBlock
  BY <1>16 DEF ReadBlock, TypeOK, Powered, Areas, Decrypted, AfterRead, Looping, InBlock
<1>17. CASE ReadRecovers
  BY <1>17 DEF ReadRecovers, TypeOK, Powered, Areas, Decrypted, AfterRead, Looping,
     InBlock
<1>18. CASE ReadFails
  BY <1>18 DEF ReadFails, TypeOK, Powered, Areas, Decrypted, AfterRead, Looping, InBlock
<1>19. CASE WipeBlock
  BY <1>19 DEF WipeBlock, TypeOK, Powered, Areas, Decrypted, AfterRead, Looping, InBlock
<1>20. CASE WriteBlock
  BY <1>20 DEF WriteBlock, TypeOK, Powered, Areas, Decrypted, AfterRead, Looping,
     InBlock
<1>21. CASE WriteFails
  BY <1>21 DEF WriteFails, TypeOK, Powered, Areas, Decrypted, AfterRead, Looping,
     InBlock
<1>22. CASE UndoWrite
  BY <1>22 DEF UndoWrite, TypeOK, Powered, Areas, Decrypted, AfterRead, Looping, InBlock
<1>23. CASE UndoFails
  BY <1>23 DEF UndoFails, TypeOK, Powered, Areas, Decrypted, AfterRead, Looping, InBlock
<1>24. CASE SaveHeader
  BY <1>24 DEF SaveHeader, SaveDriveVolumeHeader, TypeOK, Powered, Areas, Decrypted,
     AfterRead, Looping, InBlock
<1>25. CASE SaveFails
  BY <1>25 DEF SaveFails, TypeOK, Powered, Areas, Decrypted, AfterRead, Looping, InBlock
<1>26. CASE End
  BY <1>26 DEF End, TypeOK, Powered, Areas, Decrypted, AfterRead, Looping, InBlock
<1>27. CASE ClearArea
  BY <1>27 DEF ClearArea, TypeOK, Powered, Areas, Decrypted, AfterRead, Looping, InBlock
<1>28. CASE FinalSave
  BY <1>28 DEF FinalSave, SaveDriveVolumeHeader, TypeOK, Powered, Areas, Decrypted,
     AfterRead, Looping, InBlock
<1>29. CASE Finish
  BY <1>29 DEF Finish, TypeOK, Powered, Areas, Decrypted, AfterRead, Looping, InBlock
<1>30. CASE AcquireMutex
  BY <1>30 DEF AcquireMutex, TypeOK, Powered, Areas, Decrypted, AfterRead, Looping,
     InBlock
<1>31. CASE MutexAborted
  BY <1>31 DEF MutexAborted, TypeOK, Powered, Areas, Decrypted, AfterRead, Looping,
     InBlock
<1>32. CASE DismountDrive
  BY <1>32 DEF DismountDrive, TypeOK, Powered, Areas, Decrypted, AfterRead, Looping,
     InBlock
<1>33. CASE UNCHANGED vars
  BY <1>33 DEF vars, TypeOK, Powered, Areas, Decrypted, AfterRead, Looping, InBlock
<1>. QED
  BY <1>1, <1>2, <1>3, <1>4, <1>5, <1>6, <1>7, <1>8, <1>9, <1>10, <1>11, <1>12, <1>13,
     <1>14, <1>15, <1>16, <1>17, <1>18, <1>19, <1>20, <1>21, <1>22, <1>23, <1>24,
     <1>25, <1>26, <1>27, <1>28, <1>29, <1>30, <1>31, <1>32, <1>33
  DEF Next, SetupThreadProc, AfterHold, OnItsOwn


\* The block at hand stays at the end of the area.
LEMMA PositionedStep == IInv /\ [Next]_vars => Positioned'
<1>. SUFFICES ASSUME IInv, [Next]_vars PROVE Positioned'
  OBVIOUS
<1>. USE SetupAssumption DEF IInv, First, None, Units, drive, stored, area, request,
   locals, control,
     Goto
<1>1. CASE MountDrive
  BY <1>1 DEF MountDrive, TypeOK, Places, Block, Powered, Areas, Positioned, Looping,
     InBlock, NoArea, AfterRead, EncryptedArea
<1>2. CASE Shutdown
  BY <1>2 DEF Shutdown, TypeOK, Places, Block, Powered, Areas, Positioned, Looping,
     InBlock, NoArea, AfterRead, EncryptedArea
<1>3. CASE PowerOff
  BY <1>3 DEF PowerOff, Off, TypeOK, Places, Block, Powered, Areas, Positioned,
     Looping, InBlock, NoArea, AfterRead, EncryptedArea
<1>4. CASE Crash
  BY <1>4 DEF Crash, Off, TypeOK, Places, Block, Powered, Areas, Positioned, Looping,
     InBlock, NoArea, AfterRead, EncryptedArea
<1>5. ASSUME NEW b \in Units, SystemWrites(b) PROVE Positioned'
  BY <1>5 DEF SystemWrites, TypeOK, Places, Block, Powered, Areas, Positioned, Looping,
     InBlock, NoArea, AfterRead, EncryptedArea
<1>6. ASSUME NEW m \in {"encrypt", "decrypt"}, NEW w \in BOOLEAN,
             StartBootEncryptionSetup(m, w)
      PROVE  Positioned'
  BY <1>6 DEF StartBootEncryptionSetup, TypeOK, Places, Block, Powered, Areas,
     Positioned, Looping, InBlock, NoArea, AfterRead, EncryptedArea
<1>7. CASE RequestAbort
  BY <1>7 DEF RequestAbort, TypeOK, Places, Block, Powered, Areas, Positioned, Looping,
     InBlock, NoArea, AfterRead, EncryptedArea
<1>8. CASE AbortReturns
  BY <1>8 DEF AbortReturns, TypeOK, Places, Block, Powered, Areas, Positioned, Looping,
     InBlock, NoArea, AfterRead, EncryptedArea
<1>9. CASE HoldAborted
  BY <1>9 DEF HoldAborted, TypeOK, Places, Block, Powered, Areas, Positioned, Looping,
     InBlock, NoArea, AfterRead, EncryptedArea
<1>10. CASE BeginEncryption
  BY <1>10 DEF BeginEncryption, TypeOK, Places, Block, Powered, Areas, Positioned,
     Looping, InBlock, NoArea, AfterRead, EncryptedArea
<1>11. CASE BeginDecryption
  BY <1>11 DEF BeginDecryption, TypeOK, Places, Block, Powered, Areas, Positioned,
     Looping, InBlock, NoArea, AfterRead, EncryptedArea
<1>12. CASE LoopAborted
  BY <1>12 DEF LoopAborted, TypeOK, Places, Block, Powered, Areas, Positioned, Looping,
     InBlock, NoArea, AfterRead, EncryptedArea
<1>13. CASE NextUp
  BY <1>13 DEF NextUp, TypeOK, Places, Block, Powered, Areas, Positioned, Looping,
     InBlock, NoArea, AfterRead, EncryptedArea
<1>14. CASE NextDown
  BY <1>14 DEF NextDown, TypeOK, Places, Block, Powered, Areas, Positioned, Looping,
     InBlock, NoArea, AfterRead, EncryptedArea
<1>15. CASE Hold
  BY <1>15 DEF Hold, TypeOK, Places, Block, Powered, Areas, Positioned, Looping,
     InBlock, NoArea, AfterRead, EncryptedArea
<1>16. CASE ReadBlock
  BY <1>16 DEF ReadBlock, TypeOK, Places, Block, Powered, Areas, Positioned, Looping,
     InBlock, NoArea, AfterRead, EncryptedArea
<1>17. CASE ReadRecovers
  BY <1>17 DEF ReadRecovers, TypeOK, Places, Block, Powered, Areas, Positioned,
     Looping, InBlock, NoArea, AfterRead, EncryptedArea
<1>18. CASE ReadFails
  BY <1>18 DEF ReadFails, TypeOK, Places, Block, Powered, Areas, Positioned, Looping,
     InBlock, NoArea, AfterRead, EncryptedArea
<1>19. CASE WipeBlock
  BY <1>19 DEF WipeBlock, TypeOK, Places, Block, Powered, Areas, Positioned, Looping,
     InBlock, NoArea, AfterRead, EncryptedArea
<1>20. CASE WriteBlock
  BY <1>20 DEF WriteBlock, TypeOK, Places, Block, Powered, Areas, Positioned, Looping,
     InBlock, NoArea, AfterRead, EncryptedArea
<1>21. CASE WriteFails
  BY <1>21 DEF WriteFails, TypeOK, Places, Block, Powered, Areas, Positioned, Looping,
     InBlock, NoArea, AfterRead, EncryptedArea
<1>22. CASE UndoWrite
  BY <1>22 DEF UndoWrite, TypeOK, Places, Block, Powered, Areas, Positioned, Looping,
     InBlock, NoArea, AfterRead, EncryptedArea
<1>23. CASE UndoFails
  BY <1>23 DEF UndoFails, TypeOK, Places, Block, Powered, Areas, Positioned, Looping,
     InBlock, NoArea, AfterRead, EncryptedArea
<1>24. CASE SaveHeader
  BY <1>24 DEF SaveHeader, SaveDriveVolumeHeader, TypeOK, Places, Block, Powered,
     Areas, Positioned, Looping, InBlock, NoArea, AfterRead, EncryptedArea
<1>25. CASE SaveFails
  BY <1>25 DEF SaveFails, TypeOK, Places, Block, Powered, Areas, Positioned, Looping,
     InBlock, NoArea, AfterRead, EncryptedArea
<1>26. CASE End
  BY <1>26 DEF End, TypeOK, Places, Block, Powered, Areas, Positioned, Looping,
     InBlock, NoArea, AfterRead, EncryptedArea
<1>27. CASE ClearArea
  BY <1>27 DEF ClearArea, TypeOK, Places, Block, Powered, Areas, Positioned, Looping,
     InBlock, NoArea, AfterRead, EncryptedArea
<1>28. CASE FinalSave
  BY <1>28 DEF FinalSave, SaveDriveVolumeHeader, TypeOK, Places, Block, Powered, Areas,
     Positioned, Looping, InBlock, NoArea, AfterRead, EncryptedArea
<1>29. CASE Finish
  BY <1>29 DEF Finish, TypeOK, Places, Block, Powered, Areas, Positioned, Looping,
     InBlock, NoArea, AfterRead, EncryptedArea
<1>30. CASE AcquireMutex
  BY <1>30 DEF AcquireMutex, TypeOK, Places, Block, Powered, Areas, Positioned,
     Looping, InBlock, NoArea, AfterRead, EncryptedArea
<1>31. CASE MutexAborted
  BY <1>31 DEF MutexAborted, TypeOK, Places, Block, Powered, Areas, Positioned,
     Looping, InBlock, NoArea, AfterRead, EncryptedArea
<1>32. CASE DismountDrive
  BY <1>32 DEF DismountDrive, TypeOK, Places, Block, Powered, Areas, Positioned,
     Looping, InBlock, NoArea, AfterRead, EncryptedArea
<1>33. CASE UNCHANGED vars
  BY <1>33 DEF vars, TypeOK, Places, Block, Powered, Areas, Positioned, Looping,
     InBlock, NoArea, AfterRead, EncryptedArea
<1>. QED
  BY <1>1, <1>2, <1>3, <1>4, <1>5, <1>6, <1>7, <1>8, <1>9, <1>10, <1>11, <1>12, <1>13,
     <1>14, <1>15, <1>16, <1>17, <1>18, <1>19, <1>20, <1>21, <1>22, <1>23, <1>24,
     <1>25, <1>26, <1>27, <1>28, <1>29, <1>30, <1>31, <1>32, <1>33
  DEF Next, SetupThreadProc, AfterHold, OnItsOwn


\* What of the area is not known stays as it is said to be.
LEMMA AreasStep == IInv /\ [Next]_vars => Areas'
<1>. SUFFICES ASSUME IInv, [Next]_vars PROVE Areas'
  OBVIOUS
<1>. USE SetupAssumption DEF IInv, First, None, Units, drive, stored, area, request,
   locals, control,
     Goto
<1>1. CASE MountDrive
  BY <1>1 DEF MountDrive, TypeOK, Places, Block, Powered, Areas, Positioned, Looping,
     InBlock, NoArea, AfterRead, EncryptedArea, HeaderArea, Absent, Current, Decrypted
<1>2. CASE Shutdown
  BY <1>2 DEF Shutdown, TypeOK, Places, Block, Powered, Areas, Positioned, Looping,
     InBlock, NoArea, AfterRead, EncryptedArea, HeaderArea, Absent, Current, Decrypted
<1>3. CASE PowerOff
  BY <1>3 DEF PowerOff, Off, TypeOK, Places, Block, Powered, Areas, Positioned,
     Looping, InBlock, NoArea, AfterRead, EncryptedArea, HeaderArea, Absent, Current,
     Decrypted
<1>4. CASE Crash
  BY <1>4 DEF Crash, Off, TypeOK, Places, Block, Powered, Areas, Positioned, Looping,
     InBlock, NoArea, AfterRead, EncryptedArea, HeaderArea, Absent, Current, Decrypted
<1>5. ASSUME NEW b \in Units, SystemWrites(b) PROVE Areas'
  BY <1>5 DEF SystemWrites, TypeOK, Places, Block, Powered, Areas, Positioned, Looping,
     InBlock, NoArea, AfterRead, EncryptedArea, HeaderArea, Absent, Current, Decrypted
<1>6. ASSUME NEW m \in {"encrypt", "decrypt"}, NEW w \in BOOLEAN,
             StartBootEncryptionSetup(m, w)
      PROVE  Areas'
  BY <1>6 DEF StartBootEncryptionSetup, TypeOK, Places, Block, Powered, Areas,
     Positioned, Looping, InBlock, NoArea, AfterRead, EncryptedArea, HeaderArea,
     Absent, Current, Decrypted
<1>7. CASE RequestAbort
  BY <1>7 DEF RequestAbort, TypeOK, Places, Block, Powered, Areas, Positioned, Looping,
     InBlock, NoArea, AfterRead, EncryptedArea, HeaderArea, Absent, Current, Decrypted
<1>8. CASE AbortReturns
  BY <1>8 DEF AbortReturns, TypeOK, Places, Block, Powered, Areas, Positioned, Looping,
     InBlock, NoArea, AfterRead, EncryptedArea, HeaderArea, Absent, Current, Decrypted
<1>9. CASE HoldAborted
  BY <1>9 DEF HoldAborted, TypeOK, Places, Block, Powered, Areas, Positioned, Looping,
     InBlock, NoArea, AfterRead, EncryptedArea, HeaderArea, Absent, Current, Decrypted
<1>10. CASE BeginEncryption
  BY <1>10 DEF BeginEncryption, TypeOK, Places, Block, Powered, Areas, Positioned,
     Looping, InBlock, NoArea, AfterRead, EncryptedArea, HeaderArea, Absent, Current,
     Decrypted
<1>11. CASE BeginDecryption
  BY <1>11 DEF BeginDecryption, TypeOK, Places, Block, Powered, Areas, Positioned,
     Looping, InBlock, NoArea, AfterRead, EncryptedArea, HeaderArea, Absent, Current,
     Decrypted
<1>12. CASE LoopAborted
  BY <1>12 DEF LoopAborted, TypeOK, Places, Block, Powered, Areas, Positioned, Looping,
     InBlock, NoArea, AfterRead, EncryptedArea, HeaderArea, Absent, Current, Decrypted
<1>13. CASE NextUp
  BY <1>13 DEF NextUp, TypeOK, Places, Block, Powered, Areas, Positioned, Looping,
     InBlock, NoArea, AfterRead, EncryptedArea, HeaderArea, Absent, Current, Decrypted
<1>14. CASE NextDown
  BY <1>14 DEF NextDown, TypeOK, Places, Block, Powered, Areas, Positioned, Looping,
     InBlock, NoArea, AfterRead, EncryptedArea, HeaderArea, Absent, Current, Decrypted
<1>15. CASE Hold
  BY <1>15 DEF Hold, TypeOK, Places, Block, Powered, Areas, Positioned, Looping,
     InBlock, NoArea, AfterRead, EncryptedArea, HeaderArea, Absent, Current, Decrypted
<1>16. CASE ReadBlock
  BY <1>16 DEF ReadBlock, TypeOK, Places, Block, Powered, Areas, Positioned, Looping,
     InBlock, NoArea, AfterRead, EncryptedArea, HeaderArea, Absent, Current, Decrypted
<1>17. CASE ReadRecovers
  BY <1>17 DEF ReadRecovers, TypeOK, Places, Block, Powered, Areas, Positioned,
     Looping, InBlock, NoArea, AfterRead, EncryptedArea, HeaderArea, Absent, Current,
     Decrypted
<1>18. CASE ReadFails
  BY <1>18 DEF ReadFails, TypeOK, Places, Block, Powered, Areas, Positioned, Looping,
     InBlock, NoArea, AfterRead, EncryptedArea, HeaderArea, Absent, Current, Decrypted
<1>19. CASE WipeBlock
  BY <1>19 DEF WipeBlock, TypeOK, Places, Block, Powered, Areas, Positioned, Looping,
     InBlock, NoArea, AfterRead, EncryptedArea, HeaderArea, Absent, Current, Decrypted
<1>20. CASE WriteBlock
  BY <1>20 DEF WriteBlock, TypeOK, Places, Block, Powered, Areas, Positioned, Looping,
     InBlock, NoArea, AfterRead, EncryptedArea, HeaderArea, Absent, Current, Decrypted
<1>21. CASE WriteFails
  BY <1>21 DEF WriteFails, TypeOK, Places, Block, Powered, Areas, Positioned, Looping,
     InBlock, NoArea, AfterRead, EncryptedArea, HeaderArea, Absent, Current, Decrypted
<1>22. CASE UndoWrite
  BY <1>22 DEF UndoWrite, TypeOK, Places, Block, Powered, Areas, Positioned, Looping,
     InBlock, NoArea, AfterRead, EncryptedArea, HeaderArea, Absent, Current, Decrypted
<1>23. CASE UndoFails
  BY <1>23 DEF UndoFails, TypeOK, Places, Block, Powered, Areas, Positioned, Looping,
     InBlock, NoArea, AfterRead, EncryptedArea, HeaderArea, Absent, Current, Decrypted
<1>24. CASE SaveHeader
  BY <1>24 DEF SaveHeader, SaveDriveVolumeHeader, TypeOK, Places, Block, Powered,
     Areas, Positioned, Looping, InBlock, NoArea, AfterRead, EncryptedArea, HeaderArea,
     Absent, Current, Decrypted
<1>25. CASE SaveFails
  BY <1>25 DEF SaveFails, TypeOK, Places, Block, Powered, Areas, Positioned, Looping,
     InBlock, NoArea, AfterRead, EncryptedArea, HeaderArea, Absent, Current, Decrypted
<1>26. CASE End
  <2>1. UNCHANGED <<mode, mounted, areaEnd, configuredEnd, EncryptedArea>>
    BY <1>26 DEF End, EncryptedArea, NoArea
  <2>2. ASSUME EncryptedArea = {} PROVE areaEnd = None \/ areaEnd < areaStart
    BY <1>26, <2>2, EmptyArea DEF Areas, NoArea
  <2>3. ASSUME areaEnd = None \/ areaEnd < areaStart PROVE EncryptedArea = {}
    BY <2>3, EmptyArea DEF NoArea
  <2>. QED
    BY <1>26, <2>1, <2>2, <2>3 DEF End, Areas, TypeOK, Looping, InBlock, Powered
<1>27. CASE ClearArea
  BY <1>27 DEF ClearArea, TypeOK, Places, Block, Powered, Areas, Positioned, Looping,
     InBlock, NoArea, AfterRead, EncryptedArea, HeaderArea, Absent, Current, Decrypted
<1>28. CASE FinalSave
  BY <1>28 DEF FinalSave, SaveDriveVolumeHeader, TypeOK, Places, Block, Powered, Areas,
     Positioned, Looping, InBlock, NoArea, AfterRead, EncryptedArea, HeaderArea,
     Absent, Current, Decrypted
<1>29. CASE Finish
  BY <1>29 DEF Finish, TypeOK, Places, Block, Powered, Areas, Positioned, Looping,
     InBlock, NoArea, AfterRead, EncryptedArea, HeaderArea, Absent, Current, Decrypted
<1>30. CASE AcquireMutex
  BY <1>30 DEF AcquireMutex, TypeOK, Places, Block, Powered, Areas, Positioned,
     Looping, InBlock, NoArea, AfterRead, EncryptedArea, HeaderArea, Absent, Current,
     Decrypted
<1>31. CASE MutexAborted
  BY <1>31 DEF MutexAborted, TypeOK, Places, Block, Powered, Areas, Positioned,
     Looping, InBlock, NoArea, AfterRead, EncryptedArea, HeaderArea, Absent, Current,
     Decrypted
<1>32. CASE DismountDrive
  BY <1>32 DEF DismountDrive, TypeOK, Places, Block, Powered, Areas, Positioned,
     Looping, InBlock, NoArea, AfterRead, EncryptedArea, HeaderArea, Absent, Current,
     Decrypted
<1>33. CASE UNCHANGED vars
  BY <1>33 DEF vars, TypeOK, Places, Block, Powered, Areas, Positioned, Looping,
     InBlock, NoArea, AfterRead, EncryptedArea, HeaderArea, Absent, Current, Decrypted
<1>. QED
  BY <1>1, <1>2, <1>3, <1>4, <1>5, <1>6, <1>7, <1>8, <1>9, <1>10, <1>11, <1>12, <1>13,
     <1>14, <1>15, <1>16, <1>17, <1>18, <1>19, <1>20, <1>21, <1>22, <1>23, <1>24,
     <1>25, <1>26, <1>27, <1>28, <1>29, <1>30, <1>31, <1>32, <1>33
  DEF Next, SetupThreadProc, AfterHold, OnItsOwn


\* The header is zeroed only when the drive is decrypted.
LEMMA AbsentStep == IInv /\ [Next]_vars => Absent'
<1>. SUFFICES ASSUME IInv, [Next]_vars PROVE Absent'
  OBVIOUS
<1>. USE SetupAssumption DEF IInv, First, None, Units, drive, stored, area, request,
   locals, control,
     Goto
<1>1. CASE MountDrive
  BY <1>1 DEF MountDrive, TypeOK, Places, Block, Powered, Areas, Positioned, Looping,
     InBlock, NoArea, AfterRead, EncryptedArea, HeaderArea, Absent, Decrypted
<1>2. CASE Shutdown
  BY <1>2 DEF Shutdown, TypeOK, Places, Block, Powered, Areas, Positioned, Looping,
     InBlock, NoArea, AfterRead, EncryptedArea, HeaderArea, Absent, Decrypted
<1>3. CASE PowerOff
  BY <1>3 DEF PowerOff, Off, TypeOK, Places, Block, Powered, Areas, Positioned,
     Looping, InBlock, NoArea, AfterRead, EncryptedArea, HeaderArea, Absent, Decrypted
<1>4. CASE Crash
  BY <1>4 DEF Crash, Off, TypeOK, Places, Block, Powered, Areas, Positioned, Looping,
     InBlock, NoArea, AfterRead, EncryptedArea, HeaderArea, Absent, Decrypted
<1>5. ASSUME NEW b \in Units, SystemWrites(b) PROVE Absent'
  BY <1>5 DEF SystemWrites, TypeOK, Places, Block, Powered, Areas, Positioned, Looping,
     InBlock, NoArea, AfterRead, EncryptedArea, HeaderArea, Absent, Decrypted
<1>6. ASSUME NEW m \in {"encrypt", "decrypt"}, NEW w \in BOOLEAN,
             StartBootEncryptionSetup(m, w)
      PROVE  Absent'
  BY <1>6 DEF StartBootEncryptionSetup, TypeOK, Places, Block, Powered, Areas,
     Positioned, Looping, InBlock, NoArea, AfterRead, EncryptedArea, HeaderArea,
     Absent, Decrypted
<1>7. CASE RequestAbort
  BY <1>7 DEF RequestAbort, TypeOK, Places, Block, Powered, Areas, Positioned, Looping,
     InBlock, NoArea, AfterRead, EncryptedArea, HeaderArea, Absent, Decrypted
<1>8. CASE AbortReturns
  BY <1>8 DEF AbortReturns, TypeOK, Places, Block, Powered, Areas, Positioned, Looping,
     InBlock, NoArea, AfterRead, EncryptedArea, HeaderArea, Absent, Decrypted
<1>9. CASE HoldAborted
  BY <1>9 DEF HoldAborted, TypeOK, Places, Block, Powered, Areas, Positioned, Looping,
     InBlock, NoArea, AfterRead, EncryptedArea, HeaderArea, Absent, Decrypted
<1>10. CASE BeginEncryption
  BY <1>10 DEF BeginEncryption, TypeOK, Places, Block, Powered, Areas, Positioned,
     Looping, InBlock, NoArea, AfterRead, EncryptedArea, HeaderArea, Absent, Decrypted
<1>11. CASE BeginDecryption
  BY <1>11 DEF BeginDecryption, TypeOK, Places, Block, Powered, Areas, Positioned,
     Looping, InBlock, NoArea, AfterRead, EncryptedArea, HeaderArea, Absent, Decrypted
<1>12. CASE LoopAborted
  BY <1>12 DEF LoopAborted, TypeOK, Places, Block, Powered, Areas, Positioned, Looping,
     InBlock, NoArea, AfterRead, EncryptedArea, HeaderArea, Absent, Decrypted
<1>13. CASE NextUp
  BY <1>13 DEF NextUp, TypeOK, Places, Block, Powered, Areas, Positioned, Looping,
     InBlock, NoArea, AfterRead, EncryptedArea, HeaderArea, Absent, Decrypted
<1>14. CASE NextDown
  <2>1. ASSUME ~header.present PROVE areaEnd < First
    BY <1>14, <2>1, EmptyArea DEF NextDown, Absent, Powered, Areas, Positioned,
       Looping, NoArea
  <2>2. UNCHANGED <<header, mounted, mode, EncryptedArea, configuredEnd>>
    BY <1>14 DEF NextDown, EncryptedArea, NoArea
  <2>3. CASE ~header.present
    <3>1. offset' < areaStart \/ blockSize' = 0
      BY <1>14, <2>1, <2>3 DEF NextDown, TypeOK, Positioned, Looping, InBlock
    <3>. QED
      BY <1>14, <2>2, <3>1 DEF NextDown, Absent
  <2>. QED
    BY <2>2, <2>3 DEF Absent
<1>15. CASE Hold
  BY <1>15 DEF Hold, TypeOK, Places, Block, Powered, Areas, Positioned, Looping,
     InBlock, NoArea, AfterRead, EncryptedArea, HeaderArea, Absent, Decrypted
<1>16. CASE ReadBlock
  BY <1>16 DEF ReadBlock, TypeOK, Places, Block, Powered, Areas, Positioned, Looping,
     InBlock, NoArea, AfterRead, EncryptedArea, HeaderArea, Absent, Decrypted
<1>17. CASE ReadRecovers
  BY <1>17 DEF ReadRecovers, TypeOK, Places, Block, Powered, Areas, Positioned,
     Looping, InBlock, NoArea, AfterRead, EncryptedArea, HeaderArea, Absent, Decrypted
<1>18. CASE ReadFails
  BY <1>18 DEF ReadFails, TypeOK, Places, Block, Powered, Areas, Positioned, Looping,
     InBlock, NoArea, AfterRead, EncryptedArea, HeaderArea, Absent, Decrypted
<1>19. CASE WipeBlock
  BY <1>19 DEF WipeBlock, TypeOK, Places, Block, Powered, Areas, Positioned, Looping,
     InBlock, NoArea, AfterRead, EncryptedArea, HeaderArea, Absent, Decrypted
<1>20. CASE WriteBlock
  <2>1. header.present
    BY <1>20 DEF WriteBlock, Absent, Powered
  <2>. QED
    BY <1>20, <2>1 DEF WriteBlock, Absent
<1>21. CASE WriteFails
  BY <1>21 DEF WriteFails, TypeOK, Places, Block, Powered, Areas, Positioned, Looping,
     InBlock, NoArea, AfterRead, EncryptedArea, HeaderArea, Absent, Decrypted
<1>22. CASE UndoWrite
  BY <1>22 DEF UndoWrite, TypeOK, Places, Block, Powered, Areas, Positioned, Looping,
     InBlock, NoArea, AfterRead, EncryptedArea, HeaderArea, Absent, Decrypted
<1>23. CASE UndoFails
  BY <1>23 DEF UndoFails, TypeOK, Places, Block, Powered, Areas, Positioned, Looping,
     InBlock, NoArea, AfterRead, EncryptedArea, HeaderArea, Absent, Decrypted
<1>24. CASE SaveHeader
  <2>1. UNCHANGED <<mounted, mode, EncryptedArea, configuredEnd>>
    BY <1>24 DEF SaveHeader, EncryptedArea, NoArea
  <2>2. ASSUME ~header'.present
        PROVE  \/ ~header.present
               \/ mode = "decrypt" /\ EncryptedArea = {}
    BY <1>24, <2>2, EmptyArea DEF SaveHeader, SaveDriveVolumeHeader, SavedHeader, TypeOK
  <2>. QED
    BY <1>24, <2>1, <2>2 DEF SaveHeader, SaveDriveVolumeHeader, Absent, Areas, NoArea,
       EncryptedArea, Looping, InBlock
<1>25. CASE SaveFails
  BY <1>25 DEF SaveFails, TypeOK, Places, Block, Powered, Areas, Positioned, Looping,
     InBlock, NoArea, AfterRead, EncryptedArea, HeaderArea, Absent, Decrypted
<1>26. CASE End
  <2>1. UNCHANGED <<header, mode, mounted, areaEnd, configuredEnd, EncryptedArea>>
    BY <1>26 DEF End, EncryptedArea, NoArea
  <2>2. ASSUME EncryptedArea = {} PROVE areaEnd = None \/ areaEnd < areaStart
    BY <1>26, <2>2, EmptyArea DEF Areas, NoArea
  <2>. QED
    BY <1>26, <2>1, <2>2 DEF End, Absent
<1>27. CASE ClearArea
  BY <1>27 DEF ClearArea, TypeOK, Places, Block, Powered, Areas, Positioned, Looping,
     InBlock, NoArea, AfterRead, EncryptedArea, HeaderArea, Absent, Decrypted
<1>28. CASE FinalSave
  <2>1. UNCHANGED <<mounted, mode, EncryptedArea, configuredEnd>>
    BY <1>28 DEF FinalSave, EncryptedArea, NoArea
  <2>2. ASSUME ~header'.present
        PROVE  \/ ~header.present
               \/ mode = "decrypt" /\ EncryptedArea = {}
    BY <1>28, <2>2, EmptyArea DEF FinalSave, SaveDriveVolumeHeader, SavedHeader, TypeOK
  <2>. QED
    BY <1>28, <2>1, <2>2 DEF FinalSave, SaveDriveVolumeHeader, Absent, Areas, NoArea,
       EncryptedArea, Looping, InBlock
<1>29. CASE Finish
  BY <1>29 DEF Finish, TypeOK, Places, Block, Powered, Areas, Positioned, Looping,
     InBlock, NoArea, AfterRead, EncryptedArea, HeaderArea, Absent, Decrypted
<1>30. CASE AcquireMutex
  BY <1>30 DEF AcquireMutex, TypeOK, Places, Block, Powered, Areas, Positioned,
     Looping, InBlock, NoArea, AfterRead, EncryptedArea, HeaderArea, Absent, Decrypted
<1>31. CASE MutexAborted
  BY <1>31 DEF MutexAborted, TypeOK, Places, Block, Powered, Areas, Positioned,
     Looping, InBlock, NoArea, AfterRead, EncryptedArea, HeaderArea, Absent, Decrypted
<1>32. CASE DismountDrive
  BY <1>32 DEF DismountDrive, TypeOK, Places, Block, Powered, Areas, Positioned,
     Looping, InBlock, NoArea, AfterRead, EncryptedArea, HeaderArea, Absent, Decrypted
<1>33. CASE UNCHANGED vars
  BY <1>33 DEF vars, TypeOK, Places, Block, Powered, Areas, Positioned, Looping,
     InBlock, NoArea, AfterRead, EncryptedArea, HeaderArea, Absent, Decrypted
<1>. QED
  BY <1>1, <1>2, <1>3, <1>4, <1>5, <1>6, <1>7, <1>8, <1>9, <1>10, <1>11, <1>12, <1>13,
     <1>14, <1>15, <1>16, <1>17, <1>18, <1>19, <1>20, <1>21, <1>22, <1>23, <1>24,
     <1>25, <1>26, <1>27, <1>28, <1>29, <1>30, <1>31, <1>32, <1>33
  DEF Next, SetupThreadProc, AfterHold, OnItsOwn


\* A header that was saved last tells the area.
LEMMA CurrentStep == IInv /\ [Next]_vars => Current'
<1>. SUFFICES ASSUME IInv, [Next]_vars PROVE Current'
  OBVIOUS
<1>. USE SetupAssumption DEF IInv, First, None, Units, drive, stored, area, request,
   locals, control,
     Goto
<1>1. CASE MountDrive
  BY <1>1 DEF MountDrive, TypeOK, Places, Block, Powered, Areas, Positioned, Looping,
     InBlock, NoArea, AfterRead, EncryptedArea, HeaderArea, Absent, Current, Decrypted
<1>2. CASE Shutdown
  BY <1>2 DEF Shutdown, TypeOK, Places, Block, Powered, Areas, Positioned, Looping,
     InBlock, NoArea, AfterRead, EncryptedArea, HeaderArea, Absent, Current, Decrypted
<1>3. CASE PowerOff
  BY <1>3 DEF PowerOff, Off, TypeOK, Places, Block, Powered, Areas, Positioned,
     Looping, InBlock, NoArea, AfterRead, EncryptedArea, HeaderArea, Absent, Current,
     Decrypted
<1>4. CASE Crash
  BY <1>4 DEF Crash, Off, TypeOK, Places, Block, Powered, Areas, Positioned, Looping,
     InBlock, NoArea, AfterRead, EncryptedArea, HeaderArea, Absent, Current, Decrypted
<1>5. ASSUME NEW b \in Units, SystemWrites(b) PROVE Current'
  BY <1>5 DEF SystemWrites, TypeOK, Places, Block, Powered, Areas, Positioned, Looping,
     InBlock, NoArea, AfterRead, EncryptedArea, HeaderArea, Absent, Current, Decrypted
<1>6. ASSUME NEW m \in {"encrypt", "decrypt"}, NEW w \in BOOLEAN,
             StartBootEncryptionSetup(m, w)
      PROVE  Current'
  BY <1>6 DEF StartBootEncryptionSetup, TypeOK, Places, Block, Powered, Areas,
     Positioned, Looping, InBlock, NoArea, AfterRead, EncryptedArea, HeaderArea,
     Absent, Current, Decrypted
<1>7. CASE RequestAbort
  BY <1>7 DEF RequestAbort, TypeOK, Places, Block, Powered, Areas, Positioned, Looping,
     InBlock, NoArea, AfterRead, EncryptedArea, HeaderArea, Absent, Current, Decrypted
<1>8. CASE AbortReturns
  BY <1>8 DEF AbortReturns, TypeOK, Places, Block, Powered, Areas, Positioned, Looping,
     InBlock, NoArea, AfterRead, EncryptedArea, HeaderArea, Absent, Current, Decrypted
<1>9. CASE HoldAborted
  BY <1>9 DEF HoldAborted, TypeOK, Places, Block, Powered, Areas, Positioned, Looping,
     InBlock, NoArea, AfterRead, EncryptedArea, HeaderArea, Absent, Current, Decrypted
<1>10. CASE BeginEncryption
  BY <1>10 DEF BeginEncryption, TypeOK, Places, Block, Powered, Areas, Positioned,
     Looping, InBlock, NoArea, AfterRead, EncryptedArea, HeaderArea, Absent, Current,
     Decrypted
<1>11. CASE BeginDecryption
  BY <1>11 DEF BeginDecryption, TypeOK, Places, Block, Powered, Areas, Positioned,
     Looping, InBlock, NoArea, AfterRead, EncryptedArea, HeaderArea, Absent, Current,
     Decrypted
<1>12. CASE LoopAborted
  BY <1>12 DEF LoopAborted, TypeOK, Places, Block, Powered, Areas, Positioned, Looping,
     InBlock, NoArea, AfterRead, EncryptedArea, HeaderArea, Absent, Current, Decrypted
<1>13. CASE NextUp
  BY <1>13 DEF NextUp, TypeOK, Places, Block, Powered, Areas, Positioned, Looping,
     InBlock, NoArea, AfterRead, EncryptedArea, HeaderArea, Absent, Current, Decrypted
<1>14. CASE NextDown
  BY <1>14 DEF NextDown, TypeOK, Places, Block, Powered, Areas, Positioned, Looping,
     InBlock, NoArea, AfterRead, EncryptedArea, HeaderArea, Absent, Current, Decrypted
<1>15. CASE Hold
  BY <1>15 DEF Hold, TypeOK, Places, Block, Powered, Areas, Positioned, Looping,
     InBlock, NoArea, AfterRead, EncryptedArea, HeaderArea, Absent, Current, Decrypted
<1>16. CASE ReadBlock
  BY <1>16 DEF ReadBlock, TypeOK, Places, Block, Powered, Areas, Positioned, Looping,
     InBlock, NoArea, AfterRead, EncryptedArea, HeaderArea, Absent, Current, Decrypted
<1>17. CASE ReadRecovers
  BY <1>17 DEF ReadRecovers, TypeOK, Places, Block, Powered, Areas, Positioned,
     Looping, InBlock, NoArea, AfterRead, EncryptedArea, HeaderArea, Absent, Current,
     Decrypted
<1>18. CASE ReadFails
  BY <1>18 DEF ReadFails, TypeOK, Places, Block, Powered, Areas, Positioned, Looping,
     InBlock, NoArea, AfterRead, EncryptedArea, HeaderArea, Absent, Current, Decrypted
<1>19. CASE WipeBlock
  BY <1>19 DEF WipeBlock, TypeOK, Places, Block, Powered, Areas, Positioned, Looping,
     InBlock, NoArea, AfterRead, EncryptedArea, HeaderArea, Absent, Current, Decrypted
<1>20. CASE WriteBlock
  BY <1>20 DEF WriteBlock, TypeOK, Places, Block, Powered, Areas, Positioned, Looping,
     InBlock, NoArea, AfterRead, EncryptedArea, HeaderArea, Absent, Current, Decrypted
<1>21. CASE WriteFails
  BY <1>21 DEF WriteFails, TypeOK, Places, Block, Powered, Areas, Positioned, Looping,
     InBlock, NoArea, AfterRead, EncryptedArea, HeaderArea, Absent, Current, Decrypted
<1>22. CASE UndoWrite
  BY <1>22 DEF UndoWrite, TypeOK, Places, Block, Powered, Areas, Positioned, Looping,
     InBlock, NoArea, AfterRead, EncryptedArea, HeaderArea, Absent, Current, Decrypted
<1>23. CASE UndoFails
  BY <1>23 DEF UndoFails, TypeOK, Places, Block, Powered, Areas, Positioned, Looping,
     InBlock, NoArea, AfterRead, EncryptedArea, HeaderArea, Absent, Current, Decrypted
<1>24. CASE SaveHeader
  <2>1. UNCHANGED <<mode, EncryptedArea, areaEnd, areaStart>>
    BY <1>24 DEF SaveHeader, EncryptedArea, NoArea
  <2>2. CASE NoArea \/ areaEnd < areaStart
    <3>1. mode = "decrypt" /\ EncryptedArea = {}
      BY <1>24, <2>2, EmptyArea DEF SaveHeader, Current, Areas, TypeOK, NoArea
    <3>. QED
      BY <1>24, <2>1, <2>2, <3>1 DEF SaveHeader, SaveDriveVolumeHeader, SavedHeader,
         HeaderArea,
         Current
  <2>3. CASE ~NoArea /\ areaStart <= areaEnd
    <3>1. header.present /\ areaStart = First
      <4>1. EncryptedArea # {}
        BY <2>3, EmptyArea DEF TypeOK
      <4>. QED
        BY <1>24, <2>3, <4>1 DEF SaveHeader, Absent, Powered, TypeOK, NoArea
    <3>2. header' = [header EXCEPT !.length = areaEnd + 1 - areaStart]
      BY <1>24, <2>3 DEF SaveHeader, SaveDriveVolumeHeader, SavedHeader, TypeOK
    <3>3. HeaderArea(header') = EncryptedArea
      BY <2>3, <3>1, <3>2 DEF HeaderArea, EncryptedArea, TypeOK
    <3>. QED
      BY <1>24, <2>1, <3>3 DEF SaveHeader, SaveDriveVolumeHeader, Current
  <2>. QED
    BY <2>2, <2>3 DEF TypeOK, NoArea
<1>25. CASE SaveFails
  BY <1>25 DEF SaveFails, TypeOK, Places, Block, Powered, Areas, Positioned, Looping,
     InBlock, NoArea, AfterRead, EncryptedArea, HeaderArea, Absent, Current, Decrypted
<1>26. CASE End
  BY <1>26 DEF End, TypeOK, Places, Block, Powered, Areas, Positioned, Looping,
     InBlock, NoArea, AfterRead, EncryptedArea, HeaderArea, Absent, Current, Decrypted
<1>27. CASE ClearArea
  BY <1>27 DEF ClearArea, TypeOK, Places, Block, Powered, Areas, Positioned, Looping,
     InBlock, NoArea, AfterRead, EncryptedArea, HeaderArea, Absent, Current, Decrypted
<1>28. CASE FinalSave
  <2>1. UNCHANGED <<mode, EncryptedArea, updateRequired, areaEnd, areaStart>>
    BY <1>28 DEF FinalSave, EncryptedArea, NoArea
  <2>2. CASE NoArea \/ areaEnd < areaStart
    <3>1. mode = "decrypt" /\ EncryptedArea = {}
      BY <1>28, <2>2, EmptyArea DEF FinalSave, Current, Areas, TypeOK, NoArea
    <3>. QED
      BY <1>28, <2>1, <2>2, <3>1 DEF FinalSave, SaveDriveVolumeHeader, SavedHeader,
         HeaderArea,
         Current
  <2>3. CASE ~NoArea /\ areaStart <= areaEnd
    <3>1. header.present /\ areaStart = First
      <4>1. EncryptedArea # {}
        BY <2>3, EmptyArea DEF TypeOK
      <4>. QED
        BY <1>28, <2>3, <4>1 DEF FinalSave, Absent, Powered, TypeOK, NoArea
    <3>2. header' = [header EXCEPT !.length = areaEnd + 1 - areaStart]
      BY <1>28, <2>3 DEF FinalSave, SaveDriveVolumeHeader, SavedHeader, TypeOK
    <3>3. HeaderArea(header') = EncryptedArea
      BY <2>3, <3>1, <3>2 DEF HeaderArea, EncryptedArea, TypeOK
    <3>. QED
      BY <1>28, <2>1, <3>3 DEF FinalSave, SaveDriveVolumeHeader, Current
  <2>. QED
    BY <2>2, <2>3 DEF TypeOK, NoArea
<1>29. CASE Finish
  BY <1>29 DEF Finish, TypeOK, Places, Block, Powered, Areas, Positioned, Looping,
     InBlock, NoArea, AfterRead, EncryptedArea, HeaderArea, Absent, Current, Decrypted
<1>30. CASE AcquireMutex
  BY <1>30 DEF AcquireMutex, TypeOK, Places, Block, Powered, Areas, Positioned,
     Looping, InBlock, NoArea, AfterRead, EncryptedArea, HeaderArea, Absent, Current,
     Decrypted
<1>31. CASE MutexAborted
  BY <1>31 DEF MutexAborted, TypeOK, Places, Block, Powered, Areas, Positioned,
     Looping, InBlock, NoArea, AfterRead, EncryptedArea, HeaderArea, Absent, Current,
     Decrypted
<1>32. CASE DismountDrive
  BY <1>32 DEF DismountDrive, TypeOK, Places, Block, Powered, Areas, Positioned,
     Looping, InBlock, NoArea, AfterRead, EncryptedArea, HeaderArea, Absent, Current,
     Decrypted
<1>33. CASE UNCHANGED vars
  BY <1>33 DEF vars, TypeOK, Places, Block, Powered, Areas, Positioned, Looping,
     InBlock, NoArea, AfterRead, EncryptedArea, HeaderArea, Absent, Current, Decrypted
<1>. QED
  BY <1>1, <1>2, <1>3, <1>4, <1>5, <1>6, <1>7, <1>8, <1>9, <1>10, <1>11, <1>12, <1>13,
     <1>14, <1>15, <1>16, <1>17, <1>18, <1>19, <1>20, <1>21, <1>22, <1>23, <1>24,
     <1>25, <1>26, <1>27, <1>28, <1>29, <1>30, <1>31, <1>32, <1>33
  DEF Next, SetupThreadProc, AfterHold, OnItsOwn


\* What is on the drive, or on its way to it, stays right.
LEMMA RightStep == IInv /\ [Next]_vars => Right'
<1>. SUFFICES ASSUME IInv, [Next]_vars PROVE Right'
  OBVIOUS
<1>. USE SetupAssumption DEF IInv, First, None, Units, drive, stored, area, request,
   locals, control,
     Goto
<1>1. CASE MountDrive
  <2>1. EncryptedArea' = HeaderArea(header) /\ UNCHANGED <<disk, latest, lost, buffer>>
    BY <1>1 DEF MountDrive, EncryptedArea, NoArea, HeaderArea, TypeOK
  <2>. QED
    BY <1>1, <2>1 DEF MountDrive, Right, Buffered, Powered, Old
<1>2. CASE Shutdown
  BY <1>2 DEF Shutdown, Right, Old, Buffered, Powered, EncryptedArea, NoArea, Block,
     HeaderArea
<1>3. CASE PowerOff
  <2>1. power' = FALSE /\ pc' = "none" /\ UNCHANGED <<latest, header>>
    BY <1>3 DEF PowerOff, Off
  <2>2. lost' = Wrong(disk', HeaderArea(header)) /\ latest \in [Units -> {0, 1}]
    BY <1>3 DEF PowerOff, TypeOK
  <2>3. disk' \in [Units -> Content]
    BY TypeStep DEF TypeOK
  <2>4. \A b \in Units \ lost' :
           disk'[b] = IF b \in HeaderArea(header) THEN Cipher(latest[b]) ELSE
              Plain(latest[b])
    BY <2>2, <2>3, WrongRight
  <2>5. HeaderArea(header)' = HeaderArea(header)
    BY <2>1 DEF HeaderArea
  <2>. QED
    BY <2>1, <2>4, <2>5 DEF Right, Buffered
<1>4. CASE Crash
  <2>1. power' = FALSE /\ pc' = "none" /\ UNCHANGED <<latest, header>>
    BY <1>4 DEF Crash, Off
  <2>2. lost' = Wrong(disk', HeaderArea(header)) /\ latest \in [Units -> {0, 1}]
    BY <1>4 DEF Crash, TypeOK
  <2>3. disk' \in [Units -> Content]
    BY TypeStep DEF TypeOK
  <2>4. \A b \in Units \ lost' :
           disk'[b] = IF b \in HeaderArea(header) THEN Cipher(latest[b]) ELSE
              Plain(latest[b])
    BY <2>2, <2>3, WrongRight
  <2>5. HeaderArea(header)' = HeaderArea(header)
    BY <2>1 DEF HeaderArea
  <2>. QED
    BY <2>1, <2>4, <2>5 DEF Right, Buffered
<1>5. ASSUME NEW b \in Units, SystemWrites(b) PROVE Right'
  <2>1. ~Buffered /\ ~Buffered' /\ power /\ power'
    BY <1>5 DEF SystemWrites, Buffered, Powered
  <2>2. EncryptedArea' = EncryptedArea
    BY <1>5 DEF SystemWrites, EncryptedArea, NoArea
  <2>3. ASSUME NEW u \in Units \ lost'
        PROVE  disk'[u] = IF u \in EncryptedArea THEN Cipher(latest'[u]) ELSE
           Plain(latest'[u])
    BY <1>5, <2>1, <2>3 DEF SystemWrites, Right, Old, TypeOK
  <2>. QED
    BY <2>1, <2>2, <2>3 DEF Right, Old
<1>6. ASSUME NEW m \in {"encrypt", "decrypt"}, NEW w \in BOOLEAN,
             StartBootEncryptionSetup(m, w)
      PROVE  Right'
  BY <1>6 DEF StartBootEncryptionSetup, Right, Old, Buffered, Powered, EncryptedArea,
     NoArea, Block, HeaderArea
<1>7. CASE RequestAbort
  BY <1>7 DEF RequestAbort, Right, Old, Buffered, Powered, EncryptedArea, NoArea,
     Block, HeaderArea
<1>8. CASE AbortReturns
  BY <1>8 DEF AbortReturns, Right, Old, Buffered, Powered, EncryptedArea, NoArea,
     Block, HeaderArea
<1>9. CASE HoldAborted
  BY <1>9 DEF HoldAborted, Right, Old, Buffered, Powered, EncryptedArea, NoArea, Block,
     HeaderArea
<1>10. CASE BeginEncryption
  BY <1>10 DEF BeginEncryption, Right, Old, Buffered, Powered, EncryptedArea, NoArea,
     Block, HeaderArea
<1>11. CASE BeginDecryption
  BY <1>11 DEF BeginDecryption, Right, Old, Buffered, Powered, EncryptedArea, NoArea,
     Block, HeaderArea
<1>12. CASE LoopAborted
  BY <1>12 DEF LoopAborted, Right, Old, Buffered, Powered, EncryptedArea, NoArea,
     Block, HeaderArea
<1>13. CASE NextUp
  BY <1>13 DEF NextUp, Right, Old, Buffered, Powered, EncryptedArea, NoArea, Block,
     HeaderArea
<1>14. CASE NextDown
  BY <1>14 DEF NextDown, Right, Old, Buffered, Powered, EncryptedArea, NoArea, Block,
     HeaderArea
<1>15. CASE Hold
  BY <1>15 DEF Hold, Right, Old, Buffered, Powered, EncryptedArea, NoArea, Block,
     HeaderArea
<1>16. CASE ReadBlock
  <2>1. ~Buffered /\ Block' = Block /\ UNCHANGED <<disk, latest, lost, power, header>>
    BY <1>16 DEF ReadBlock, Buffered, Block
  <2>2. EncryptedArea' = EncryptedArea /\ power
    BY <1>16 DEF ReadBlock, EncryptedArea, NoArea, Powered
  <2>3. buffer' = [b \in Block |-> disk[b]] /\ Block \subseteq Units
    BY <1>16 DEF ReadBlock, TypeOK
  <2>4. buffer' \in [Block -> Content]
    BY <2>3 DEF TypeOK
  <2>5. \A b \in Units : Old(b)' = Old(b)
    BY <2>1, <2>3 DEF Old
  <2>. QED
    BY <2>1, <2>2, <2>4, <2>5 DEF Right
<1>17. CASE ReadRecovers
  <2>1. PICK bad \in SUBSET Block :
            /\ disk' = [b \in Units |-> IF b \in bad THEN Junk ELSE disk[b]]
            /\ lost' = lost \cup bad
    BY <1>17 DEF ReadRecovers
  <2>2. ~Buffered /\ Block' = Block /\ UNCHANGED <<latest, power, header>>
    BY <1>17 DEF ReadRecovers, Buffered, Block
  <2>3. EncryptedArea' = EncryptedArea /\ power
    BY <1>17 DEF ReadRecovers, EncryptedArea, NoArea, Powered
  <2>4. buffer' = [b \in Block |-> disk'[b]] /\ Block \subseteq Units
    BY <1>17 DEF ReadRecovers, TypeOK
  <2>5. buffer' \in [Block -> Content]
    <3>1. disk' \in [Units -> Content]
      BY TypeStep DEF TypeOK
    <3>. QED
      BY <2>4, <3>1
  <2>6. \A b \in Units \ lost' : Old(b)' = Old(b)
    BY <2>1, <2>2, <2>4 DEF Old
  <2>. QED
    BY <2>1, <2>2, <2>3, <2>5, <2>6 DEF Right
<1>18. CASE ReadFails
  BY <1>18 DEF ReadFails, Right, Old, Buffered, Powered, EncryptedArea, NoArea, Block,
     HeaderArea
<1>19. CASE WipeBlock
  <2>1. Buffered /\ power /\ Block' = Block /\ UNCHANGED <<latest, lost, buffer, power>>
    BY <1>19 DEF WipeBlock, Buffered, Block, Powered
  <2>2. EncryptedArea' = EncryptedArea
    BY <1>19 DEF WipeBlock, EncryptedArea, NoArea
  <2>3. \A b \in Units : Old(b)' = Old(b)
    BY <1>19, <2>1 DEF WipeBlock, Old, Put, Buffered
  <2>. QED
    BY <2>1, <2>2, <2>3 DEF Right
<1>20. CASE WriteBlock
  <2>1. Buffered /\ ~Buffered' /\ power /\ UNCHANGED <<latest, lost, power>> /\ Block
     \subseteq Units
    BY <1>20 DEF WriteBlock, Buffered, Powered, TypeOK
  <2>2. CASE mode = "encrypt"
    <3>1. EncryptedArea = First .. offset - 1
      BY <1>20, <2>2 DEF WriteBlock, EncryptedArea, NoArea, Positioned, Looping,
         InBlock, TypeOK
    <3>2. EncryptedArea' = First .. offset + blockSize - 1
      BY <1>20, <2>2 DEF WriteBlock, EncryptedArea, NoArea, Positioned, Looping,
         InBlock, TypeOK
    <3>3. ASSUME NEW b \in Units \ lost, b \in Block
          PROVE  disk'[b] = Cipher(latest[b]) /\ b \in EncryptedArea'
      <4>1. buffer[b] = Plain(latest[b])
        BY <2>1, <3>1, <3>3 DEF Right, Old, Block, TypeOK
      <4>2. disk'[b] = Encrypt(buffer[b])
        BY <1>20, <2>2, <3>3 DEF WriteBlock, Put, Transformed
      <4>3. b \in EncryptedArea'
        BY <3>2, <3>3 DEF Block, TypeOK
      <4>. QED
        BY <4>1, <4>2, <4>3 DEF Encrypt, Plain, Cipher
    <3>4. ASSUME NEW b \in Units \ lost, b \notin Block
          PROVE  disk'[b] = disk[b] /\ (b \in EncryptedArea' <=> b \in EncryptedArea)
      BY <1>20, <3>1, <3>2, <3>4 DEF WriteBlock, Put, Block, TypeOK
    <3>. QED
      BY <2>1, <3>3, <3>4 DEF Right, Old
  <2>3. CASE mode = "decrypt"
    <3>1. EncryptedArea = First .. offset + blockSize - 1
      BY <1>20, <2>3 DEF WriteBlock, EncryptedArea, NoArea, Positioned, Looping,
         InBlock, TypeOK
    <3>2. EncryptedArea' = First .. offset - 1
      BY <1>20, <2>3 DEF WriteBlock, EncryptedArea, NoArea, Positioned, Looping,
         InBlock, TypeOK
    <3>3. ASSUME NEW b \in Units \ lost, b \in Block
          PROVE  disk'[b] = Plain(latest[b]) /\ b \notin EncryptedArea'
      <4>1. buffer[b] = Cipher(latest[b])
        BY <2>1, <3>1, <3>3 DEF Right, Old, Block, TypeOK
      <4>2. disk'[b] = Decrypt(buffer[b])
        BY <1>20, <2>3, <3>3 DEF WriteBlock, Put, Transformed
      <4>3. b \notin EncryptedArea'
        BY <3>2, <3>3 DEF Block, TypeOK
      <4>. QED
        BY <4>1, <4>2, <4>3 DEF Decrypt, Plain, Cipher
    <3>4. ASSUME NEW b \in Units \ lost, b \notin Block
          PROVE  disk'[b] = disk[b] /\ (b \in EncryptedArea' <=> b \in EncryptedArea)
      BY <1>20, <3>1, <3>2, <3>4 DEF WriteBlock, Put, Block, TypeOK
    <3>. QED
      BY <2>1, <3>3, <3>4 DEF Right, Old
  <2>. QED
    BY <2>2, <2>3 DEF TypeOK
<1>21. CASE WriteFails
  <2>1. Buffered /\ power /\ Block' = Block /\ UNCHANGED <<latest, lost, buffer, power>>
    BY <1>21 DEF WriteFails, Buffered, Block, Powered
  <2>2. EncryptedArea' = EncryptedArea
    BY <1>21 DEF WriteFails, EncryptedArea, NoArea
  <2>3. \A b \in Units : Old(b)' = Old(b)
    BY <1>21, <2>1 DEF WriteFails, Old, Put, Buffered
  <2>. QED
    BY <2>1, <2>2, <2>3 DEF Right
<1>22. CASE UndoWrite
  <2>1. Buffered /\ power /\ Block' = Block /\ UNCHANGED <<latest, lost, buffer, power>>
    BY <1>22 DEF UndoWrite, Buffered, Block, Powered
  <2>2. EncryptedArea' = EncryptedArea
    BY <1>22 DEF UndoWrite, EncryptedArea, NoArea
  <2>3. \A b \in Units : Old(b)' = Old(b)
    BY <1>22, <2>1 DEF UndoWrite, Old, Put, Buffered
  <2>. QED
    BY <2>1, <2>2, <2>3 DEF Right
<1>23. CASE UndoFails
  <2>1. Buffered /\ ~Buffered' /\ UNCHANGED <<latest, power, header>> /\ power
    BY <1>23 DEF UndoFails, Buffered, Powered
  <2>2. EncryptedArea' = EncryptedArea
    BY <1>23 DEF UndoFails, EncryptedArea, NoArea
  <2>3. \A b \in Units \ lost' : disk'[b] = Old(b) /\ b \notin lost
    BY <1>23, <2>1 DEF UndoFails, Old, Put
  <2>. QED
    BY <2>1, <2>2, <2>3 DEF Right, Old
<1>24. CASE SaveHeader
  BY <1>24 DEF SaveHeader, SaveDriveVolumeHeader, Right, Old, Buffered, Powered,
     EncryptedArea, NoArea, Block, HeaderArea
<1>25. CASE SaveFails
  BY <1>25 DEF SaveFails, Right, Old, Buffered, Powered, EncryptedArea, NoArea, Block,
     HeaderArea
<1>26. CASE End
  <2>1. EncryptedArea' = EncryptedArea
    BY <1>26 DEF End, EncryptedArea, NoArea
  <2>. QED
    BY <1>26, <2>1 DEF End, Right, Old, Buffered, Powered
<1>27. CASE ClearArea
  <2>1. EncryptedArea' = EncryptedArea
    BY <1>27 DEF ClearArea, EncryptedArea, NoArea, Areas
  <2>. QED
    BY <1>27, <2>1 DEF ClearArea, Right, Old, Buffered, Powered
<1>28. CASE FinalSave
  BY <1>28 DEF FinalSave, SaveDriveVolumeHeader, Right, Old, Buffered, Powered,
     EncryptedArea, NoArea, Block, HeaderArea
<1>29. CASE Finish
  BY <1>29 DEF Finish, Right, Old, Buffered, Powered, EncryptedArea, NoArea, Block,
     HeaderArea
<1>30. CASE AcquireMutex
  BY <1>30 DEF AcquireMutex, Right, Old, Buffered, Powered, EncryptedArea, NoArea,
     Block, HeaderArea
<1>31. CASE MutexAborted
  BY <1>31 DEF MutexAborted, Right, Old, Buffered, Powered, EncryptedArea, NoArea,
     Block, HeaderArea
<1>32. CASE DismountDrive
  BY <1>32 DEF DismountDrive, Right, Old, Buffered, Powered, EncryptedArea, NoArea,
     Block, HeaderArea
<1>33. CASE UNCHANGED vars
  BY <1>33 DEF vars, Right, Old, Buffered, Powered, EncryptedArea, NoArea, Block,
     HeaderArea
<1>. QED
  BY <1>1, <1>2, <1>3, <1>4, <1>5, <1>6, <1>7, <1>8, <1>9, <1>10, <1>11, <1>12, <1>13,
     <1>14, <1>15, <1>16, <1>17, <1>18, <1>19, <1>20, <1>21, <1>22, <1>23, <1>24,
     <1>25, <1>26, <1>27, <1>28, <1>29, <1>30, <1>31, <1>32, <1>33
  DEF Next, SetupThreadProc, AfterHold, OnItsOwn


\* The number of units that is counted bounds how far the header is behind.
LEMMA CountedStep == IInv /\ [Next]_vars => Counted'
<1>. SUFFICES ASSUME IInv, [Next]_vars PROVE Counted'
  OBVIOUS
<1>. USE SetupAssumption, Blocks DEF IInv, First, None, Units, drive, stored, area,
   request, locals,
     control, Goto
<1>1. CASE MountDrive
  BY <1>1 DEF MountDrive, Counted, Running, Looping, InBlock, Powered
<1>2. CASE Shutdown
  BY <1>2 DEF Shutdown, Counted, Running, AtEnd, Length, HeaderLength, TypeOK,
     Positioned, Looping, InBlock, NoArea
<1>3. CASE PowerOff
  BY <1>3 DEF PowerOff, Off, Counted, Running, AtEnd, Length, HeaderLength, TypeOK,
     Positioned, Looping, InBlock, NoArea
<1>4. CASE Crash
  BY <1>4 DEF Crash, Off, Counted, Running, AtEnd, Length, HeaderLength, TypeOK,
     Positioned, Looping, InBlock, NoArea
<1>5. ASSUME NEW b \in Units, SystemWrites(b) PROVE Counted'
  BY <1>5 DEF SystemWrites, Counted, Running, AtEnd, Length, HeaderLength, TypeOK,
     Positioned, Looping, InBlock, NoArea
<1>6. ASSUME NEW m \in {"encrypt", "decrypt"}, NEW w \in BOOLEAN,
             StartBootEncryptionSetup(m, w)
      PROVE  Counted'
  <2>1. /\ pc' = "start" /\ blockSize' = BlockSize /\ sinceUpdate' = 0
        /\ UNCHANGED <<saved, header, areaStart, areaEnd>>
    BY <1>6 DEF StartBootEncryptionSetup
  <2>2. UNCHANGED <<Length, HeaderLength>>
    BY <2>1 DEF Length, HeaderLength, NoArea
  <2>3. ASSUME saved PROVE HeaderLength = Length
    BY <1>6, <2>3, Lengths DEF StartBootEncryptionSetup, Current
  <2>4. 0 <= Limit /\ Length \in Nat
    BY Lengths
  <2>. QED
    BY <2>1, <2>2, <2>3, <2>4 DEF Counted, Looping, InBlock
<1>7. CASE RequestAbort
  BY <1>7 DEF RequestAbort, Counted, Running, AtEnd, Length, HeaderLength, TypeOK,
     Positioned, Looping, InBlock, NoArea
<1>8. CASE AbortReturns
  BY <1>8 DEF AbortReturns, Counted, Running, AtEnd, Length, HeaderLength, TypeOK,
     Positioned, Looping, InBlock, NoArea
<1>9. CASE HoldAborted
  BY <1>9 DEF HoldAborted, Counted, Running, AtEnd, Length, HeaderLength, TypeOK,
     Positioned, Looping, InBlock, NoArea
<1>10. CASE BeginEncryption
  BY <1>10 DEF BeginEncryption, Counted, Running, AtEnd, Length, HeaderLength, TypeOK,
     Positioned, Looping, InBlock, NoArea
<1>11. CASE BeginDecryption
  BY <1>11 DEF BeginDecryption, Counted, Running, AtEnd, Length, HeaderLength, TypeOK,
     Positioned, Looping, InBlock, NoArea
<1>12. CASE LoopAborted
  BY <1>12 DEF LoopAborted, Counted, Running, AtEnd, Length, HeaderLength, TypeOK,
     Positioned, Looping, InBlock, NoArea
<1>13. CASE NextUp
  BY <1>13 DEF NextUp, Counted, Running, AtEnd, Length, HeaderLength, TypeOK,
     Positioned, Looping, InBlock, NoArea
<1>14. CASE NextDown
  BY <1>14 DEF NextDown, Counted, Running, AtEnd, Length, HeaderLength, TypeOK,
     Positioned, Looping, InBlock, NoArea
<1>15. CASE Hold
  BY <1>15 DEF Hold, Counted, Running, AtEnd, Length, HeaderLength, TypeOK, Positioned,
     Looping, InBlock, NoArea
<1>16. CASE ReadBlock
  BY <1>16 DEF ReadBlock, AfterRead, Counted, Running, AtEnd, Length, HeaderLength, TypeOK,
     Positioned, Looping, InBlock, NoArea
<1>17. CASE ReadRecovers
  BY <1>17 DEF ReadRecovers, AfterRead, Counted, Running, AtEnd, Length, HeaderLength, TypeOK,
     Positioned, Looping, InBlock, NoArea
<1>18. CASE ReadFails
  BY <1>18 DEF ReadFails, Counted, Running, AtEnd, Length, HeaderLength, TypeOK,
     Positioned, Looping, InBlock, NoArea
<1>19. CASE WipeBlock
  BY <1>19 DEF WipeBlock, Counted, Running, AtEnd, Length, HeaderLength, TypeOK,
     Positioned, Looping, InBlock, NoArea
<1>20. CASE WriteBlock
  <2>1. /\ pc = "write" /\ InBlock /\ Looping /\ Running
        /\ ~InBlock' /\ Looping' /\ pc' \in {"save", "loop"}
        /\ sinceUpdate' = sinceUpdate + blockSize /\ UNCHANGED <<mode, blockSize,
           saved>>
        /\ pc' # "save" => sinceUpdate' < Threshold
    BY <1>20 DEF WriteBlock, InBlock, Looping, Running, TypeOK
  <2>2. UNCHANGED HeaderLength /\ blockSize \in 1 .. BlockSize /\ sinceUpdate \in Nat
    BY <1>20, <2>1 DEF WriteBlock, HeaderLength, Positioned, TypeOK
  <2>3. Length' = IF mode = "encrypt" THEN Length + blockSize ELSE Length - blockSize
    BY <1>20, <2>1 DEF WriteBlock, Length, NoArea, TypeOK, Positioned
  <2>4. AtEnd => AtEnd'
    BY <1>20, <2>1 DEF WriteBlock, AtEnd, TypeOK
  <2>5. ASSUME saved
        PROVE  /\ sinceUpdate' <= Limit
               /\ pc' # "save" => AtEnd' \/ Multiple(sinceUpdate')
    <3>1. sinceUpdate < Threshold /\ Multiple(sinceUpdate) /\ (blockSize = BlockSize \/
       AtEnd)
      BY <1>20, <2>1, <2>5 DEF Counted
    <3>2. sinceUpdate + BlockSize <= Limit /\ Multiple(sinceUpdate + BlockSize)
      BY <2>2, <3>1
    <3>. QED
      BY <2>1, <2>2, <2>4, <3>1, <3>2
  <2>6. Length \in Nat /\ HeaderLength \in Nat
    BY Lengths
  <2>7. blockSize' = BlockSize \/ AtEnd'
    BY <2>1, <2>4 DEF Counted
  <2>8. ASSUME saved
        PROVE  /\ mode = "encrypt" => /\ HeaderLength <= Length'
                                      /\ Length' - HeaderLength <= sinceUpdate'
               /\ mode = "decrypt" => /\ Length' <= HeaderLength
                                      /\ HeaderLength - Length' <= sinceUpdate'
    BY <2>1, <2>2, <2>3, <2>6, <2>8 DEF Counted
  <2>. QED
    BY <2>1, <2>2, <2>5, <2>7, <2>8 DEF Counted, Running
<1>21. CASE WriteFails
  BY <1>21 DEF WriteFails, Counted, Running, AtEnd, Length, HeaderLength, TypeOK,
     Positioned, Looping, InBlock, NoArea
<1>22. CASE UndoWrite
  BY <1>22 DEF UndoWrite, Counted, Running, AtEnd, Length, HeaderLength, TypeOK,
     Positioned, Looping, InBlock, NoArea
<1>23. CASE UndoFails
  BY <1>23 DEF UndoFails, Counted, Running, AtEnd, Length, HeaderLength, TypeOK,
     Positioned, Looping, InBlock, NoArea
<1>24. CASE SaveHeader
  <2>1. /\ pc' = "loop" /\ sinceUpdate' = 0 /\ ~updateRequired' /\ saved' /\ power'
        /\ UNCHANGED <<mode, offset, blockSize>>
    BY <1>24 DEF SaveHeader, SaveDriveVolumeHeader, Powered
  <2>2. HeaderLength' = Length' /\ Length' \in Nat /\ HeaderLength' \in Nat
    <3>1. TypeOK' /\ Current'
      BY TypeStep, CurrentStep
    <3>2. /\ TypeOK' => (HeaderArea(header) = EncryptedArea => HeaderLength = Length)'
          /\ TypeOK' => (Length \in 0 .. Last)'
      BY Lengths, PTL
    <3>. QED
      BY <2>1, <3>1, <3>2 DEF Current
  <2>3. Looping' /\ ~InBlock' /\ 0 <= Limit /\ (blockSize' = BlockSize \/ AtEnd')
    BY <1>24, <2>1 DEF SaveHeader, Counted, AtEnd, Looping, InBlock
  <2>4. sinceUpdate' < Threshold /\ Multiple(sinceUpdate') /\ sinceUpdate' <= Limit
    BY <2>1, <2>3
  <2>5. Length' - HeaderLength' <= sinceUpdate' /\ HeaderLength' - Length' <=
     sinceUpdate'
        /\ HeaderLength' <= Length' /\ Length' <= HeaderLength'
    <3>1. \A m, n \in Nat : m = n => m - n <= 0 /\ n - m <= 0 /\ m <= n /\ n <= m
      OBVIOUS
    <3>. QED
      BY <2>1, <2>2, <3>1
  <2>. QED
    BY <2>1, <2>3, <2>4, <2>5 DEF Counted
<1>25. CASE SaveFails
  BY <1>25 DEF SaveFails, Counted, Running, AtEnd, Length, HeaderLength, TypeOK,
     Positioned, Looping, InBlock, NoArea
<1>26. CASE End
  BY <1>26 DEF End, Counted, Running, AtEnd, Length, HeaderLength, TypeOK, Positioned,
     Looping, InBlock, NoArea
<1>27. CASE ClearArea
  <2>1. Length = 0
    BY <1>27, EmptyArea DEF ClearArea, Areas, Length, NoArea, TypeOK
  <2>2. Length' = 0 /\ UNCHANGED <<HeaderLength, mode, sinceUpdate, saved>> /\ pc' =
     "finalSave"
    BY <1>27 DEF ClearArea, Length, NoArea, HeaderLength
  <2>. QED
    BY <1>27, <2>1, <2>2 DEF ClearArea, Counted, Running, Looping, InBlock
<1>28. CASE FinalSave
  BY <1>28 DEF FinalSave, SaveDriveVolumeHeader, Counted, Running, AtEnd, Length,
     HeaderLength, TypeOK, Positioned, Looping, InBlock, NoArea
<1>29. CASE Finish
  BY <1>29 DEF Finish, Counted, Running, AtEnd, Length, HeaderLength, TypeOK,
     Positioned, Looping, InBlock, NoArea
<1>30. CASE AcquireMutex
  BY <1>30 DEF AcquireMutex, Counted, Running, AtEnd, Length, HeaderLength, TypeOK,
     Positioned, Looping, InBlock, NoArea
<1>31. CASE MutexAborted
  BY <1>31 DEF MutexAborted, Counted, Running, AtEnd, Length, HeaderLength, TypeOK,
     Positioned, Looping, InBlock, NoArea
<1>32. CASE DismountDrive
  BY <1>32 DEF DismountDrive, Counted, Running, AtEnd, Length, HeaderLength, TypeOK,
     Positioned, Looping, InBlock, NoArea
<1>33. CASE UNCHANGED vars
  BY <1>33 DEF vars, Counted, Running, AtEnd, Length, HeaderLength, TypeOK, Positioned,
     Looping, InBlock, NoArea
<1>. QED
  BY <1>1, <1>2, <1>3, <1>4, <1>5, <1>6, <1>7, <1>8, <1>9, <1>10, <1>11, <1>12, <1>13,
     <1>14, <1>15, <1>16, <1>17, <1>18, <1>19, <1>20, <1>21, <1>22, <1>23, <1>24,
     <1>25, <1>26, <1>27, <1>28, <1>29, <1>30, <1>31, <1>32, <1>33
  DEF Next, SetupThreadProc, AfterHold, OnItsOwn


-----------------------------------------------------------------------------
(* The invariant, and what follows from it *)

\* It holds at first: the drive is plain and its area empty, or all is encrypted.
LEMMA IInit == Init => IInv
<1>. SUFFICES ASSUME Init PROVE IInv
  OBVIOUS
<1>. USE SetupAssumption DEF First, None, Units
<1>1. pc = "none" /\ power /\ ~Buffered /\ ~Looping
  BY DEF Init, Buffered, Looping, InBlock
<1>2. header.present /\ header.length \in {0, Last}
  BY DEF Init
<1>3. EncryptedArea = HeaderArea(header) /\ EncryptedArea = IF header.length = 0 THEN {} ELSE Units
  BY <1>2 DEF Init, EncryptedArea, NoArea, HeaderArea
<1>4. TypeOK
  <2>1. Plain(0) \in Content /\ Cipher(0) \in Content
    BY DEF Plain, Cipher, Content
  <2>2. disk \in [Units -> Content] /\ latest \in [Units -> {0, 1}] /\ lost \subseteq Units
    BY <2>1 DEF Init
  <2>3. header \in [present : BOOLEAN, length : 0 .. Last]
    <3>1. PICK n \in {0, Last} : header = [present |-> TRUE, length |-> n]
      BY DEF Init
    <3>2. n \in 0 .. Last
      OBVIOUS
    <3>. QED
      BY <3>1, <3>2, Zenon
  <2>4. /\ power \in BOOLEAN /\ saved \in BOOLEAN /\ mounted \in BOOLEAN /\ held \in BOOLEAN
        /\ wipe \in BOOLEAN /\ updateRequired \in BOOLEAN /\ abortRequested \in BOOLEAN
        /\ shuttingDown \in BOOLEAN
    BY Zenon DEF Init
  <2>5. /\ areaStart \in {None, First} /\ areaEnd \in {None} \cup (0 .. Last)
        /\ configuredEnd \in {None, Last} /\ pc \in Places /\ mode \in {"encrypt", "decrypt"}
        /\ offset \in First .. Last + 1 /\ blockSize \in 0 .. BlockSize
        /\ sinceUpdate \in Nat /\ mutex \in {"free", "abort", "thread"}
    BY DEF Init, Places
  <2>. QED
    BY <1>1, <2>2, <2>3, <2>4, <2>5 DEF TypeOK
<1>5. Powered /\ Areas /\ Positioned
  BY <1>1 DEF Init, Powered, Areas, Positioned, Looping, InBlock
<1>6. Right
  <2>1. ASSUME NEW b \in Units
        PROVE  Old(b) = IF b \in EncryptedArea THEN Cipher(latest[b]) ELSE Plain(latest[b])
    BY <1>1, <1>2, <1>3 DEF Init, Old
  <2>. QED
    BY <1>1, <2>1 DEF Right
<1>7. Absent /\ Current /\ Counted
  BY <1>1, <1>2, <1>3 DEF Init, Absent, Current, Counted, Running
<1>. QED
  BY <1>4, <1>5, <1>6, <1>7 DEF IInv

\* Every step keeps it.
LEMMA IStep == IInv /\ [Next]_vars => IInv'
  BY TypeStep, PoweredStep, AreasStep, PositionedStep, RightStep, AbsentStep, CurrentStep,
     CountedStep
  DEF IInv

LEMMA Invariant == Spec => []IInv
  BY IInit, IStep, PTL DEF Spec

\* The types are right, and a block that is at hand is within the area.
THEOREM TypeCorrect == Spec => []TypeOK
<1>1. IInv => TypeOK
  BY DEF IInv
<1>. QED
  BY Invariant, <1>1, PTL

\* What the system reads is what it wrote last, before, between and after the
\* blocks of the setup thread, its failures and the restarts.
THEOREM ReadsRight == Spec => []Readable
<1>1. IInv => Readable
  <2>. SUFFICES ASSUME IInv, power, ~held, NEW b \in Units \ lost
                PROVE  b \notin Wrong(disk, EncryptedArea)
    BY DEF Readable, Wrong
  <2>1. Old(b) = disk[b]
    BY DEF IInv, Powered, Old, Buffered
  <2>. QED
    BY <2>1, WrongRight DEF IInv, TypeOK, Right
<1>. QED
  BY Invariant, <1>1, PTL

\* While the header is missing, all that is not lost is plain.
THEOREM KeysStay == Spec => []KeysKept
<1>1. IInv => KeysKept
  <2>. SUFFICES ASSUME IInv, ~header.present, NEW b \in Units \ lost
                PROVE  disk[b].form = "plain"
    BY DEF KeysKept
  <2>1. CASE ~power
    <3>1. b \notin HeaderArea(header)
      BY DEF HeaderArea
    <3>2. disk[b] = Plain(latest[b])
      BY <2>1, <3>1 DEF IInv, Right
    <3>. QED
      BY <3>2 DEF Plain
  <2>2. CASE power
    <3>1. EncryptedArea = {} /\ ~Buffered
      BY <2>2 DEF IInv, Absent, Areas, Powered, Buffered, EncryptedArea, NoArea
    <3>2. disk[b] = Plain(latest[b])
      BY <2>2, <3>1 DEF IInv, Right, Old
    <3>. QED
      BY <3>2 DEF Plain
  <2>. QED
    BY <2>1, <2>2
<1>. QED
  BY Invariant, <1>1, PTL

\* A shutdown whose header was saved leaves a header that tells the area, so
\* that nothing is read wrong that was not lost before.
THEOREM ShutdownIsSafe == Spec => ShutdownLosesNothing
<1>1. IInv /\ [Next]_vars => [PowerOff /\ saved => lost' \subseteq lost]_vars
  <2>. SUFFICES ASSUME IInv, PowerOff, saved, NEW b \in Units \ lost
                PROVE  b \notin lost'
    <3>1. ASSUME IInv, PowerOff PROVE lost' \subseteq Units
      BY <3>1 DEF PowerOff, Wrong
    <3>. QED
      BY <3>1
  <2>1. power /\ ~Buffered
    BY DEF IInv, Powered, PowerOff, Buffered
  <2>2. HeaderArea(header) = EncryptedArea
    BY <2>1 DEF IInv, Current, PowerOff
  <2>3. disk[b] = IF b \in HeaderArea(header) THEN Cipher(latest[b]) ELSE Plain(latest[b])
    BY <2>1, <2>2 DEF IInv, Right, Old
  <2>. QED
    BY <2>3, WrongRight DEF IInv, TypeOK, PowerOff
<1>. QED
  BY Invariant, <1>1, PTL DEF Spec, ShutdownLosesNothing

\* What a crash destroys lies between the end of the area and the end that the
\* header tells, or in the block at hand: no more than the blocks counted.
THEOREM CrashIsSmall == Spec => CrashLosesLittle
<1>1. ASSUME IInv, Crash, saved
      PROVE  Cardinality(lost' \ lost) <= Limit
  <2>. USE SetupAssumption DEF IInv, First
  <2>1. /\ Length \in 0 .. Last /\ HeaderLength \in 0 .. Last /\ Limit \in Nat
        /\ EncryptedArea = First .. Length /\ HeaderArea(header) = First .. HeaderLength
    BY <1>1, Lengths, Blocks
  <2>2. PICK written \in SUBSET DOMAIN Writing : disk' = Put(Writing, written)
    BY <1>1 DEF Crash
  <2>3. lost' \subseteq Units
    BY <1>1 DEF Crash, Wrong
  <2>4. ASSUME NEW b \in lost' \ lost
        PROVE  \/ Buffered /\ b \in Block
               \/ b \in HeaderArea(header) /\ b \notin EncryptedArea
               \/ b \in EncryptedArea /\ b \notin HeaderArea(header)
    <3>. SUFFICES ASSUME ~(Buffered /\ b \in Block)
                  PROVE  ~(b \in EncryptedArea <=> b \in HeaderArea(header))
      OBVIOUS
    <3>1. b \in Units /\ b \notin written
      BY <1>1, <2>2, <2>3, <2>4, WritingTypes DEF Right
    <3>2. disk'[b] = disk[b] /\ Old(b) = disk[b]
      BY <2>2, <3>1 DEF Put, Old
    <3>3. disk[b] = IF b \in EncryptedArea THEN Cipher(latest[b]) ELSE Plain(latest[b])
      BY <1>1, <2>4, <3>1, <3>2 DEF Crash, Right
    <3>4. View(disk', b, HeaderArea(header)) # Plain(latest[b])
      BY <1>1, <2>4 DEF Crash, Wrong
    <3>. QED
      BY <3>1, <3>2, <3>3, <3>4 DEF View, Decrypt, Cipher, Plain
  <2>5. CASE ~Running
    <3>1. HeaderArea(header) = EncryptedArea /\ ~Buffered
      BY <1>1, <2>5 DEF Crash, Running, Looping, InBlock, Buffered, Current, TypeOK, Places
    <3>2. lost' \ lost = {}
      BY <2>4, <3>1
    <3>. QED
      BY <2>1, <3>2, FS_EmptySet
  <2>6. ASSUME NEW m \in Int, NEW n \in Int, n - m + 1 <= Limit,
               lost' \ lost \subseteq m .. n
        PROVE  Cardinality(lost' \ lost) <= Limit
    <3>0. IsFiniteSet(m .. n) /\ Cardinality(m .. n) = IF m > n THEN 0 ELSE n - m + 1
      BY <2>6, FS_Interval, Zenon
    <3>1. IsFiniteSet(m .. n) /\ Cardinality(m .. n) <= Limit
      BY <2>1, <2>6, <3>0
    <3>. QED
      BY <2>1, <2>6, <3>1, FS_Subset, FS_CardinalityType
  <2>7. ASSUME Running, Buffered
        PROVE  /\ sinceUpdate + blockSize <= Limit /\ blockSize \in Nat /\ offset \in Int
               /\ mode = "encrypt" => offset = Length + 1
               /\ mode = "decrypt" => offset + blockSize - 1 = Length
    <3>1. InBlock /\ Looping /\ pc # "save"
      BY <2>7 DEF Buffered, InBlock, Looping
    <3>2. sinceUpdate < Threshold /\ Multiple(sinceUpdate)
      BY <1>1, <2>7, <3>1 DEF Counted
    <3>3. sinceUpdate \in Nat /\ blockSize \in 0 .. BlockSize /\ offset \in Int
      BY <1>1 DEF TypeOK
    <3>4. sinceUpdate + blockSize <= Limit
      BY <2>1, <3>2, <3>3, Blocks
    <3>5. /\ mode = "encrypt" => offset = Length + 1
          /\ mode = "decrypt" => offset + blockSize - 1 = Length
      BY <1>1, <3>1, <3>3 DEF TypeOK, Positioned, Length, NoArea, None
    <3>. QED
      BY <3>3, <3>4, <3>5
  <2>8. ASSUME Running
        PROVE  /\ mode = "encrypt" => HeaderLength <= Length /\ Length - HeaderLength <= sinceUpdate
               /\ mode = "decrypt" => Length <= HeaderLength /\ HeaderLength - Length <= sinceUpdate
               /\ sinceUpdate <= Limit /\ sinceUpdate \in Nat
    BY <1>1, <2>8 DEF Counted, TypeOK
  <2>9. CASE Running /\ mode = "encrypt"
    <3>. DEFINE hi == IF Buffered THEN offset + blockSize - 1 ELSE Length
    <3>1. hi \in Int /\ hi - (HeaderLength + 1) + 1 <= Limit
      BY <2>1, <2>7, <2>8, <2>9
    <3>2. lost' \ lost \subseteq HeaderLength + 1 .. hi
      BY <2>1, <2>4, <2>7, <2>8, <2>9 DEF Block
    <3>3. HeaderLength + 1 \in Int
      BY <2>1
    <3>. HIDE DEF hi
    <3>. QED
      BY <2>6, <3>1, <3>2, <3>3
  <2>10. CASE Running /\ mode = "decrypt"
    <3>. DEFINE lo == IF Buffered THEN offset ELSE Length + 1
    <3>1. lo \in Int /\ HeaderLength - lo + 1 <= Limit
      BY <2>1, <2>7, <2>8, <2>10
    <3>2. lost' \ lost \subseteq lo .. HeaderLength
      BY <2>1, <2>4, <2>7, <2>8, <2>10 DEF Block
    <3>3. HeaderLength \in Int
      BY <2>1
    <3>. HIDE DEF lo
    <3>. QED
      BY <2>6, <3>1, <3>2, <3>3
  <2>. QED
    BY <1>1, <2>5, <2>9, <2>10 DEF TypeOK
<1>2. IInv /\ [Next]_vars =>
          [Crash /\ saved => Cardinality(lost' \ lost) <= BlocksToThreshold * BlockSize]_vars
  BY <1>1 DEF Limit
<1>. QED
  BY Invariant, <1>2, PTL DEF Spec, CrashLosesLittle
=============================================================================
