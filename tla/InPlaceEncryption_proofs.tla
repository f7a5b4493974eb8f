------------------------ MODULE InPlaceEncryption_proofs ------------------------
(***************************************************************************)
(* The file system of a partition that is encrypted or decrypted in place  *)
(* can be recovered, is mounted by its headers only as a whole but for one *)
(* case, is clean when a run has finished, and loses little to a crash:    *)
(* for all sizes of the volume, of a chunk and of the distance between two *)
(* updates of the backup header.                                           *)
(*                                                                         *)
(* The argument: a cell holds the unit of its own number or, encrypted,    *)
(* the unit before (Near).  Each unit is where the length says, or in the  *)
(* buffer (Right).  The backup header is behind the length by no more than *)
(* the units that were counted (Behind), and a primary header is there     *)
(* only when all is encrypted (Whole).  A decryption that has not updated  *)
(* the backup header yet has moved no more than these units (Mountable).   *)
(* The start of the file system is concealed while it is moved (Confined,  *)
(* Veiled, Prepared, and Undone where that fails).                         *)
(***************************************************************************)
EXTENDS InPlaceEncryption, FiniteSetTheorems, TLAPS

\* Where the thread is while it moves the data, and where it can be at all.
Core   == {"loop", "wipe", "write", "undo", "save", "next", "update", "finish", "clear",
           "clearHeader", "settle", "close"}
Places == Core \cup {"none", "begin", "conceal", "unconceal", "open"}

\* What a cell or the buffer can hold.
Content == {c \in [unit : -2 .. Size - 1, encrypted : BOOLEAN, concealed : BOOLEAN] :
               c.unit < 0 => ~c.encrypted /\ ~c.concealed}

\* The buffer has a chunk that is not yet written.
Buffered == pc \in {"wipe", "write", "undo"}

\* A cell holds nothing of the file system, or the unit it is for.
Fits(c, p) == c.unit >= 0 => c.unit = IF c.encrypted THEN p - 1 ELSE p

\* The types of the variables.
Types ==
    /\ cell \in [Cells -> Content] /\ bad \subseteq Cells /\ lost \subseteq Units
    /\ backup \in [present : BOOLEAN, length : 0 .. Size, inPlace : BOOLEAN]
    /\ length \in 0 .. Size /\ sinceUpdate \in Nat
    /\ pc \in Places /\ mode \in {"encrypt", "decrypt"}
    /\ Buffered => buffer \in [Chunk -> Content]

\* Where the thread is depends on the direction, and on what it has done.
Stages ==
    /\ pc \in {"begin", "conceal", "wipe", "undo"} => mode = "encrypt"
    /\ pc \in {"clear", "clearHeader"} => mode = "decrypt"
    /\ Buffered => Remaining > 0
    /\ pause => pc \in {"update", "close"}
    /\ pc = "update" /\ ~pause => Remaining = 0
    /\ pc \in {"finish", "clear", "clearHeader", "settle"} => Remaining = 0
    /\ pc \in {"clear", "clearHeader"} => ~changed
    /\ status = "finished" => pc = "none"

\* The data never stray.
Near ==
    /\ \A p \in Cells : Fits(cell[p], p)
    /\ Buffered => \A u \in Chunk :
           /\ buffer[u].unit \in {-1, u}
           /\ buffer[u].unit = u => buffer[u].encrypted = (mode = "encrypt")

\* Unit u is where a header with this length looks for it.
Place(u, len) == IF u >= Size - len THEN u + 1 ELSE u
At(c, u, len) == c[Place(u, len)].unit = u /\ c[Place(u, len)].encrypted = (Place(u, len) = u + 1)

\* The length that tells where the units are.
Expected == IF pc \in Core THEN length ELSE backup.length

\* Each unit that is not lost is where the length says, or in the buffer.
Right ==
    \A u \in Units \ lost :
        /\ At(cell, u, Expected) \/ (Buffered /\ Place(u, Expected) \in Target)
        /\ Buffered /\ u \in Chunk => buffer[u].unit = u

\* The backup header.
Backed ==
    /\ ~backup.present => backup.length = 0
    /\ backup.present /\ ~backup.inPlace => backup.length = Size
    /\ pc \in Core \ {"settle"} \/ pc = "conceal" => backup.present
    /\ pc \in {"conceal", "unconceal"} => backup.length = 0
    /\ pc \in Core /\ ~changed => backup.length = length
    /\ pc \in {"finish", "clear", "clearHeader", "settle"} => backup.length = length
    /\ pc = "begin" => cell[0].unit = 0 /\ Wrong(cell, 0) \subseteq lost
    /\ pc = "conceal" => cell[0].unit = 0

\* A primary header is there only when all is encrypted, or still is.
Whole == cell[0].unit = -2 => backup.length = Size /\ (pc \in Core => length = Size)

\* How far the backup header is behind.
Gap == IF mode = "encrypt" THEN length - backup.length ELSE backup.length - length

\* The unit that was moved last is still where it was.
Leftover ==
    IF mode = "encrypt"
    THEN Size - length \notin lost => At(cell, Size - length, length - 1)
    ELSE Size - length - 1 \notin lost => At(cell, Size - length - 1, length + 1)

\* Not farther than the units that were counted since it was written.
Behind ==
    /\ pc \in Core => Gap >= 0 /\ Gap <= sinceUpdate
    /\ pc \in {"loop", "next", "update"} \/ Buffered => sinceUpdate < Interval
    /\ pc \in {"save", "close"} => \/ Gap < Interval
                                   \/ Gap < Interval + ChunkSize /\ Leftover

\* Only the start of the file system is concealed, unless a run was cut short.
Confined == ~cut =>
    \A p \in Cells : cell[p].concealed => cell[p].unit = 0 /\ ~cell[p].encrypted

\* It is, whenever a header is there, except while a run begins or finishes.
Veiled == ~cut =>
    /\ pc = "begin" => ~backup.present
    /\ pc \in {"begin", "conceal", "clear", "clearHeader", "settle"} => ~cell[0].concealed
    /\ pc \in (Core \ {"clear", "clearHeader", "settle", "close"}) \cup {"none", "open"} =>
           (backup.present /\ cell[0].unit = 0 => cell[0].concealed)
    /\ pc = "close" /\ cell[0].unit = 0 /\ ~cell[0].concealed =>
           ~changed /\ backup.length < Size
    /\ status = "finished" => ~cell[0].concealed

\* The buffer has it as it is to be written.
Prepared == ~cut => (Buffered => \A u \in Chunk :
    buffer[u].concealed <=> mode = "decrypt" /\ buffer[u].unit = 0)

\* What is written back where a concealment has failed.
Undone == pc = "unconceal" =>
    /\ buffer[0] \in Content
    /\ buffer[0].unit = cell[0].unit /\ buffer[0].encrypted = cell[0].encrypted
    /\ ~cut /\ buffer[0].concealed => cell[0].unit = 0 /\ ~cell[0].encrypted

\* What a run that has finished has left.
Finished ==
    /\ pc = "settle" \/ status = "finished" =>
           IF mode = "encrypt"
           THEN cell[0].unit = -2 /\ backup.present /\ backup.length = Size
           ELSE cell[Size].unit < 0 /\ ~backup.present
    /\ pc = "clearHeader" => cell[Size].unit < 0

\* A decryption that has not yet updated the header of a whole volume has moved
\* its first units only.
Mountable == mode = "decrypt" /\ backup.length = Size =>
    \A u \in Units \ before : At(cell, u, Size) \/ u <= Interval + ChunkSize - 3

\* The inductive invariant.
IInv == /\ Types /\ Stages /\ Near /\ Right /\ Backed /\ Whole /\ Behind /\ Confined /\ Veiled
        /\ Prepared /\ Undone /\ Finished /\ Mountable

-----------------------------------------------------------------------------
(* The operators of the model *)

\* Which units the chunk at hand has, and which cells it goes to.
LEMMA Chunks ==
    ASSUME length \in 0 .. Size, mode \in {"encrypt", "decrypt"}
    PROVE  /\ Remaining \in 0 .. Size /\ Work \in 0 .. ChunkSize /\ Work <= Remaining
           /\ Remaining > 0 => Work > 0
           /\ mode = "encrypt" =>
                 /\ Chunk = Size - length - Work .. Size - length - 1
                 /\ Target = Size - length - Work + 1 .. Size - length
                 /\ Overwritten = Size - length - Work + 1 .. Size - length - 1
           /\ mode = "decrypt" =>
                 /\ Chunk = Size - length .. Size - length + Work - 1
                 /\ Target = Chunk
           /\ Chunk \subseteq Units /\ Target \subseteq Cells /\ Source \subseteq Cells
           /\ Overwritten \subseteq Target /\ Overwritten \subseteq Chunk
<1>. USE InPlaceAssumption
<1>1. Remaining \in 0 .. Size /\ Work \in 0 .. ChunkSize /\ Work <= Remaining
      /\ (Remaining > 0 => Work > 0)
  BY DEF Remaining, Work
<1>2. CASE mode = "encrypt"
  <2>1. Chunk = Size - length - Work .. Size - length - 1 /\ Chunk \subseteq Units
    BY <1>1, <1>2 DEF Chunk, Remaining, Units
  <2>2. Target = Size - length - Work + 1 .. Size - length
    <3>1. ASSUME NEW p \in Size - length - Work + 1 .. Size - length PROVE p \in Target
      <4>1. p - 1 \in Chunk /\ p = (p - 1) + 1
        BY <1>1, <2>1
      <4>. QED
        BY <1>2, <4>1 DEF Target
    <3>2. ASSUME NEW p \in Target PROVE p \in Size - length - Work + 1 .. Size - length
      BY <1>1, <1>2, <2>1 DEF Target
    <3>. QED
      BY <3>1, <3>2
  <2>3. Target \subseteq Cells /\ Source = Chunk
    BY <1>1, <1>2, <2>2 DEF Cells, Source, Remaining
  <2>4. Overwritten = Size - length - Work + 1 .. Size - length - 1
    BY <1>1, <2>1, <2>2 DEF Overwritten
  <2>. QED
    BY <1>1, <1>2, <2>1, <2>2, <2>3, <2>4 DEF Units, Cells, Overwritten
<1>3. CASE mode = "decrypt"
  <2>1. Chunk = Size - length .. Size - length + Work - 1 /\ Chunk \subseteq Units
    BY <1>1, <1>3 DEF Chunk, Remaining, Units
  <2>2. Target = Chunk /\ Source \subseteq Cells
    BY <1>3, <2>1 DEF Target, Source, Units, Cells
  <2>. QED
    BY <1>1, <1>3, <2>1, <2>2 DEF Units, Cells, Overwritten
<1>. QED
  BY <1>2, <1>3

\* What cells can hold.
LEMMA Parts ==
    /\ \A c \in Content :
           /\ c.unit \in -2 .. Size - 1 /\ c.encrypted \in BOOLEAN /\ c.concealed \in BOOLEAN
           /\ c \in [unit : -2 .. Size - 1, encrypted : BOOLEAN, concealed : BOOLEAN]
           /\ c.unit < 0 => ~c.encrypted /\ ~c.concealed
    /\ Junk \in Content /\ Junk.unit = -1 /\ ~Junk.encrypted /\ ~Junk.concealed
    /\ Header \in Content /\ Header.unit = -2 /\ ~Header.encrypted /\ ~Header.concealed
<1>. USE InPlaceAssumption
<1>1. -1 \in -2 .. Size - 1 /\ -2 \in -2 .. Size - 1
  OBVIOUS
<1>2. Junk \in [unit : -2 .. Size - 1, encrypted : BOOLEAN, concealed : BOOLEAN]
  BY <1>1, Zenon DEF Junk, Data
<1>3. Header \in [unit : -2 .. Size - 1, encrypted : BOOLEAN, concealed : BOOLEAN]
  BY <1>1, Zenon DEF Header, Data
<1>4. Junk.unit = -1 /\ ~Junk.encrypted /\ ~Junk.concealed
  BY DEF Junk, Data
<1>5. Header.unit = -2 /\ ~Header.encrypted /\ ~Header.concealed
  BY DEF Header, Data
<1>6. Junk \in Content /\ Header \in Content
  BY <1>2, <1>3, <1>4, <1>5 DEF Content
<1>. QED
  BY <1>4, <1>5, <1>6 DEF Content

\* Concealing is an exclusive or with the start of the file system.
LEMMA Concealed ==
    \A c \in Content :
        /\ Conceal(c) \in Content
        /\ Conceal(c).unit = c.unit /\ Conceal(c).encrypted = c.encrypted
        /\ c.unit = 0 /\ ~c.encrypted => (Conceal(c).concealed <=> ~c.concealed)
        /\ ~(c.unit = 0 /\ ~c.encrypted) => Conceal(c) = c
<1>. SUFFICES ASSUME NEW c \in Content
              PROVE  /\ Conceal(c) \in Content
                     /\ Conceal(c).unit = c.unit /\ Conceal(c).encrypted = c.encrypted
                     /\ c.unit = 0 /\ ~c.encrypted => (Conceal(c).concealed <=> ~c.concealed)
                     /\ ~(c.unit = 0 /\ ~c.encrypted) => Conceal(c) = c
  OBVIOUS
<1>1. CASE c.unit = 0 /\ ~c.encrypted
  <2>1. Conceal(c) = [c EXCEPT !.concealed = ~c.concealed]
    BY <1>1 DEF Conceal
  <2>2. [c EXCEPT !.concealed = ~c.concealed]
           \in [unit : -2 .. Size - 1, encrypted : BOOLEAN, concealed : BOOLEAN]
    BY Parts, Zenon
  <2>3. [c EXCEPT !.concealed = ~c.concealed].unit = c.unit
        /\ [c EXCEPT !.concealed = ~c.concealed].encrypted = c.encrypted
        /\ [c EXCEPT !.concealed = ~c.concealed].concealed = ~c.concealed
    BY Parts
  <2>. QED
    BY <1>1, <2>1, <2>2, <2>3 DEF Content
<1>2. CASE ~(c.unit = 0 /\ ~c.encrypted)
  BY <1>2 DEF Conceal
<1>. QED
  BY <1>1, <1>2

\* What each unit becomes when it is encrypted, and when it is decrypted.
LEMMA Ciphered ==
    \A c \in Content :
        /\ Encrypt(c) \in Content /\ Decrypt(c) \in Content
        /\ c.unit < 0 \/ c.encrypted => Encrypt(c) = Junk
        /\ c.unit >= 0 /\ ~c.encrypted =>
              Encrypt(c).unit = c.unit /\ Encrypt(c).encrypted /\ Encrypt(c).concealed = c.concealed
        /\ ~c.encrypted => Decrypt(c) = Junk
        /\ c.encrypted =>
              Decrypt(c).unit = c.unit /\ ~Decrypt(c).encrypted /\ Decrypt(c).concealed = c.concealed
<1>1. ASSUME NEW c \in Content, NEW e \in BOOLEAN
      PROVE  /\ [c EXCEPT !.encrypted = e]
                   \in [unit : -2 .. Size - 1, encrypted : BOOLEAN, concealed : BOOLEAN]
             /\ [c EXCEPT !.encrypted = e].unit = c.unit
             /\ [c EXCEPT !.encrypted = e].encrypted = e
             /\ [c EXCEPT !.encrypted = e].concealed = c.concealed
  <2>1. [c EXCEPT !.encrypted = e] \in [unit : -2 .. Size - 1, encrypted : BOOLEAN, concealed : BOOLEAN]
    BY Parts, Zenon
  <2>. QED
    BY <2>1, Parts
<1>2. ASSUME NEW c \in Content
      PROVE  /\ c.unit < 0 \/ c.encrypted => Encrypt(c) = Junk
             /\ c.unit >= 0 /\ ~c.encrypted => 
                   /\ Encrypt(c) \in Content
                   /\ Encrypt(c).unit = c.unit /\ Encrypt(c).encrypted 
                   /\ Encrypt(c).concealed = c.concealed
  <2>1. CASE c.unit < 0 \/ c.encrypted
    BY <2>1, Parts DEF Encrypt
  <2>2. CASE ~(c.unit < 0 \/ c.encrypted)
    <3>1. Encrypt(c) = [c EXCEPT !.encrypted = TRUE]
      BY <2>2 DEF Encrypt
    <3>2. TRUE \in BOOLEAN
      OBVIOUS
    <3>. QED
      BY <1>1, <2>2, <3>1, <3>2, Parts DEF Content
  <2>. QED
    BY <2>1, <2>2, Parts
<1>3. ASSUME NEW c \in Content
      PROVE  /\ ~c.encrypted => Decrypt(c) = Junk
             /\ c.encrypted => 
                   /\ Decrypt(c) \in Content
                   /\ Decrypt(c).unit = c.unit /\ ~Decrypt(c).encrypted 
                   /\ Decrypt(c).concealed = c.concealed
  <2>1. CASE ~c.encrypted
    BY <2>1 DEF Decrypt
  <2>2. CASE c.encrypted
    <3>1. Decrypt(c) = [c EXCEPT !.encrypted = FALSE]
      BY <2>2 DEF Decrypt
    <3>2. FALSE \in BOOLEAN
      OBVIOUS
    <3>. QED
      BY <1>1, <2>2, <3>1, <3>2, Parts DEF Content
  <2>. QED
    BY <2>1, <2>2, Parts
<1>. QED
  BY <1>2, <1>3, Parts

\* What is read of a cell and transformed: the unit of the cell, in the other
\* form, or nothing.
LEMMA Moved ==
    ASSUME NEW c \in Content, NEW p \in Cells, Fits(c, p)
    PROVE  /\ Encrypt(Conceal(c)) \in Content /\ Conceal(Decrypt(c)) \in Content
           /\ Encrypt(Conceal(c)).unit = IF c.unit = p THEN p ELSE -1
           /\ Conceal(Decrypt(c)).unit = IF c.unit >= 0 /\ c.unit = p - 1 THEN p - 1 ELSE -1
           /\ Encrypt(Conceal(c)).encrypted <=> c.unit = p
           /\ ~Conceal(Decrypt(c)).encrypted
           /\ Encrypt(Conceal(c)).concealed <=> c.unit = p /\ (c.concealed <=> p # 0)
           /\ Conceal(Decrypt(c)).concealed <=>
                  c.unit >= 0 /\ c.unit = p - 1 /\ (c.concealed <=> p # 1)
<1>. USE InPlaceAssumption DEF Fits
<1>1. p \in 0 .. Size /\ c.unit \in -2 .. Size - 1
  BY Parts DEF Cells
<1>2. /\ Encrypt(Conceal(c)) \in Content /\ Conceal(Decrypt(c)) \in Content
      /\ Conceal(Junk) = Junk /\ Conceal(Decrypt(c)).unit = Decrypt(c).unit
      /\ Conceal(Decrypt(c)).encrypted = Decrypt(c).encrypted
      /\ Conceal(c) \in Content /\ Decrypt(c) \in Content
  BY Parts, Concealed, Ciphered
<1>3. CASE c.unit < 0
  <2>1. Conceal(c) = c /\ Encrypt(c) = Junk /\ Decrypt(c) = Junk
    BY <1>3, Parts, Concealed, Ciphered
  <2>. QED
    BY <1>1, <1>2, <1>3, <2>1, Parts
<1>4. CASE c.unit >= 0 /\ c.encrypted
  <2>1. c.unit = p - 1 /\ Conceal(c) = c /\ Encrypt(c) = Junk
    BY <1>1, <1>4, Concealed, Ciphered
  <2>2. Decrypt(c).unit = p - 1 /\ ~Decrypt(c).encrypted /\ Decrypt(c).concealed = c.concealed
    BY <1>4, <2>1, Ciphered
  <2>3. Conceal(Decrypt(c)).concealed <=> (c.concealed <=> p # 1)
    BY <1>1, <1>2, <2>2, Concealed, Parts
  <2>. QED
    BY <1>1, <1>2, <1>4, <2>1, <2>2, <2>3, Parts
<1>5. CASE c.unit >= 0 /\ ~c.encrypted
  <2>1. c.unit = p /\ Decrypt(c) = Junk
    BY <1>1, <1>5, Ciphered
  <2>2. Conceal(c).unit = p /\ ~Conceal(c).encrypted /\ (Conceal(c).concealed <=> (c.concealed <=> p # 0))
    BY <1>1, <1>2, <1>5, <2>1, Concealed, Parts
  <2>3. Encrypt(Conceal(c)).unit = p /\ Encrypt(Conceal(c)).encrypted
        /\ Encrypt(Conceal(c)).concealed = Conceal(c).concealed
    BY <1>1, <1>2, <2>2, Ciphered
  <2>. QED
    BY <1>1, <1>2, <1>5, <2>1, <2>2, <2>3, Parts
<1>. QED
  BY <1>1, <1>3, <1>4, <1>5

\* What the thread is about to write, and the cells it goes to.
LEMMA Written ==
    Types /\ Near /\ Buffered /\ (pc # "write" => mode = "encrypt") =>
        /\ pc = "write" => Writing = Aimed /\ DOMAIN Aimed = Target
        /\ pc = "wipe"  => Writing = Wiped /\ DOMAIN Wiped = Target
        /\ pc = "undo"  => Writing = Original /\ DOMAIN Original = Overwritten
        /\ DOMAIN Writing \subseteq Target
        /\ \A p \in DOMAIN Writing : /\ Writing[p] \in Content /\ Fits(Writing[p], p)
                                     /\ Writing[p].unit >= -1
<1>. SUFFICES ASSUME Types, Near, Buffered, pc # "write" => mode = "encrypt"
              PROVE
        /\ pc = "write" => Writing = Aimed /\ DOMAIN Aimed = Target
        /\ pc = "wipe"  => Writing = Wiped /\ DOMAIN Wiped = Target
        /\ pc = "undo"  => Writing = Original /\ DOMAIN Original = Overwritten
        /\ DOMAIN Writing \subseteq Target
        /\ \A p \in DOMAIN Writing : /\ Writing[p] \in Content /\ Fits(Writing[p], p)
                                     /\ Writing[p].unit >= -1
  OBVIOUS
<1>. USE InPlaceAssumption DEF Fits
<1>1. /\ Chunk \subseteq Units /\ Target \subseteq Cells
      /\ Overwritten \subseteq Target /\ Overwritten \subseteq Chunk
      /\ length \in 0 .. Size /\ mode \in {"encrypt", "decrypt"}
      /\ buffer \in [Chunk -> Content]
  BY Chunks DEF Types
<1>2. ASSUME NEW u \in Chunk
      PROVE  /\ buffer[u] \in Content /\ buffer[u].unit \in {-1, u}
             /\ buffer[u].unit = u => buffer[u].encrypted = (mode = "encrypt")
             /\ buffer[u].unit < 0 => ~buffer[u].encrypted
             /\ u \in 0 .. Size - 1
  BY <1>1, Parts DEF Near, Units
<1>3. CASE pc = "write"
  <2>1. Writing = Aimed /\ DOMAIN Aimed = Target
    BY <1>3 DEF Writing, Aimed
  <2>2. ASSUME NEW p \in Target
        PROVE  Aimed[p] \in Content
               /\ Fits(Aimed[p], p) /\ Aimed[p].unit >= -1
    <3>1. CASE mode = "encrypt"
      <4>1. PICK u \in Chunk : p = u + 1
        BY <3>1 DEF Target
      <4>2. Aimed[p] = buffer[u]
        <5>1. p - 1 = u
          BY <1>2, <4>1
        <5>. QED
          BY <3>1, <5>1 DEF Aimed
      <4>3. u \in 0 .. Size - 1 /\ buffer[u].unit \in {-1, u} /\ buffer[u] \in Content
            /\ (buffer[u].unit = u => buffer[u].encrypted)
        BY <1>2, <3>1
      <4>. QED
        BY <4>1, <4>2, <4>3
    <3>2. CASE mode = "decrypt"
      <4>1. p \in Chunk /\ Aimed[p] = buffer[p]
        BY <3>2 DEF Target, Aimed
      <4>2. buffer[p].unit \in {-1, p} /\ buffer[p] \in Content /\ p \in 0 .. Size - 1
            /\ (buffer[p].unit = p => ~buffer[p].encrypted)
        BY <1>2, <3>2, <4>1
      <4>. QED
        BY <4>1, <4>2
    <3>. QED
      BY <1>1, <3>1, <3>2
  <2>. QED
    BY <1>3, <2>1, <2>2
<1>4. CASE pc = "wipe"
  <2>1. Writing = Wiped /\ DOMAIN Wiped = Target
    BY <1>4 DEF Writing, Wiped
  <2>2. \A p \in Target : Wiped[p] = Junk
    BY DEF Wiped
  <2>. QED
    BY <1>4, <2>1, <2>2, Parts
<1>5. CASE pc = "undo"
  <2>1. Writing = Original /\ DOMAIN Original = Overwritten /\ mode = "encrypt"
    BY <1>5 DEF Writing, Original
  <2>2. ASSUME NEW p \in Overwritten
        PROVE  Original[p] \in Content
               /\ Fits(Original[p], p) /\ Original[p].unit >= -1
    <3>1. Original[p] = Decrypt(buffer[p]) /\ p \in Chunk
      BY <1>1 DEF Original
    <3>2. buffer[p] \in Content /\ buffer[p].unit \in {-1, p} /\ p \in 0 .. Size - 1
          /\ (buffer[p].unit < 0 => ~buffer[p].encrypted)
      BY <1>2, <3>1
    <3>3. CASE buffer[p].encrypted
      BY <3>1, <3>2, <3>3, Ciphered
    <3>4. CASE ~buffer[p].encrypted
      <4>1. Original[p] = Junk
        BY <3>1, <3>2, <3>4, Ciphered
      <4>. QED
        BY <4>1, Parts
    <3>. QED
      BY <3>3, <3>4
  <2>. QED
    BY <1>1, <1>5, <2>1, <2>2
<1>. QED
  BY <1>3, <1>4, <1>5 DEF Buffered

\* What a write, or a part of it, leaves on the device.
LEMMA Putting ==
    ASSUME Types, Near, NEW new, NEW where \in SUBSET DOMAIN new,
           \A p \in DOMAIN new : new[p] \in Content /\ Fits(new[p], p)
    PROVE  /\ Put(new, where) \in [Cells -> Content]
           /\ \A p \in Cells : Fits(Put(new, where)[p], p)
           /\ \A p \in Cells : /\ p \in where => Put(new, where)[p] = new[p]
                               /\ p \notin where => Put(new, where)[p] = cell[p]
BY DEF Put, Types, Near

\* A concealment that fails, and its undoing, leave the data where they are.
LEMMA Unmoved ==
    IInv /\ (ConcealWriteFails \/ Unconceal) =>
        /\ cell \in [Cells -> Content] /\ 0 \in Cells /\ Fits(cell[0], 0)
        /\ \E c \in Content :
              /\ cell' = [cell EXCEPT ![0] = c]
              /\ c.unit = cell[0].unit /\ c.encrypted = cell[0].encrypted
              /\ ~cut /\ c.concealed => cell[0].unit = 0 /\ ~cell[0].encrypted
<1>. SUFFICES ASSUME IInv, ConcealWriteFails \/ Unconceal
              PROVE  /\ cell \in [Cells -> Content] /\ 0 \in Cells /\ Fits(cell[0], 0)
                     /\ \E c \in Content :
                           /\ cell' = [cell EXCEPT ![0] = c]
                           /\ c.unit = cell[0].unit /\ c.encrypted = cell[0].encrypted
                           /\ ~cut /\ c.concealed => cell[0].unit = 0 /\ ~cell[0].encrypted
  OBVIOUS
<1>1. cell \in [Cells -> Content] /\ 0 \in Cells /\ Fits(cell[0], 0)
  BY InPlaceAssumption DEF IInv, Types, Near, Cells
<1>2. ~cut /\ cell[0].concealed => cell[0].unit = 0 /\ ~cell[0].encrypted
  BY <1>1 DEF IInv, Confined
<1>3. CASE ConcealWriteFails
  <2>1. PICK c \in {cell[0], Conceal(cell[0])} : cell' = [cell EXCEPT ![0] = c]
    BY <1>3 DEF ConcealWriteFails
  <2>. QED
    BY <1>1, <1>2, <2>1, Concealed
<1>4. CASE Unconceal
  BY <1>1, <1>4 DEF Unconceal, IInv, Undone
<1>. QED
  BY <1>1, <1>3, <1>4

\* Where the thread can be, step by step.
LEMMA StagesStep == IInv /\ [Next]_vars => Stages'
<1>. SUFFICES ASSUME IInv, [Next]_vars PROVE Stages'
  OBVIOUS
<1>. USE DEF IInv, Stages
<1>1. CASE StartDecryption
  BY <1>1 DEF StartDecryption, Start, device, ghosts, locals, Types, Core, Remaining, Buffered,
     Backed
<1>2. ASSUME NEW w \in BOOLEAN, StartEncryption(w) PROVE Stages'
  BY <1>2 DEF StartEncryption, Start, device, ghosts, locals, Types, Core, Remaining, Buffered,
     Backed
<1>3. ASSUME NEW w \in BOOLEAN, NonSysInplaceEncResume(w) PROVE Stages'
  BY <1>3 DEF NonSysInplaceEncResume, Start, device, ghosts, locals, Types, Core, Remaining,
     Buffered, Backed
<1>4. ASSUME NEW m \in {"encrypt", "decrypt"}, NEW w \in BOOLEAN, ResumeInPlaceEnc(m, w) PROVE
   Stages'
  BY <1>4 DEF ResumeInPlaceEnc, Start, device, ghosts, locals, Types, Core, Remaining, Buffered,
     Backed
<1>5. CASE CloseWizard
  BY <1>5 DEF CloseWizard, device, ghosts, job, locals, Types, Core, Remaining, Buffered, Backed
<1>6. CASE NonSysInplaceEncPause
  BY <1>6 DEF NonSysInplaceEncPause, device, ghosts, job, locals, Types, Core, Remaining, Buffered,
     Backed
<1>7. CASE BeginFails
  BY <1>7 DEF BeginFails, End, job, Types, Core, Remaining, Buffered, Backed
<1>8. CASE WriteBackupHeader
  BY <1>8 DEF WriteBackupHeader, Goto, Working, ghosts, user, job, locals, Types, Core, Remaining,
     Buffered, Backed
<1>9. CASE BeginConceals
  BY <1>9 DEF BeginConceals, Goto, Working, ConcealNTFS, ghosts, user, job, locals, Types, Core,
     Remaining, Buffered, Backed
<1>10. CASE ConcealFails
  BY <1>10 DEF ConcealFails, Concealing, End, device, job, Types, Core, Remaining, Buffered, Backed
<1>11. CASE ConcealWriteFails
  BY <1>11 DEF ConcealWriteFails, Concealing, Working, ghosts, user, job, Types, Core, Remaining,
     Buffered, Backed
<1>12. CASE Unconceal
  BY <1>12 DEF Unconceal, End, job, Types, Core, Remaining, Buffered, Backed
<1>13. CASE OpenBackupHeader
  BY <1>13 DEF OpenBackupHeader, Goto, device, ghosts, job, Types, Core, Remaining, Buffered, Backed
<1>14. CASE OpenFails
  BY <1>14 DEF OpenFails, End, device, job, Types, Core, Remaining, Buffered, Backed
<1>15. CASE ReadChunk
  BY <1>15 DEF ReadChunk, Working, Transformable, AfterRead, device, ghosts, user, job, Types,
     Core, Remaining, Buffered, Backed
<1>16. CASE ZeroUnreadableSectors
  BY <1>16 DEF ZeroUnreadableSectors, Working, Transformable, user, job, locals, Types, Core,
     Remaining, Buffered, Backed
<1>17. CASE DiscardUnreadableSectors
  BY <1>17 DEF DiscardUnreadableSectors, Working, Transformable, device, user, job, Types, Core,
     Remaining, Buffered, Backed
<1>18. CASE ReadFails
  BY <1>18 DEF ReadFails, Working, Transformable, device, ghosts, user, job, locals, Types, Core,
     Remaining, Buffered, Backed
<1>19. CASE WipeChunk
  BY <1>19 DEF WipeChunk, Goto, Working, ghosts, user, job, locals, Types, Core, Remaining,
     Buffered, Backed
<1>20. CASE WriteChunk
  BY <1>20 DEF WriteChunk, Working, ghosts, user, job, Types, Core, Remaining, Buffered, Backed
<1>21. CASE WriteFails
  BY <1>21 DEF WriteFails, Working, user, job, locals, Types, Core, Remaining, Buffered, Backed
<1>22. CASE UndoWrite
  BY <1>22 DEF UndoWrite, Goto, Working, ghosts, user, job, locals, Types, Core, Remaining,
     Buffered, Backed
<1>23. CASE UndoFails
  BY <1>23 DEF UndoFails, Goto, Working, user, job, locals, Types, Core, Remaining, Buffered, Backed
<1>24. CASE SaveHeader
  BY <1>24 DEF SaveHeader, Goto, Working, FastVolumeHeaderUpdate, ghosts, user, job, Types, Core,
     Remaining, Buffered, Backed
<1>25. CASE SaveFails
  BY <1>25 DEF SaveFails, Working, device, ghosts, user, job, Types, Core, Remaining, Buffered,
     Backed
<1>26. CASE NextChunk
  BY <1>26 DEF NextChunk, Working, device, ghosts, user, job, Types, Core, Remaining, Buffered,
     Backed
<1>27. CASE LastChunkDone
  BY <1>27 DEF LastChunkDone, Goto, Working, device, ghosts, user, job, locals, Types, Core,
     Remaining, Buffered, Backed
<1>28. CASE UpdateHeader
  BY <1>28 DEF UpdateHeader, Working, FastVolumeHeaderUpdate, ghosts, user, job, locals, Types,
     Core, Remaining, Buffered, Backed
<1>29. CASE WritePrimaryHeader
  BY <1>29 DEF WritePrimaryHeader, Goto, Working, ghosts, user, job, locals, Types, Core,
     Remaining, Buffered, Backed
<1>30. CASE PrimaryHeaderFails
  BY <1>30 DEF PrimaryHeaderFails, Goto, Working, ghosts, user, job, locals, Types, Core,
     Remaining, Buffered, Backed
<1>31. CASE UndoConcealing
  BY <1>31 DEF UndoConcealing, Goto, Working, ConcealNTFS, ghosts, user, job, Types, Core,
     Remaining, Buffered, Backed
<1>32. CASE ClearCiphertext
  BY <1>32 DEF ClearCiphertext, Goto, Working, ghosts, user, job, locals, Types, Core, Remaining,
     Buffered, Backed
<1>33. CASE ClearHeader
  BY <1>33 DEF ClearHeader, Goto, Working, ghosts, user, job, locals, Types, Core, Remaining,
     Buffered, Backed
<1>34. CASE ClearFails
  BY <1>34 DEF ClearFails, Working, device, ghosts, user, job, locals, Types, Core, Remaining,
     Buffered, Backed
<1>35. CASE Close
  BY <1>35 DEF Close, End, FastVolumeHeaderUpdate, device, job, Types, Core, Remaining, Buffered,
     Backed
<1>36. CASE CloseFails
  BY <1>36 DEF CloseFails, End, device, job, Types, Core, Remaining, Buffered, Backed
<1>37. CASE Settle
  BY <1>37 DEF Settle, End, device, job, Types, Core, Remaining, Buffered, Backed
<1>38. CASE Crash
  BY <1>38 DEF Crash, job, Types, Core, Remaining, Buffered, Backed
<1>39. CASE UNCHANGED vars
  BY <1>39 DEF vars, device, ghosts, user, job, locals, Types, Core, Remaining, Buffered, Backed
<1>. QED
  BY <1>1, <1>2, <1>3, <1>4, <1>5, <1>6, <1>7, <1>8, <1>9, <1>10, <1>11, <1>12, <1>13, <1>14,
     <1>15, <1>16, <1>17, <1>18, <1>19, <1>20, <1>21, <1>22, <1>23, <1>24, <1>25, <1>26, <1>27,
     <1>28, <1>29, <1>30, <1>31, <1>32, <1>33, <1>34, <1>35, <1>36, <1>37, <1>38, <1>39 DEF Next,
     TransformThread

\* What the device holds after a step.
Sound == cell \in [Cells -> Content] /\ \A p \in Cells : Fits(cell[p], p)

\* No step puts data where they do not belong.
LEMMA SoundStep == IInv /\ [Next]_vars => Sound'
<1>. SUFFICES ASSUME IInv, [Next]_vars PROVE Sound'
  OBVIOUS
<1>. USE InPlaceAssumption, Parts, Concealed DEF IInv
<1>1. CASE StartDecryption
  BY <1>1 DEF StartDecryption, Start, device, ghosts, locals, Types, Near, Sound
<1>2. ASSUME NEW w \in BOOLEAN, StartEncryption(w) PROVE Sound'
  BY <1>2 DEF StartEncryption, Start, device, ghosts, locals, Types, Near, Sound
<1>3. ASSUME NEW w \in BOOLEAN, NonSysInplaceEncResume(w) PROVE Sound'
  BY <1>3 DEF NonSysInplaceEncResume, Start, device, ghosts, locals, Types, Near, Sound
<1>4. ASSUME NEW m \in {"encrypt", "decrypt"}, NEW w \in BOOLEAN, ResumeInPlaceEnc(m, w) PROVE
   Sound'
  BY <1>4 DEF ResumeInPlaceEnc, Start, device, ghosts, locals, Types, Near, Sound
<1>5. CASE CloseWizard
  BY <1>5 DEF CloseWizard, device, ghosts, job, locals, Types, Near, Sound
<1>6. CASE NonSysInplaceEncPause
  BY <1>6 DEF NonSysInplaceEncPause, device, ghosts, job, locals, Types, Near, Sound
<1>7. CASE BeginFails
  BY <1>7 DEF BeginFails, End, job, Types, Near, Sound
<1>8. CASE WriteBackupHeader
  BY <1>8 DEF WriteBackupHeader, Goto, Working, ghosts, user, job, locals, Types, Near, Sound
<1>9. CASE BeginConceals \/ WritePrimaryHeader \/ UndoConcealing
  <2>1. cell \in [Cells -> Content] /\ 0 \in Cells /\ Size \in Cells /\ Fits(cell[0], 0)
    BY DEF Types, Near, Cells
  <2>2. Fits(Header, 0) /\ Fits(Junk, 0) /\ Fits(Junk, Size) /\ Fits(Conceal(cell[0]), 0)
        /\ Header \in Content /\ Junk \in Content /\ cell[0] \in Content
        /\ Conceal(cell[0]) \in Content
    BY <2>1 DEF Fits
  <2>3. PICK c \in Content : Fits(c, 0) /\ cell' = [cell EXCEPT ![0] = c]
    BY <1>9, <2>2, Zenon DEF BeginConceals, WritePrimaryHeader, UndoConcealing, Goto, Working,
       ConcealNTFS, ghosts, user, job, locals
  <2>. QED
    BY <2>1, <2>3 DEF Sound, Types, Near
<1>10. CASE ConcealFails
  BY <1>10 DEF ConcealFails, Concealing, End, device, job, Types, Near, Sound
<1>11. CASE ConcealWriteFails \/ Unconceal
  <2>1. PICK c \in Content : /\ cell' = [cell EXCEPT ![0] = c] /\ c.unit = cell[0].unit
                             /\ c.encrypted = cell[0].encrypted
    BY <1>11, Unmoved DEF IInv
  <2>. QED
    BY <1>11, <2>1, Unmoved DEF Sound, Near, Fits
<1>12. CASE OpenBackupHeader
  BY <1>12 DEF OpenBackupHeader, Goto, device, ghosts, job, Types, Near, Sound
<1>13. CASE OpenFails
  BY <1>13 DEF OpenFails, End, device, job, Types, Near, Sound
<1>14. CASE ReadChunk
  BY <1>14 DEF ReadChunk, Working, Transformable, AfterRead, device, ghosts, user, job, Types,
     Near, Sound
<1>15. CASE ZeroUnreadableSectors
  <2>1. Fits(Junk, 0) /\ \A p \in Cells : Fits(Junk, p)
    BY DEF Fits
  <2>. QED
    BY <1>15, <2>1 DEF ZeroUnreadableSectors, Working, Transformable, user, job, locals, Sound,
       Types, Near
<1>16. CASE DiscardUnreadableSectors
  BY <1>16 DEF DiscardUnreadableSectors, Working, Transformable, device, user, job, Types, Near,
     Sound
<1>17. CASE ReadFails
  BY <1>17 DEF ReadFails, Working, Transformable, device, ghosts, user, job, locals, Types, Near,
     Sound
<1>18. CASE WipeChunk \/ WriteChunk \/ WriteFails \/ UndoWrite \/ UndoFails
  <2>1. Types /\ Near /\ Buffered /\ (pc # "write" => mode = "encrypt")
    BY <1>18 DEF WipeChunk, WriteChunk, WriteFails, UndoWrite, UndoFails, Goto, Working, ghosts,
       user, job, locals, Stages, Buffered
  <2>2. PICK where \in SUBSET DOMAIN Writing : cell' = Put(Writing, where)
    BY <1>18, <2>1, Written DEF WipeChunk, WriteChunk, WriteFails, UndoWrite, UndoFails, Goto,
       Working, ghosts, user, job, locals, Buffered
  <2>. QED
    BY <2>1, <2>2, Written, Putting DEF Sound
<1>19. CASE SaveHeader
  BY <1>19 DEF SaveHeader, Goto, Working, FastVolumeHeaderUpdate, ghosts, user, job, Types, Near,
     Sound
<1>20. CASE SaveFails
  BY <1>20 DEF SaveFails, Working, device, ghosts, user, job, Types, Near, Sound
<1>21. CASE NextChunk
  BY <1>21 DEF NextChunk, Working, device, ghosts, user, job, Types, Near, Sound
<1>22. CASE LastChunkDone
  BY <1>22 DEF LastChunkDone, Goto, Working, device, ghosts, user, job, locals, Types, Near, Sound
<1>23. CASE UpdateHeader
  BY <1>23 DEF UpdateHeader, Working, FastVolumeHeaderUpdate, ghosts, user, job, locals, Types,
     Near, Sound
<1>24. CASE PrimaryHeaderFails
  <2>1. cell \in [Cells -> Content] /\ 0 \in Cells /\ Size \in Cells /\ Fits(cell[0], 0)
    BY DEF Types, Near, Cells
  <2>2. Fits(Header, 0) /\ Fits(Junk, 0) /\ Fits(Junk, Size) /\ Fits(Conceal(cell[0]), 0)
        /\ Header \in Content /\ Junk \in Content /\ cell[0] \in Content
        /\ Conceal(cell[0]) \in Content
    BY <2>1 DEF Fits
  <2>3. PICK c \in {cell[0], Header, Junk} : cell' = [cell EXCEPT ![0] = c]
    BY <1>24 DEF PrimaryHeaderFails, Goto, Working, ghosts, user, job, locals
  <2>. QED
    BY <2>1, <2>2, <2>3 DEF Sound, Types, Near
<1>25. CASE ClearCiphertext
  <2>1. cell \in [Cells -> Content] /\ 0 \in Cells /\ Size \in Cells /\ Fits(cell[0], 0)
    BY DEF Types, Near, Cells
  <2>2. Fits(Header, 0) /\ Fits(Junk, 0) /\ Fits(Junk, Size) /\ Fits(Conceal(cell[0]), 0)
        /\ Header \in Content /\ Junk \in Content /\ cell[0] \in Content
        /\ Conceal(cell[0]) \in Content
    BY <2>1 DEF Fits
  <2>3. PICK c \in Content : Fits(c, Size) /\ cell' = [cell EXCEPT ![Size] = c]
    BY <1>25, <2>2, Zenon DEF ClearCiphertext, Goto, Working, ghosts, user, job, locals
  <2>. QED
    BY <2>1, <2>3 DEF Sound, Types, Near
<1>26. CASE ClearHeader
  BY <1>26 DEF ClearHeader, Goto, Working, ghosts, user, job, locals, Types, Near, Sound
<1>27. CASE ClearFails
  BY <1>27 DEF ClearFails, Working, device, ghosts, user, job, locals, Types, Near, Sound
<1>28. CASE Close
  BY <1>28 DEF Close, End, FastVolumeHeaderUpdate, device, job, Types, Near, Sound
<1>29. CASE CloseFails
  BY <1>29 DEF CloseFails, End, device, job, Types, Near, Sound
<1>30. CASE Settle
  BY <1>30 DEF Settle, End, device, job, Types, Near, Sound
<1>31. CASE Crash
  <2>1. PICK where \in SUBSET DOMAIN Writing : cell' = Put(Writing, where)
    BY <1>31 DEF Crash
  <2>2. CASE Buffered
    <3>1. pc # "write" => mode = "encrypt"
      BY <2>2 DEF Stages, Buffered
    <3>. QED
      BY <2>1, <2>2, <3>1, Written, Putting DEF Sound
  <2>3. CASE ~Buffered
    <3>1. DOMAIN Writing = {}
      BY <2>3 DEF Writing, Buffered
    <3>. QED
      BY <2>1, <3>1, Putting DEF Sound
  <2>. QED
    BY <2>2, <2>3
<1>32. CASE UNCHANGED vars
  BY <1>32 DEF vars, device, ghosts, user, job, locals, Types, Near, Sound
<1>. QED
  BY <1>1, <1>2, <1>3, <1>4, <1>5, <1>6, <1>7, <1>8, <1>9, <1>10, <1>11, <1>12, <1>13, <1>14, <1>15,
     <1>16, <1>17, <1>18, <1>19, <1>20, <1>21, <1>22, <1>23, <1>24, <1>25, <1>26, <1>27, <1>28,
     <1>29, <1>30, <1>31, <1>32 DEF Next, TransformThread

\* What the buffer holds after a step.
Held == Buffered =>
    /\ buffer \in [Chunk -> Content]
    /\ \A u \in Chunk : /\ buffer[u].unit \in {-1, u}
                        /\ buffer[u].unit = u => buffer[u].encrypted = (mode = "encrypt")

\* The buffer holds the units of the chunk, in the form that they will have.
LEMMA HeldStep == IInv /\ [Next]_vars => Held'
<1>. SUFFICES ASSUME IInv, [Next]_vars PROVE Held'
  OBVIOUS
<1>. USE InPlaceAssumption DEF IInv
<1>1. CASE StartDecryption
  BY <1>1 DEF StartDecryption, Start, device, ghosts, locals, Held, Buffered
<1>2. ASSUME NEW w \in BOOLEAN, StartEncryption(w) PROVE Held'
  BY <1>2 DEF StartEncryption, Start, device, ghosts, locals, Held, Buffered
<1>3. ASSUME NEW w \in BOOLEAN, NonSysInplaceEncResume(w) PROVE Held'
  BY <1>3 DEF NonSysInplaceEncResume, Start, device, ghosts, locals, Held, Buffered
<1>4. ASSUME NEW m \in {"encrypt", "decrypt"}, NEW w \in BOOLEAN, ResumeInPlaceEnc(m, w) PROVE Held'
  BY <1>4 DEF ResumeInPlaceEnc, Start, device, ghosts, locals, Held, Buffered
<1>5. CASE CloseWizard
  BY <1>5 DEF CloseWizard, device, ghosts, job, locals, Held, Buffered
<1>6. CASE NonSysInplaceEncPause
  <2>1. (Buffered' => Buffered) /\ buffer' = buffer /\ Chunk' = Chunk /\ mode' = mode
    BY <1>6 DEF NonSysInplaceEncPause, device, ghosts, job, locals, Buffered, Chunk, Work, Remaining
  <2>. QED
    BY <2>1 DEF Types, Near, Held
<1>7. CASE BeginFails
  BY <1>7 DEF BeginFails, End, job, Held, Buffered
<1>8. CASE WriteBackupHeader
  BY <1>8 DEF WriteBackupHeader, Goto, Working, ghosts, user, job, locals, Held, Buffered
<1>9. CASE BeginConceals
  BY <1>9 DEF BeginConceals, Goto, Working, ConcealNTFS, ghosts, user, job, locals, Held, Buffered
<1>10. CASE ConcealFails
  BY <1>10 DEF ConcealFails, Concealing, End, device, job, Held, Buffered
<1>11. CASE ConcealWriteFails
  BY <1>11 DEF ConcealWriteFails, Concealing, Working, ghosts, user, job, Held, Buffered
<1>12. CASE Unconceal
  BY <1>12 DEF Unconceal, End, job, Held, Buffered
<1>13. CASE OpenBackupHeader
  BY <1>13 DEF OpenBackupHeader, Goto, device, ghosts, job, Held, Buffered
<1>14. CASE OpenFails
  BY <1>14 DEF OpenFails, End, device, job, Held, Buffered
<1>15. CASE ReadChunk
  <2>1. /\ Chunk' = Chunk /\ mode' = mode /\ mode \in {"encrypt", "decrypt"}
        /\ Chunk \subseteq Units
        /\ \A u \in Chunk : u \in Cells /\ u + 1 \in Cells /\ (u + 1) - 1 = u /\ u >= 0 /\ u # -1
    BY <1>15, Chunks DEF ReadChunk, Working, Transformable, AfterRead, device, ghosts, user, job,
       Chunk, Work, Remaining, Types, Units, Cells
  <2>2. \A u \in Chunk : buffer'[u] = IF mode = "encrypt" THEN Encrypt(Conceal(cell[u]))
                                                         ELSE Conceal(Decrypt(cell[u + 1]))
    BY <1>15 DEF ReadChunk, Transformed
  <2>3. ASSUME NEW u \in Chunk
        PROVE  /\ buffer'[u] \in Content /\ buffer'[u].unit \in {-1, u}
               /\ buffer'[u].unit = u => buffer'[u].encrypted = (mode = "encrypt")
    <3>1. cell[u] \in Content /\ Fits(cell[u], u) /\ cell[u + 1] \in Content
          /\ Fits(cell[u + 1], u + 1)
      BY <2>1 DEF Types, Near
    <3>2. CASE mode = "encrypt"
      <4>1. buffer'[u] = Encrypt(Conceal(cell[u])) /\ u \in Cells
        BY <2>1, <2>2, <3>2
      <4>2. /\ Encrypt(Conceal(cell[u])) \in Content
            /\ Encrypt(Conceal(cell[u])).unit = IF cell[u].unit = u THEN u ELSE -1
            /\ Encrypt(Conceal(cell[u])).encrypted <=> cell[u].unit = u
        BY <3>1, <4>1, Moved
      <4>3. Encrypt(Conceal(cell[u])).encrypted \in BOOLEAN
        BY <4>2, Parts
      <4>. QED
        BY <2>1, <3>2, <4>1, <4>2, <4>3
    <3>3. CASE mode = "decrypt"
      <4>1. buffer'[u] = Conceal(Decrypt(cell[u + 1])) /\ u + 1 \in Cells /\ (u + 1) - 1 = u
        BY <2>1, <2>2, <3>3
      <4>2. /\ Conceal(Decrypt(cell[u + 1])) \in Content
            /\ Conceal(Decrypt(cell[u + 1])).unit \in {-1, (u + 1) - 1}
            /\ ~Conceal(Decrypt(cell[u + 1])).encrypted
        BY <3>1, <4>1, Moved
      <4>3. Conceal(Decrypt(cell[u + 1])).encrypted \in BOOLEAN
        BY <4>2, Parts
      <4>. QED
        BY <2>1, <3>3, <4>1, <4>2, <4>3
    <3>. QED
      BY <2>1, <3>2, <3>3
  <2>4. buffer' \in [Chunk -> Content]
    BY <1>15, <2>3 DEF ReadChunk
  <2>. QED
    BY <2>1, <2>3, <2>4 DEF Held
<1>16. CASE ZeroUnreadableSectors
  BY <1>16 DEF ZeroUnreadableSectors, Working, Transformable, user, job, locals, Held, Buffered
<1>17. CASE DiscardUnreadableSectors
  <2>1. /\ Chunk' = Chunk /\ mode' = mode /\ mode = "decrypt" /\ Chunk \subseteq Units
        /\ \A u \in Chunk : u + 1 \in Cells /\ (u + 1) - 1 = u /\ u >= 0 /\ u # -1
    BY <1>17, Chunks DEF DiscardUnreadableSectors, Working, Transformable, device, user, job,
       Chunk, Work, Remaining, Types, Units, Cells
  <2>2. \A u \in Chunk : buffer'[u] \in {Junk, Conceal(Decrypt(cell[u + 1]))}
    BY <1>17 DEF DiscardUnreadableSectors, Transformed
  <2>3. ASSUME NEW u \in Chunk
        PROVE  /\ buffer'[u] \in Content /\ buffer'[u].unit \in {-1, u} /\ ~buffer'[u].encrypted
    <3>1. cell[u + 1] \in Content /\ Fits(cell[u + 1], u + 1)
      BY <2>1 DEF Types, Near
    <3>2. /\ Conceal(Decrypt(cell[u + 1])) \in Content
          /\ Conceal(Decrypt(cell[u + 1])).unit \in {-1, (u + 1) - 1}
          /\ ~Conceal(Decrypt(cell[u + 1])).encrypted
      BY <2>1, <3>1, Moved
    <3>. QED
      BY <2>1, <2>2, <3>2, Parts
  <2>4. \A u \in Chunk : buffer'[u].encrypted = (mode = "encrypt")
    BY <2>1, <2>3, Parts
  <2>5. buffer' \in [Chunk -> Content]
    BY <1>17, <2>3 DEF DiscardUnreadableSectors
  <2>. QED
    BY <2>1, <2>3, <2>4, <2>5 DEF Held
<1>18. CASE ReadFails
  BY <1>18 DEF ReadFails, Working, Transformable, device, ghosts, user, job, locals, Held, Buffered
<1>19. CASE WipeChunk \/ WriteFails
  <2>1. Buffered /\ buffer' = buffer /\ Chunk' = Chunk /\ mode' = mode
    BY <1>19 DEF WipeChunk, WriteFails, Goto, Working, ghosts, user, job, locals, Buffered, Chunk,
       Work, Remaining
  <2>. QED
    BY <2>1 DEF Types, Near, Held
<1>20. CASE WriteChunk
  BY <1>20 DEF WriteChunk, Working, ghosts, user, job, Held, Buffered
<1>21. CASE UndoWrite
  BY <1>21 DEF UndoWrite, Goto, Working, ghosts, user, job, locals, Held, Buffered
<1>22. CASE UndoFails
  BY <1>22 DEF UndoFails, Goto, Working, user, job, locals, Held, Buffered
<1>23. CASE SaveHeader
  BY <1>23 DEF SaveHeader, Goto, Working, FastVolumeHeaderUpdate, ghosts, user, job, Held, Buffered
<1>24. CASE SaveFails
  BY <1>24 DEF SaveFails, Working, device, ghosts, user, job, Held, Buffered
<1>25. CASE NextChunk
  BY <1>25 DEF NextChunk, Working, device, ghosts, user, job, Held, Buffered
<1>26. CASE LastChunkDone
  BY <1>26 DEF LastChunkDone, Goto, Working, device, ghosts, user, job, locals, Held, Buffered
<1>27. CASE UpdateHeader
  BY <1>27 DEF UpdateHeader, Working, FastVolumeHeaderUpdate, ghosts, user, job, locals, Held,
     Buffered
<1>28. CASE WritePrimaryHeader
  BY <1>28 DEF WritePrimaryHeader, Goto, Working, ghosts, user, job, locals, Held, Buffered
<1>29. CASE PrimaryHeaderFails
  BY <1>29 DEF PrimaryHeaderFails, Goto, Working, ghosts, user, job, locals, Held, Buffered
<1>30. CASE UndoConcealing
  BY <1>30 DEF UndoConcealing, Goto, Working, ConcealNTFS, ghosts, user, job, Held, Buffered
<1>31. CASE ClearCiphertext
  BY <1>31 DEF ClearCiphertext, Goto, Working, ghosts, user, job, locals, Held, Buffered
<1>32. CASE ClearHeader
  BY <1>32 DEF ClearHeader, Goto, Working, ghosts, user, job, locals, Held, Buffered
<1>33. CASE ClearFails
  BY <1>33 DEF ClearFails, Working, device, ghosts, user, job, locals, Held, Buffered
<1>34. CASE Close
  BY <1>34 DEF Close, End, FastVolumeHeaderUpdate, device, job, Held, Buffered
<1>35. CASE CloseFails
  BY <1>35 DEF CloseFails, End, device, job, Held, Buffered
<1>36. CASE Settle
  BY <1>36 DEF Settle, End, device, job, Held, Buffered
<1>37. CASE Crash
  BY <1>37 DEF Crash, job, Held, Buffered
<1>38. CASE UNCHANGED vars
  <2>1. (Buffered' => Buffered) /\ buffer' = buffer /\ Chunk' = Chunk /\ mode' = mode
    BY <1>38 DEF vars, device, ghosts, user, job, locals, Buffered, Chunk, Work, Remaining
  <2>. QED
    BY <2>1 DEF Types, Near, Held
<1>. QED
  BY <1>1, <1>2, <1>3, <1>4, <1>5, <1>6, <1>7, <1>8, <1>9, <1>10, <1>11, <1>12, <1>13, <1>14,
     <1>15, <1>16, <1>17, <1>18, <1>19, <1>20, <1>21, <1>22, <1>23, <1>24, <1>25, <1>26, <1>27,
     <1>28, <1>29, <1>30, <1>31, <1>32, <1>33, <1>34, <1>35, <1>36, <1>37, <1>38 DEF Next,
     TransformThread

\* The variables that need no argument.
Counts ==
    /\ bad \subseteq Cells /\ lost \subseteq Units
    /\ length \in 0 .. Size /\ sinceUpdate \in Nat
    /\ pc \in Places /\ mode \in {"encrypt", "decrypt"}

\* The counters stay within the volume.
LEMMA CountsStep == IInv /\ [Next]_vars => Counts'
<1>. SUFFICES ASSUME IInv, [Next]_vars PROVE Counts'
  OBVIOUS
<1>. USE InPlaceAssumption DEF IInv
<1>1. CASE StartDecryption
  BY <1>1 DEF StartDecryption, Start, device, ghosts, locals, Types, Counts, Places, Core
<1>2. ASSUME NEW w \in BOOLEAN, StartEncryption(w) PROVE Counts'
  BY <1>2 DEF StartEncryption, Start, device, ghosts, locals, Types, Counts, Places, Core
<1>3. ASSUME NEW w \in BOOLEAN, NonSysInplaceEncResume(w) PROVE Counts'
  BY <1>3 DEF NonSysInplaceEncResume, Start, device, ghosts, locals, Types, Counts, Places, Core
<1>4. ASSUME NEW m \in {"encrypt", "decrypt"}, NEW w \in BOOLEAN, ResumeInPlaceEnc(m, w) PROVE
   Counts'
  BY <1>4 DEF ResumeInPlaceEnc, Start, device, ghosts, locals, Types, Counts, Places, Core
<1>5. CASE CloseWizard
  BY <1>5 DEF CloseWizard, device, ghosts, job, locals, Types, Counts, Places, Core
<1>6. CASE NonSysInplaceEncPause
  BY <1>6 DEF NonSysInplaceEncPause, device, ghosts, job, locals, Types, Counts, Places, Core
<1>7. CASE BeginFails
  BY <1>7 DEF BeginFails, End, job, Types, Counts, Places, Core
<1>8. CASE WriteBackupHeader
  BY <1>8 DEF WriteBackupHeader, Goto, Working, ghosts, user, job, locals, Types, Counts, Places,
     Core
<1>9. CASE BeginConceals
  BY <1>9 DEF BeginConceals, Goto, Working, ConcealNTFS, ghosts, user, job, locals, Types, Counts,
     Places, Core
<1>10. CASE ConcealFails
  BY <1>10 DEF ConcealFails, Concealing, End, device, job, Types, Counts, Places, Core
<1>11. CASE ConcealWriteFails
  BY <1>11 DEF ConcealWriteFails, Concealing, Working, ghosts, user, job, Types, Counts, Places,
     Core
<1>12. CASE Unconceal
  BY <1>12 DEF Unconceal, End, job, Types, Counts, Places, Core
<1>13. CASE OpenBackupHeader
  BY <1>13 DEF OpenBackupHeader, Goto, device, ghosts, job, Types, Counts, Places, Core
<1>14. CASE OpenFails
  BY <1>14 DEF OpenFails, End, device, job, Types, Counts, Places, Core
<1>15. CASE ReadChunk
  BY <1>15 DEF ReadChunk, Working, Transformable, AfterRead, device, ghosts, user, job, Types,
     Counts, Places, Core
<1>16. CASE ZeroUnreadableSectors \/ DiscardUnreadableSectors
  <2>1. Chunk \subseteq Units /\ (mode = "encrypt" => Source \subseteq Units)
    BY Chunks DEF Types, Source
  <2>. QED
    BY <1>16, <2>1 DEF ZeroUnreadableSectors, DiscardUnreadableSectors, Working, Transformable,
       user, job, locals, device, Types, Counts, Places, Core
<1>17. CASE ReadFails
  BY <1>17 DEF ReadFails, Working, Transformable, device, ghosts, user, job, locals, Types, Counts,
     Places, Core
<1>18. CASE WipeChunk
  BY <1>18 DEF WipeChunk, Goto, Working, ghosts, user, job, locals, Types, Counts, Places, Core
<1>19. CASE WriteChunk
  <2>1. Work \in Nat /\ Work <= Remaining
    BY Chunks DEF Types
  <2>2. length' \in 0 .. Size /\ sinceUpdate' \in Nat
    BY <1>19, <2>1 DEF WriteChunk, Remaining, Types
  <2>. QED
    BY <1>19, <2>2 DEF WriteChunk, Working, ghosts, user, job, Types, Counts, Places, Core
<1>20. CASE WriteFails \/ UndoFails \/ CloseFails
  <2>1. \A c, len : Wrong(c, len) \subseteq Units
    BY DEF Wrong
  <2>. QED
    BY <1>20, <2>1 DEF WriteFails, UndoFails, CloseFails, Working, user, job, locals, Goto, End,
       device, Types, Counts, Places, Core
<1>21. CASE UndoWrite
  BY <1>21 DEF UndoWrite, Goto, Working, ghosts, user, job, locals, Types, Counts, Places, Core
<1>22. CASE SaveHeader
  BY <1>22 DEF SaveHeader, Goto, Working, FastVolumeHeaderUpdate, ghosts, user, job, Types, Counts,
     Places, Core
<1>23. CASE SaveFails
  BY <1>23 DEF SaveFails, Working, device, ghosts, user, job, Types, Counts, Places, Core
<1>24. CASE NextChunk
  BY <1>24 DEF NextChunk, Working, device, ghosts, user, job, Types, Counts, Places, Core
<1>25. CASE LastChunkDone
  BY <1>25 DEF LastChunkDone, Goto, Working, device, ghosts, user, job, locals, Types, Counts,
     Places, Core
<1>26. CASE UpdateHeader
  BY <1>26 DEF UpdateHeader, Working, FastVolumeHeaderUpdate, ghosts, user, job, locals, Types,
     Counts, Places, Core
<1>27. CASE WritePrimaryHeader
  BY <1>27 DEF WritePrimaryHeader, Goto, Working, ghosts, user, job, locals, Types, Counts, Places,
     Core
<1>28. CASE PrimaryHeaderFails
  BY <1>28 DEF PrimaryHeaderFails, Goto, Working, ghosts, user, job, locals, Types, Counts, Places,
     Core
<1>29. CASE UndoConcealing
  BY <1>29 DEF UndoConcealing, Goto, Working, ConcealNTFS, ghosts, user, job, Types, Counts,
     Places, Core
<1>30. CASE ClearCiphertext
  BY <1>30 DEF ClearCiphertext, Goto, Working, ghosts, user, job, locals, Types, Counts, Places,
     Core
<1>31. CASE ClearHeader
  BY <1>31 DEF ClearHeader, Goto, Working, ghosts, user, job, locals, Types, Counts, Places, Core
<1>32. CASE ClearFails
  BY <1>32 DEF ClearFails, Working, device, ghosts, user, job, locals, Types, Counts, Places, Core
<1>33. CASE Close
  BY <1>33 DEF Close, End, FastVolumeHeaderUpdate, device, job, Types, Counts, Places, Core
<1>34. CASE Settle
  BY <1>34 DEF Settle, End, device, job, Types, Counts, Places, Core
<1>35. CASE Crash
  <2>1. \A c, len : Wrong(c, len) \subseteq Units
    BY DEF Wrong
  <2>. QED
    BY <1>35, <2>1 DEF Crash, job, Types, Counts, Places, Core
<1>36. CASE UNCHANGED vars
  BY <1>36 DEF vars, device, ghosts, user, job, locals, Types, Counts, Places, Core
<1>. QED
  BY <1>1, <1>2, <1>3, <1>4, <1>5, <1>6, <1>7, <1>8, <1>9, <1>10, <1>11, <1>12, <1>13, <1>14,
     <1>15, <1>16, <1>17, <1>18, <1>19, <1>20, <1>21, <1>22, <1>23, <1>24, <1>25, <1>26, <1>27,
     <1>28, <1>29, <1>30, <1>31, <1>32, <1>33, <1>34, <1>35, <1>36 DEF Next, TransformThread

\* The backup header.
Kept == backup \in [present : BOOLEAN, length : 0 .. Size, inPlace : BOOLEAN]

\* The backup header stays one of the volume, step by step.
LEMMA KeptStep == IInv /\ [Next]_vars => Kept'
<1>. SUFFICES ASSUME IInv, [Next]_vars PROVE Kept'
  OBVIOUS
<1>. USE InPlaceAssumption DEF IInv
<1>1. CASE StartDecryption
  BY <1>1 DEF StartDecryption, Start, device, ghosts, locals, Types, Kept
<1>2. ASSUME NEW w \in BOOLEAN, StartEncryption(w) PROVE Kept'
  BY <1>2 DEF StartEncryption, Start, device, ghosts, locals, Types, Kept
<1>3. ASSUME NEW w \in BOOLEAN, NonSysInplaceEncResume(w) PROVE Kept'
  BY <1>3 DEF NonSysInplaceEncResume, Start, device, ghosts, locals, Types, Kept
<1>4. ASSUME NEW m \in {"encrypt", "decrypt"}, NEW w \in BOOLEAN, ResumeInPlaceEnc(m, w) PROVE Kept'
  BY <1>4 DEF ResumeInPlaceEnc, Start, device, ghosts, locals, Types, Kept
<1>5. CASE CloseWizard
  BY <1>5 DEF CloseWizard, device, ghosts, job, locals, Types, Kept
<1>6. CASE NonSysInplaceEncPause
  BY <1>6 DEF NonSysInplaceEncPause, device, ghosts, job, locals, Types, Kept
<1>7. CASE BeginFails \/ WriteBackupHeader \/ ClearHeader
  <2>1. 0 \in 0 .. Size
        /\ NoBackup \in [present : BOOLEAN, length : 0 .. Size, inPlace : BOOLEAN]
    BY DEF NoBackup
  <2>2. [present |-> TRUE, length |-> 0, inPlace |-> TRUE]
           \in [present : BOOLEAN, length : 0 .. Size, inPlace : BOOLEAN]
    BY <2>1, Zenon
  <2>. QED
    BY <1>7, <2>1, <2>2 DEF BeginFails, WriteBackupHeader, ClearHeader, End, job, Goto, Working,
       ghosts, user, locals, Types, Kept
<1>8. CASE BeginConceals
  BY <1>8 DEF BeginConceals, Goto, Working, ConcealNTFS, ghosts, user, job, locals, Types, Kept
<1>9. CASE ConcealFails
  BY <1>9 DEF ConcealFails, Concealing, End, device, job, Types, Kept
<1>10. CASE ConcealWriteFails
  BY <1>10 DEF ConcealWriteFails, Concealing, Working, ghosts, user, job, Types, Kept
<1>11. CASE Unconceal
  BY <1>11 DEF Unconceal, End, job, Types, Kept
<1>12. CASE OpenBackupHeader
  BY <1>12 DEF OpenBackupHeader, Goto, device, ghosts, job, Types, Kept
<1>13. CASE OpenFails
  BY <1>13 DEF OpenFails, End, device, job, Types, Kept
<1>14. CASE ReadChunk
  BY <1>14 DEF ReadChunk, Working, Transformable, AfterRead, device, ghosts, user, job, Types, Kept
<1>15. CASE ZeroUnreadableSectors
  BY <1>15 DEF ZeroUnreadableSectors, Working, Transformable, user, job, locals, Types, Kept
<1>16. CASE DiscardUnreadableSectors
  BY <1>16 DEF DiscardUnreadableSectors, Working, Transformable, device, user, job, Types, Kept
<1>17. CASE ReadFails
  BY <1>17 DEF ReadFails, Working, Transformable, device, ghosts, user, job, locals, Types, Kept
<1>18. CASE WipeChunk
  BY <1>18 DEF WipeChunk, Goto, Working, ghosts, user, job, locals, Types, Kept
<1>19. CASE WriteChunk
  BY <1>19 DEF WriteChunk, Working, ghosts, user, job, Types, Kept
<1>20. CASE WriteFails
  BY <1>20 DEF WriteFails, Working, user, job, locals, Types, Kept
<1>21. CASE UndoWrite
  BY <1>21 DEF UndoWrite, Goto, Working, ghosts, user, job, locals, Types, Kept
<1>22. CASE UndoFails
  BY <1>22 DEF UndoFails, Goto, Working, user, job, locals, Types, Kept
<1>23. CASE SaveHeader \/ UpdateHeader \/ Close
  <2>1. [backup EXCEPT !.length = length, !.inPlace = TRUE]
           \in [present : BOOLEAN, length : 0 .. Size, inPlace : BOOLEAN]
    BY Zenon DEF Types
  <2>. QED
    BY <1>23, <2>1 DEF SaveHeader, UpdateHeader, Close, Goto, Working, FastVolumeHeaderUpdate,
       ghosts, user, job, locals, End, device, Types, Kept
<1>24. CASE SaveFails
  BY <1>24 DEF SaveFails, Working, device, ghosts, user, job, Types, Kept
<1>25. CASE NextChunk
  BY <1>25 DEF NextChunk, Working, device, ghosts, user, job, Types, Kept
<1>26. CASE LastChunkDone
  BY <1>26 DEF LastChunkDone, Goto, Working, device, ghosts, user, job, locals, Types, Kept
<1>27. CASE WritePrimaryHeader
  BY <1>27 DEF WritePrimaryHeader, Goto, Working, ghosts, user, job, locals, Types, Kept
<1>28. CASE PrimaryHeaderFails
  BY <1>28 DEF PrimaryHeaderFails, Goto, Working, ghosts, user, job, locals, Types, Kept
<1>29. CASE UndoConcealing
  BY <1>29 DEF UndoConcealing, Goto, Working, ConcealNTFS, ghosts, user, job, Types, Kept
<1>30. CASE ClearCiphertext
  BY <1>30 DEF ClearCiphertext, Goto, Working, ghosts, user, job, locals, Types, Kept
<1>31. CASE ClearFails
  BY <1>31 DEF ClearFails, Working, device, ghosts, user, job, locals, Types, Kept
<1>32. CASE CloseFails
  BY <1>32 DEF CloseFails, End, device, job, Types, Kept
<1>33. CASE Settle
  BY <1>33 DEF Settle, End, device, job, Types, Kept
<1>34. CASE Crash
  BY <1>34 DEF Crash, job, Types, Kept
<1>35. CASE UNCHANGED vars
  BY <1>35 DEF vars, device, ghosts, user, job, locals, Types, Kept
<1>. QED
  BY <1>1, <1>2, <1>3, <1>4, <1>5, <1>6, <1>7, <1>8, <1>9, <1>10, <1>11, <1>12, <1>13, <1>14,
     <1>15, <1>16, <1>17, <1>18, <1>19, <1>20, <1>21, <1>22, <1>23, <1>24, <1>25, <1>26, <1>27,
     <1>28, <1>29, <1>30, <1>31, <1>32, <1>33, <1>34, <1>35 DEF Next, TransformThread

\* The types of the variables, and that no data stray, step by step.
LEMMA TypesStep == IInv /\ [Next]_vars => Types' /\ Near'
<1>1. ASSUME IInv, [Next]_vars PROVE Types' /\ Near'
  <2>1. Counts' /\ Kept' /\ Sound' /\ Held'
    BY <1>1, CountsStep, KeptStep, SoundStep, HeldStep
  <2>2. Types'
    BY <2>1, Zenon DEF Types, Counts, Kept, Sound, Held
  <2>3. Near'
    BY <2>1, Zenon DEF Near, Sound, Held
  <2>. QED
    BY <2>2, <2>3
<1>. QED
  BY <1>1

-----------------------------------------------------------------------------
(* Where the units are *)

\* The units that are not where the length says, in the words of the model.
LEMMA WrongAt == \A c, len : Wrong(c, len) = {u \in Units : ~At(c, u, len)}
BY DEF Wrong, At, Place

\* A unit is in its cell or in the next one.
LEMMA Placed ==
    \A u \in Units, len \in 0 .. Size :
        /\ u \in 0 .. Size - 1 /\ Place(u, len) \in Cells
        /\ u >= Size - len => Place(u, len) = u + 1
        /\ u < Size - len => Place(u, len) = u
BY InPlaceAssumption DEF Place, Units, Cells

\* The length once the chunk has been written.
Onward == IF mode = "encrypt" THEN length + Work ELSE length - Work

\* Only the units of the chunk have other places then, and no other unit is in
\* the cells that are written.
LEMMA Moving ==
    length \in 0 .. Size /\ mode \in {"encrypt", "decrypt"} =>
        /\ Onward \in 0 .. Size
        /\ \A u \in Units \ Chunk : Place(u, Onward) = Place(u, length) /\ Place(u, length) \notin Target
        /\ \A u \in Chunk :
               /\ u \in Units /\ Place(u, Onward) \in Target
               /\ Place(u, length) = IF mode = "encrypt" THEN u ELSE u + 1
               /\ Place(u, Onward) = IF mode = "encrypt" THEN u + 1 ELSE u
               /\ mode = "encrypt" /\ Place(u, length) \in Target => u \in Overwritten
<1>. SUFFICES ASSUME length \in 0 .. Size, mode \in {"encrypt", "decrypt"}
              PROVE
        /\ Onward \in 0 .. Size
        /\ \A u \in Units \ Chunk : Place(u, Onward) = Place(u, length) /\ Place(u, length) \notin Target
        /\ \A u \in Chunk :
               /\ u \in Units /\ Place(u, Onward) \in Target
               /\ Place(u, length) = IF mode = "encrypt" THEN u ELSE u + 1
               /\ Place(u, Onward) = IF mode = "encrypt" THEN u + 1 ELSE u
               /\ mode = "encrypt" /\ Place(u, length) \in Target => u \in Overwritten
  OBVIOUS
<1>. USE InPlaceAssumption
<1>1. Work \in 0 .. ChunkSize /\ Work <= Remaining /\ Chunk \subseteq Units
  BY Chunks
<1>2. CASE mode = "encrypt"
  <2>1. Chunk = Size - length - Work .. Size - length - 1
        /\ Target = Size - length - Work + 1 .. Size - length
        /\ Overwritten = Size - length - Work + 1 .. Size - length - 1
    BY <1>2, Chunks
  <2>2. Onward = length + Work /\ length + Work <= Size
    BY <1>1, <1>2 DEF Onward, Remaining
  <2>3. ASSUME NEW u \in Units \ Chunk
        PROVE  Place(u, Onward) = Place(u, length) /\ Place(u, length) \notin Target
    BY <1>1, <2>1, <2>2 DEF Place, Units
  <2>4. ASSUME NEW u \in Chunk
        PROVE  /\ Place(u, length) = u /\ Place(u, Onward) = u + 1 /\ u + 1 \in Target
               /\ u \in Target => u \in Overwritten
    BY <1>1, <2>1, <2>2 DEF Place
  <2>. QED
    BY <1>1, <1>2, <2>2, <2>3, <2>4
<1>3. CASE mode = "decrypt"
  <2>1. Chunk = Size - length .. Size - length + Work - 1 /\ Target = Chunk
    BY <1>3, Chunks
  <2>2. Onward = length - Work /\ Work <= length
    BY <1>1, <1>3 DEF Onward, Remaining
  <2>3. ASSUME NEW u \in Units \ Chunk
        PROVE  Place(u, Onward) = Place(u, length) /\ Place(u, length) \notin Target
    BY <1>1, <2>1, <2>2 DEF Place, Units
  <2>4. ASSUME NEW u \in Chunk
        PROVE  Place(u, length) = u + 1 /\ Place(u, Onward) = u /\ u \in Target
    BY <1>1, <2>1, <2>2 DEF Place
  <2>. QED
    BY <1>1, <1>3, <2>2, <2>3, <2>4
<1>. QED
  BY <1>2, <1>3

\* A unit that is not lost stays where the length says.
LEMMA RightStep == IInv /\ [Next]_vars => Right'
<1>. SUFFICES ASSUME IInv, [Next]_vars PROVE Right'
  OBVIOUS
<1>. USE InPlaceAssumption DEF IInv
<1>1. CASE StartDecryption
  BY <1>1 DEF StartDecryption, Start, device, ghosts, locals, Right, Expected, Core, Buffered,
     Backed
<1>2. ASSUME NEW w \in BOOLEAN, StartEncryption(w) PROVE Right'
  BY <1>2 DEF StartEncryption, Start, device, ghosts, locals, Right, Expected, Core, Buffered,
     Backed
<1>3. ASSUME NEW w \in BOOLEAN, NonSysInplaceEncResume(w) PROVE Right'
  BY <1>3 DEF NonSysInplaceEncResume, Start, device, ghosts, locals, Right, Expected, Core,
     Buffered, Backed
<1>4. ASSUME NEW m \in {"encrypt", "decrypt"}, NEW w \in BOOLEAN, ResumeInPlaceEnc(m, w) PROVE
   Right'
  BY <1>4 DEF ResumeInPlaceEnc, Start, device, ghosts, locals, Right, Expected, Core, Buffered,
     Backed
<1>5. CASE CloseWizard
  BY <1>5 DEF CloseWizard, device, ghosts, job, locals, Right, Expected, Core, Buffered, Backed
<1>6. CASE NonSysInplaceEncPause
  <2>1. /\ Expected' = Expected /\ cell' = cell /\ lost' = lost /\ buffer' = buffer
        /\ Buffered' = Buffered /\ Target' = Target /\ Chunk' = Chunk
    BY <1>6 DEF NonSysInplaceEncPause, device, ghosts, job, locals, Expected, Buffered, Target,
       Chunk, Work, Remaining
  <2>. QED
    BY <2>1 DEF Right
<1>7. CASE BeginFails \/ WriteBackupHeader
  <2>1. pc = "begin" /\ ~Buffered /\ Expected = backup.length
    BY <1>7 DEF BeginFails, WriteBackupHeader, End, job, Goto, Working, ghosts, user, locals,
       Buffered, Expected, Core
  <2>2. \A u \in Units \ lost : At(cell, u, 0) /\ At(cell, u, backup.length)
    BY <2>1, WrongAt DEF Right, Backed
  <2>3. /\ cell' = cell /\ lost' = lost /\ ~Buffered' /\ Expected' = backup'.length
        /\ backup'.length \in {backup.length, 0}
    BY <1>7 DEF BeginFails, WriteBackupHeader, End, job, Goto, Working, ghosts, user, locals,
       Buffered, Expected, Core
  <2>. QED
    BY <2>2, <2>3 DEF Right
<1>8. CASE BeginConceals \/ UndoConcealing
  <2>1. cell \in [Cells -> Content] /\ 0 \in Cells
    BY DEF Types, Cells
  <2>2. \A p \in Cells : cell'[p].unit = cell[p].unit /\ cell'[p].encrypted = cell[p].encrypted
    BY <1>8, <2>1, Concealed DEF ConcealNTFS, BeginConceals, UndoConcealing, Goto, Working,
       ConcealNTFS, ghosts, user, job, locals
  <2>3. ~Buffered /\ ~Buffered' /\ Expected' = Expected /\ Expected \in 0 .. Size
        /\ lost' = lost
    BY <1>8 DEF BeginConceals, UndoConcealing, Goto, Working, ConcealNTFS, ghosts, user, job,
       locals, Buffered, Expected, Core, Types
  <2>4. \A u \in Units : At(cell', u, Expected) = At(cell, u, Expected)
    BY <2>2, <2>3, Placed DEF At
  <2>. QED
    BY <2>3, <2>4 DEF Right
<1>9. CASE ConcealFails
  BY <1>9 DEF ConcealFails, Concealing, End, device, job, Right, Expected, Core, Buffered, Backed
<1>10. CASE ConcealWriteFails \/ Unconceal
  <2>1. \A p \in Cells : cell'[p].unit = cell[p].unit /\ cell'[p].encrypted = cell[p].encrypted
    BY <1>10, Unmoved
  <2>2. ~Buffered /\ ~Buffered' /\ Expected' = Expected /\ Expected \in 0 .. Size
        /\ lost' = lost
    BY <1>10 DEF ConcealWriteFails, Unconceal, Concealing, End, Working, ghosts, user, job,
       Buffered, Expected, Core, Backed, Types
  <2>3. \A u \in Units : At(cell', u, Expected) = At(cell, u, Expected)
    BY <2>1, <2>2, Placed DEF At
  <2>. QED
    BY <2>2, <2>3 DEF Right
<1>11. CASE OpenBackupHeader
  BY <1>11 DEF OpenBackupHeader, Goto, device, ghosts, job, Right, Expected, Core, Buffered, Backed
<1>12. CASE OpenFails
  BY <1>12 DEF OpenFails, End, device, job, Right, Expected, Core, Buffered, Backed
<1>13. CASE ReadChunk \/ DiscardUnreadableSectors
  <2>1. /\ length \in 0 .. Size /\ mode \in {"encrypt", "decrypt"} /\ ~Buffered /\ Buffered'
        /\ Expected = length /\ Expected' = length /\ cell' = cell /\ lost \subseteq lost'
        /\ Chunk' = Chunk /\ mode' = mode /\ cell \in [Cells -> Content]
    BY <1>13 DEF ReadChunk, DiscardUnreadableSectors, Working, Transformable, AfterRead, device,
       ghosts, user, job, Types, Buffered, Expected, Core, Chunk, Work, Remaining
  <2>2. \A u \in Units \ lost : At(cell, u, length)
    BY <2>1 DEF Right
  <2>3. ASSUME NEW u \in Chunk, u \notin lost' PROVE buffer'[u].unit = u
    <3>1. /\ At(cell, u, length) /\ u \in Units /\ u \in Cells /\ u + 1 \in Cells
          /\ (u + 1) - 1 = u
          /\ Place(u, length) = IF mode = "encrypt" THEN u ELSE u + 1
          /\ u >= 0
      BY <2>1, <2>2, <2>3, Moving DEF Units, Cells
    <3>2. Fits(cell[u], u) /\ Fits(cell[u + 1], u + 1) /\ cell[u] \in Content
          /\ cell[u + 1] \in Content
      BY <2>1, <3>1 DEF Near
    <3>3. CASE mode = "encrypt"
      <4>1. buffer'[u] = Encrypt(Conceal(cell[u]))
        BY <1>13, <2>3, <3>3 DEF ReadChunk, DiscardUnreadableSectors, Working, Transformable,
           AfterRead, device, ghosts, user, job, Transformed
      <4>2. cell[u].unit = u
        BY <3>1, <3>3 DEF At
      <4>. QED
        BY <3>1, <3>2, <4>1, <4>2, Moved
    <3>4. CASE mode = "decrypt"
      <4>1. buffer'[u] = Conceal(Decrypt(cell[u + 1]))
        BY <1>13, <2>3, <3>4 DEF ReadChunk, DiscardUnreadableSectors, Working, Transformable,
           AfterRead, device, ghosts, user, job, Transformed
      <4>2. cell[u + 1].unit = u
        BY <3>1, <3>4 DEF At
      <4>. QED
        BY <3>1, <3>2, <4>1, <4>2, Moved
    <3>. QED
      BY <2>1, <3>3, <3>4
  <2>. QED
    BY <2>1, <2>2, <2>3 DEF Right
<1>14. CASE ZeroUnreadableSectors
  <2>1. /\ mode = "encrypt" /\ length \in 0 .. Size /\ cell \in [Cells -> Content]
        /\ ~Buffered /\ ~Buffered'
        /\ Expected = length /\ Expected' = length /\ lost' = lost \cup (Chunk \cap bad)
        /\ \A p \in Cells : p \notin Chunk \cap bad => cell'[p] = cell[p]
    BY <1>14 DEF ZeroUnreadableSectors, Working, Transformable, user, job, locals, Types, Buffered,
       Expected, Core, Source
  <2>2. ASSUME NEW u \in Units \ lost' PROVE At(cell', u, length)
    <3>1. At(cell, u, length) /\ u \in Units /\ u \notin Chunk \cap bad
      BY <2>1 DEF Right
    <3>2. Place(u, length) \in Cells /\ Place(u, length) \notin Chunk \cap bad
      <4>1. CASE u \in Chunk
        BY <2>1, <3>1, <4>1, Moving, Placed
      <4>2. CASE u \notin Chunk
        <5>1. Chunk = Size - length - Work .. Size - length - 1 /\ Work \in Nat
              /\ Work <= Remaining
          BY <2>1, Chunks
        <5>. QED
          BY <2>1, <3>1, <4>2, <5>1, Placed DEF Place, Remaining
      <4>. QED
        BY <4>1, <4>2
    <3>. QED
      BY <2>1, <3>1, <3>2 DEF At
  <2>. QED
    BY <2>1, <2>2 DEF Right
<1>15. CASE ReadFails
  BY <1>15 DEF ReadFails, Working, Transformable, device, ghosts, user, job, locals, Right,
     Expected, Core, Buffered, Backed
<1>16. CASE WipeChunk
  <2>1. /\ length \in 0 .. Size /\ mode = "encrypt" /\ Buffered /\ Buffered' /\ pc = "wipe"
        /\ Expected = length /\ Expected' = length /\ lost' = lost /\ buffer' = buffer
        /\ Chunk' = Chunk /\ Target' = Target
        /\ cell' = Put(Wiped, Target)
    BY <1>16 DEF WipeChunk, Goto, Working, ghosts, user, job, locals, Types, Stages, Buffered,
       Expected, Core, Chunk, Target, Work, Remaining
  <2>2. \A p \in Cells \ Target : cell'[p] = cell[p]
    BY <2>1, Written, Putting
  <2>3. \A u \in Units : At(cell, u, length) => At(cell', u, length) \/ Place(u, length) \in Target
    BY <2>1, <2>2, Placed DEF At
  <2>. QED
    BY <2>1, <2>3 DEF Right
<1>17. CASE WriteChunk
  <2>1. /\ length \in 0 .. Size /\ mode \in {"encrypt", "decrypt"} /\ Buffered /\ ~Buffered'
        /\ pc = "write"
        /\ Expected = length /\ Expected' = Onward /\ lost' = lost
        /\ cell' = Put(Aimed, Target)
    BY <1>17 DEF WriteChunk, Working, ghosts, user, job, Types, Buffered, Expected, Core, Onward
  <2>2. \A p \in Cells : cell'[p] = IF p \in Target THEN Aimed[p] ELSE cell[p]
    BY <2>1, Written, Putting
  <2>3. ASSUME NEW u \in Units \ lost PROVE At(cell', u, Onward)
    <3>1. CASE u \in Chunk
      <4>1. buffer[u].unit = u /\ buffer[u].encrypted = (mode = "encrypt") /\ u \in Int
        BY <2>1, <2>3, <3>1 DEF Right, Near, Units
      <4>2. Aimed[Place(u, Onward)] = buffer[u] /\ Place(u, Onward) \in Target
        BY <2>1, <3>1, <4>1, Moving DEF Aimed
      <4>3. Place(u, Onward) = u + 1 <=> mode = "encrypt"
        BY <2>1, <3>1, <4>1, Moving
      <4>4. cell'[Place(u, Onward)] = buffer[u]
        BY <2>1, <2>2, <4>2, Moving, Placed
      <4>. QED
        BY <4>1, <4>3, <4>4 DEF At
    <3>2. CASE u \notin Chunk
      <4>1. Place(u, Onward) = Place(u, length) /\ Place(u, length) \in Cells \ Target
        BY <2>1, <3>2, Moving, Placed
      <4>2. At(cell, u, length)
        BY <2>1, <2>3, <4>1 DEF Right
      <4>. QED
        BY <2>2, <4>1, <4>2 DEF At
    <3>. QED
      BY <3>1, <3>2
  <2>. QED
    BY <2>1, <2>3 DEF Right
<1>18. CASE WriteFails
  <2>1. /\ length \in 0 .. Size /\ mode \in {"encrypt", "decrypt"} /\ Buffered
        /\ pc \in {"wipe", "write"}
        /\ pc # "write" => mode = "encrypt"
        /\ Expected = length /\ Expected' = length /\ lost \subseteq lost' /\ buffer' = buffer
        /\ Chunk' = Chunk /\ Target' = Target
        /\ mode = "encrypt" => Buffered'
        /\ mode = "decrypt" => ~Buffered' /\ lost' = lost \cup Wrong(cell', length)
    BY <1>18 DEF WriteFails, Working, user, job, locals, Types, Stages, Buffered, Expected, Core,
       Chunk, Target, Work, Remaining
  <2>2. CASE mode = "encrypt"
    <3>1. PICK where \in SUBSET DOMAIN Writing : cell' = Put(Writing, where)
      BY <1>18, <2>1, Written DEF WriteFails
    <3>2. \A p \in Cells \ Target : cell'[p] = cell[p]
      BY <2>1, <3>1, Written, Putting
    <3>3. \A u \in Units : At(cell, u, length) => At(cell', u, length) \/ Place(u, length) \in Target
      BY <2>1, <3>2, Placed DEF At
    <3>. QED
      BY <2>1, <2>2, <3>3 DEF Right
  <2>3. CASE mode = "decrypt"
    <3>1. \A u \in Units \ lost' : At(cell', u, length)
      BY <2>1, <2>3, WrongAt
    <3>. QED
      BY <2>1, <2>3, <3>1 DEF Right
  <2>. QED
    BY <2>1, <2>2, <2>3
<1>19. CASE UndoWrite
  <2>1. /\ length \in 0 .. Size /\ mode = "encrypt" /\ Buffered /\ ~Buffered' /\ pc = "undo"
        /\ Expected = length /\ Expected' = length /\ lost' = lost
        /\ cell' = Put(Original, Overwritten)
    BY <1>19 DEF UndoWrite, Goto, Working, ghosts, user, job, locals, Types, Stages, Buffered,
       Expected, Core
  <2>2. \A p \in Cells : cell'[p] = IF p \in Overwritten THEN Original[p] ELSE cell[p]
    BY <2>1, Written, Putting
  <2>3. ASSUME NEW u \in Units \ lost PROVE At(cell', u, length)
    <3>1. Place(u, length) \in Cells /\ Overwritten \subseteq Target
          /\ Overwritten \subseteq Chunk
      BY <2>1, Placed, Chunks
    <3>2. CASE Place(u, length) \in Target
      <4>1. u \in Chunk /\ u \in Overwritten /\ Place(u, length) = u /\ u \in Int
        BY <2>1, <3>2, Moving DEF Units
      <4>2. buffer[u].unit = u /\ buffer[u].encrypted /\ buffer[u] \in Content
        BY <2>1, <2>3, <4>1 DEF Right, Near, Types
      <4>3. cell'[u] = Decrypt(buffer[u])
        BY <2>2, <3>1, <4>1 DEF Original
      <4>4. Decrypt(buffer[u]).unit = u /\ ~Decrypt(buffer[u]).encrypted
            /\ Decrypt(buffer[u]) \in Content
        BY <4>2, Ciphered
      <4>5. Decrypt(buffer[u]).encrypted = FALSE
        BY <4>4, Parts
      <4>6. u # u + 1
        BY <4>1
      <4>. QED
        BY <4>1, <4>3, <4>4, <4>5, <4>6 DEF At
    <3>3. CASE Place(u, length) \notin Target
      BY <2>1, <2>2, <3>1, <3>3 DEF Right, At
    <3>. QED
      BY <3>2, <3>3
  <2>. QED
    BY <2>1, <2>3 DEF Right
<1>20. CASE UndoFails \/ CloseFails
  <2>1. lost' = lost \cup Wrong(cell', Expected') /\ ~Buffered'
    BY <1>20 DEF UndoFails, CloseFails, Goto, Working, user, job, locals, End, device, Types,
       Stages, Buffered, Expected, Core
  <2>2. \A u \in Units \ lost' : At(cell', u, Expected')
    BY <2>1, WrongAt
  <2>. QED
    BY <2>1, <2>2 DEF Right
<1>21. CASE SaveHeader
  BY <1>21 DEF SaveHeader, Goto, Working, FastVolumeHeaderUpdate, ghosts, user, job, Right,
     Expected, Core, Buffered, Backed
<1>22. CASE SaveFails
  BY <1>22 DEF SaveFails, Working, device, ghosts, user, job, Right, Expected, Core, Buffered,
     Backed
<1>23. CASE NextChunk
  BY <1>23 DEF NextChunk, Working, device, ghosts, user, job, Right, Expected, Core, Buffered,
     Backed
<1>24. CASE LastChunkDone
  BY <1>24 DEF LastChunkDone, Goto, Working, device, ghosts, user, job, locals, Right, Expected,
     Core, Buffered, Backed
<1>25. CASE UpdateHeader
  BY <1>25 DEF UpdateHeader, Working, FastVolumeHeaderUpdate, ghosts, user, job, locals, Right,
     Expected, Core, Buffered, Backed
<1>26. CASE WritePrimaryHeader \/ PrimaryHeaderFails
  <2>1. cell \in [Cells -> Content] /\ length = Size /\ lost' = lost /\ ~Buffered /\ ~Buffered'
        /\ Expected = length /\ Expected' = length
    BY <1>26 DEF WritePrimaryHeader, PrimaryHeaderFails, Goto, Working, ghosts, user, job, locals,
       Types, Stages, Remaining, Buffered, Expected, Core
  <2>2. \A p \in Cells \ {0} : cell'[p] = cell[p]
    BY <1>26, <2>1 DEF WritePrimaryHeader, PrimaryHeaderFails, Goto, Working, ghosts, user, job,
       locals
  <2>3. \A u \in Units : Place(u, length) \in Cells \ {0}
    BY <2>1, Placed
  <2>4. \A u \in Units : At(cell', u, length) = At(cell, u, length)
    BY <2>2, <2>3 DEF At
  <2>. QED
    BY <2>1, <2>4 DEF Right
<1>27. CASE ClearCiphertext
  <2>1. cell \in [Cells -> Content] /\ length = 0 /\ lost' = lost /\ ~Buffered /\ ~Buffered'
        /\ Expected = length /\ Expected' = length
    BY <1>27 DEF ClearCiphertext, Goto, Working, ghosts, user, job, locals, Types, Stages,
       Remaining, Buffered, Expected, Core
  <2>2. \A p \in Cells \ {Size} : cell'[p] = cell[p]
    BY <1>27, <2>1 DEF ClearCiphertext, Goto, Working, ghosts, user, job, locals
  <2>3. \A u \in Units : Place(u, length) \in Cells \ {Size}
    BY <2>1, Placed
  <2>4. \A u \in Units : At(cell', u, length) = At(cell, u, length)
    BY <2>2, <2>3 DEF At
  <2>. QED
    BY <2>1, <2>4 DEF Right
<1>28. CASE ClearHeader
  BY <1>28 DEF ClearHeader, Goto, Working, ghosts, user, job, locals, Right, Expected, Core,
     Buffered, Backed
<1>29. CASE ClearFails
  BY <1>29 DEF ClearFails, Working, device, ghosts, user, job, locals, Right, Expected, Core,
     Buffered, Backed
<1>30. CASE Close
  <2>1. Expected = length /\ Expected' = backup'.length /\ backup'.length = length
        /\ ~Buffered /\ ~Buffered' /\ cell' = cell /\ lost' = lost
    <3>1. pc = "close" /\ cell' = cell /\ lost' = lost /\ pc' = "none"
      BY <1>30 DEF Close, End, FastVolumeHeaderUpdate, device, job
    <3>2. CASE changed
      BY <1>30, <3>1, <3>2 DEF Close, End, FastVolumeHeaderUpdate, device, job, Types, Buffered,
         Expected, Core
    <3>3. CASE ~changed
      BY <1>30, <3>1, <3>3 DEF Close, End, FastVolumeHeaderUpdate, device, job, Backed, Buffered,
         Expected, Core
    <3>. QED
      BY <3>2, <3>3
  <2>. QED
    BY <2>1 DEF Right
<1>31. CASE Settle
  BY <1>31 DEF Settle, End, device, job, Right, Expected, Core, Buffered, Backed
<1>32. CASE Crash
  <2>1. lost' = lost \cup Wrong(cell', Expected') /\ ~Buffered'
    BY <1>32 DEF Crash, job, Types, Stages, Buffered, Expected, Core
  <2>2. \A u \in Units \ lost' : At(cell', u, Expected')
    BY <2>1, WrongAt
  <2>. QED
    BY <2>1, <2>2 DEF Right
<1>33. CASE UNCHANGED vars
  <2>1. /\ Expected' = Expected /\ cell' = cell /\ lost' = lost /\ buffer' = buffer
        /\ Buffered' = Buffered /\ Target' = Target /\ Chunk' = Chunk
    BY <1>33 DEF vars, device, ghosts, user, job, locals, Expected, Buffered, Target, Chunk, Work,
       Remaining
  <2>. QED
    BY <2>1 DEF Right
<1>. QED
  BY <1>1, <1>2, <1>3, <1>4, <1>5, <1>6, <1>7, <1>8, <1>9, <1>10, <1>11, <1>12, <1>13, <1>14, <1>15,
     <1>16, <1>17, <1>18, <1>19, <1>20, <1>21, <1>22, <1>23, <1>24, <1>25, <1>26, <1>27, <1>28,
     <1>29, <1>30, <1>31, <1>32, <1>33 DEF Next, TransformThread

\* The backup header follows the length, and is there while it is needed.
LEMMA BackedStep == IInv /\ [Next]_vars => Backed'
<1>. SUFFICES ASSUME IInv, [Next]_vars PROVE Backed'
  OBVIOUS
<1>. USE InPlaceAssumption DEF IInv, Types, Stages, Backed
<1>1. CASE StartDecryption
  BY <1>1 DEF StartDecryption, Start, device, ghosts, locals, Core, Places, Remaining, Whole,
     Behind, Gap
<1>2. ASSUME NEW w \in BOOLEAN, StartEncryption(w) PROVE Backed'
  <2>1. /\ pc' = "begin" /\ cell' = cell /\ lost' = lost /\ backup' = backup
        /\ lost \subseteq Units
        /\ 0 \notin lost /\ \A u \in Units \ lost : cell[u] = Data(u, FALSE, FALSE)
    BY <1>2 DEF StartEncryption, Start, device, ghosts, locals, Visible
  <2>2. ASSUME NEW u \in Units \ lost PROVE cell[u].unit = u /\ cell[u].encrypted = FALSE
    <3>1. cell[u] = Data(u, FALSE, FALSE)
      BY <2>1
    <3>. QED
      BY <3>1 DEF Data
  <2>3. \A u \in Units : Place(u, 0) = u /\ u # u + 1
    BY Placed DEF Units
  <2>4. \A u \in Units \ lost : At(cell, u, 0)
    BY <2>2, <2>3 DEF At
  <2>5. 0 \in Units
    BY DEF Units
  <2>. QED
    BY <2>1, <2>2, <2>4, <2>5, WrongAt DEF Core
<1>3. ASSUME NEW w \in BOOLEAN, NonSysInplaceEncResume(w) PROVE Backed'
  BY <1>3 DEF NonSysInplaceEncResume, Start, device, ghosts, locals, Core, Places, Remaining,
     Whole, Behind, Gap
<1>4. ASSUME NEW m \in {"encrypt", "decrypt"}, NEW w \in BOOLEAN, ResumeInPlaceEnc(m, w) PROVE
   Backed'
  BY <1>4 DEF ResumeInPlaceEnc, Start, device, ghosts, locals, Core, Places, Remaining, Whole,
     Behind, Gap
<1>5. CASE CloseWizard
  BY <1>5 DEF CloseWizard, device, ghosts, job, locals, Core, Places, Remaining, Whole, Behind, Gap
<1>6. CASE NonSysInplaceEncPause
  BY <1>6 DEF NonSysInplaceEncPause, device, ghosts, job, locals, Core, Places, Remaining, Whole,
     Behind, Gap
<1>7. CASE BeginFails
  BY <1>7 DEF BeginFails, End, job, Core, Places, Remaining, Whole, Behind, Gap
<1>8. CASE WriteBackupHeader
  BY <1>8 DEF WriteBackupHeader, Goto, Working, ghosts, user, job, locals, Core, Places, Remaining,
     Whole, Behind, Gap
<1>9. CASE BeginConceals
  BY <1>9 DEF BeginConceals, Goto, Working, ConcealNTFS, ghosts, user, job, locals, Core, Places,
     Remaining, Whole, Behind, Gap
<1>10. CASE ConcealFails
  BY <1>10 DEF ConcealFails, Concealing, End, device, job, Core, Places, Remaining, Whole,
     Behind, Gap
<1>11. CASE ConcealWriteFails
  BY <1>11 DEF ConcealWriteFails, Concealing, Working, ghosts, user, job, Core, Places,
     Remaining, Whole, Behind, Gap
<1>12. CASE Unconceal
  BY <1>12 DEF Unconceal, End, job, Core, Places, Remaining, Whole, Behind, Gap
<1>13. CASE OpenBackupHeader
  BY <1>13 DEF OpenBackupHeader, Goto, device, ghosts, job, Core, Places, Remaining, Whole, Behind,
     Gap
<1>14. CASE OpenFails
  BY <1>14 DEF OpenFails, End, device, job, Core, Places, Remaining, Whole, Behind, Gap
<1>15. CASE ReadChunk
  BY <1>15 DEF ReadChunk, Working, Transformable, AfterRead, device, ghosts, user, job, Core,
     Places, Remaining, Whole, Behind, Gap
<1>16. CASE ZeroUnreadableSectors
  BY <1>16 DEF ZeroUnreadableSectors, Working, Transformable, user, job, locals, Core, Places,
     Remaining, Whole, Behind, Gap
<1>17. CASE DiscardUnreadableSectors
  BY <1>17 DEF DiscardUnreadableSectors, Working, Transformable, device, user, job, Core, Places,
     Remaining, Whole, Behind, Gap
<1>18. CASE ReadFails
  BY <1>18 DEF ReadFails, Working, Transformable, device, ghosts, user, job, locals, Core, Places,
     Remaining, Whole, Behind, Gap
<1>19. CASE WipeChunk
  BY <1>19 DEF WipeChunk, Goto, Working, ghosts, user, job, locals, Core, Places, Remaining, Whole,
     Behind, Gap
<1>20. CASE WriteChunk
  BY <1>20 DEF WriteChunk, Working, ghosts, user, job, Core, Places, Remaining, Whole, Behind, Gap
<1>21. CASE WriteFails
  BY <1>21 DEF WriteFails, Working, user, job, locals, Core, Places, Remaining, Whole, Behind, Gap
<1>22. CASE UndoWrite
  BY <1>22 DEF UndoWrite, Goto, Working, ghosts, user, job, locals, Core, Places, Remaining, Whole,
     Behind, Gap
<1>23. CASE UndoFails
  BY <1>23 DEF UndoFails, Goto, Working, user, job, locals, Core, Places, Remaining, Whole, Behind,
     Gap
<1>24. CASE SaveHeader
  BY <1>24 DEF SaveHeader, Goto, Working, FastVolumeHeaderUpdate, ghosts, user, job, Core, Places,
     Remaining, Whole, Behind, Gap
<1>25. CASE SaveFails
  BY <1>25 DEF SaveFails, Working, device, ghosts, user, job, Core, Places, Remaining, Whole,
     Behind, Gap
<1>26. CASE NextChunk
  BY <1>26 DEF NextChunk, Working, device, ghosts, user, job, Core, Places, Remaining, Whole,
     Behind, Gap
<1>27. CASE LastChunkDone
  BY <1>27 DEF LastChunkDone, Goto, Working, device, ghosts, user, job, locals, Core, Places,
     Remaining, Whole, Behind, Gap
<1>28. CASE UpdateHeader
  BY <1>28 DEF UpdateHeader, Working, FastVolumeHeaderUpdate, ghosts, user, job, locals, Core,
     Places, Remaining, Whole, Behind, Gap
<1>29. CASE WritePrimaryHeader
  BY <1>29 DEF WritePrimaryHeader, Goto, Working, ghosts, user, job, locals, Core, Places,
     Remaining, Whole, Behind, Gap
<1>30. CASE PrimaryHeaderFails
  BY <1>30 DEF PrimaryHeaderFails, Goto, Working, ghosts, user, job, locals, Core, Places,
     Remaining, Whole, Behind, Gap
<1>31. CASE UndoConcealing
  BY <1>31 DEF UndoConcealing, Goto, Working, ConcealNTFS, ghosts, user, job, Core, Places,
     Remaining, Whole, Behind, Gap
<1>32. CASE ClearCiphertext
  BY <1>32 DEF ClearCiphertext, Goto, Working, ghosts, user, job, locals, Core, Places, Remaining,
     Whole, Behind, Gap
<1>33. CASE ClearHeader
  <2>1. NoBackup.length = 0 /\ ~NoBackup.present
    BY DEF NoBackup
  <2>2. length = 0 /\ length' = 0 /\ pc' = "settle"
    BY <1>33 DEF ClearHeader, Goto, Working, ghosts, user, job, locals, Remaining
  <2>. QED
    BY <1>33, <2>1, <2>2 DEF ClearHeader, Core
<1>34. CASE ClearFails
  BY <1>34 DEF ClearFails, Working, device, ghosts, user, job, locals, Core, Places, Remaining,
     Whole, Behind, Gap
<1>35. CASE Close
  BY <1>35 DEF Close, End, FastVolumeHeaderUpdate, device, job, Core, Places, Remaining, Whole,
     Behind, Gap
<1>36. CASE CloseFails
  BY <1>36 DEF CloseFails, End, device, job, Core, Places, Remaining, Whole, Behind, Gap
<1>37. CASE Settle
  BY <1>37 DEF Settle, End, device, job, Core, Places, Remaining, Whole, Behind, Gap
<1>38. CASE Crash
  BY <1>38 DEF Crash, job, Core, Places, Remaining, Whole, Behind, Gap
<1>39. CASE UNCHANGED vars
  BY <1>39 DEF vars, device, ghosts, user, job, locals, Core, Places, Remaining, Whole, Behind, Gap
<1>. QED
  BY <1>1, <1>2, <1>3, <1>4, <1>5, <1>6, <1>7, <1>8, <1>9, <1>10, <1>11, <1>12, <1>13, <1>14,
     <1>15, <1>16, <1>17, <1>18, <1>19, <1>20, <1>21, <1>22, <1>23, <1>24, <1>25, <1>26, <1>27,
     <1>28, <1>29, <1>30, <1>31, <1>32, <1>33, <1>34, <1>35, <1>36, <1>37, <1>38, <1>39 DEF Next,
     TransformThread

\* A primary header is written only when everything is encrypted.
LEMMA WholeStep == IInv /\ [Next]_vars => Whole'
<1>. SUFFICES ASSUME IInv, [Next]_vars PROVE Whole'
  OBVIOUS
<1>. USE InPlaceAssumption DEF IInv, Types, Stages, Whole
<1>1. CASE StartDecryption
  BY <1>1 DEF StartDecryption, Start, device, ghosts, locals, Core, Backed, Remaining
<1>2. ASSUME NEW w \in BOOLEAN, StartEncryption(w) PROVE Whole'
  BY <1>2 DEF StartEncryption, Start, device, ghosts, locals, Core, Backed, Remaining
<1>3. ASSUME NEW w \in BOOLEAN, NonSysInplaceEncResume(w) PROVE Whole'
  BY <1>3 DEF NonSysInplaceEncResume, Start, device, ghosts, locals, Core, Backed, Remaining
<1>4. ASSUME NEW m \in {"encrypt", "decrypt"}, NEW w \in BOOLEAN, ResumeInPlaceEnc(m, w) PROVE
   Whole'
  BY <1>4 DEF ResumeInPlaceEnc, Start, device, ghosts, locals, Core, Backed, Remaining
<1>5. CASE CloseWizard
  BY <1>5 DEF CloseWizard, device, ghosts, job, locals, Core, Backed, Remaining
<1>6. CASE NonSysInplaceEncPause
  BY <1>6 DEF NonSysInplaceEncPause, device, ghosts, job, locals, Core, Backed, Remaining
<1>7. CASE BeginFails
  BY <1>7 DEF BeginFails, End, job, Core, Backed, Remaining
<1>8. CASE WriteBackupHeader
  BY <1>8 DEF WriteBackupHeader, Goto, Working, ghosts, user, job, locals, Core, Backed, Remaining
<1>9. CASE BeginConceals \/ UndoConcealing
  <2>1. 0 \in Cells
    BY DEF Cells
  <2>2. cell'[0].unit = cell[0].unit
    BY <1>9, <2>1, Concealed DEF ConcealNTFS, BeginConceals, UndoConcealing, Goto, Working,
       ConcealNTFS, ghosts, user, job, locals
  <2>. QED
    BY <1>9, <2>2 DEF BeginConceals, UndoConcealing, Goto, Working, ConcealNTFS, ghosts, user, job,
       locals, Core, Backed, Remaining
<1>10. CASE ConcealFails
  BY <1>10 DEF ConcealFails, Concealing, End, device, job, Core, Backed, Remaining
<1>11. CASE ConcealWriteFails \/ Unconceal
  <2>1. cell'[0].unit = cell[0].unit
    BY <1>11, Unmoved
  <2>. QED
    BY <1>11, <2>1 DEF ConcealWriteFails, Unconceal, Concealing, End, Working, ghosts, user, job,
       Core, Backed, Remaining
<1>12. CASE OpenBackupHeader
  BY <1>12 DEF OpenBackupHeader, Goto, device, ghosts, job, Core, Backed, Remaining
<1>13. CASE OpenFails
  BY <1>13 DEF OpenFails, End, device, job, Core, Backed, Remaining
<1>14. CASE ReadChunk
  BY <1>14 DEF ReadChunk, Working, Transformable, AfterRead, device, ghosts, user, job, Core,
     Backed, Remaining
<1>15. CASE ZeroUnreadableSectors
  <2>1. cell'[0] \in {Junk, cell[0]}
    BY <1>15 DEF ZeroUnreadableSectors, Working, Transformable, user, job, locals, Cells
  <2>2. cell'[0].unit = -2 => cell[0].unit = -2
    BY <2>1, Parts
  <2>. QED
    BY <1>15, <2>2 DEF ZeroUnreadableSectors, Working, Transformable, user, job, locals, Core
<1>16. CASE DiscardUnreadableSectors
  BY <1>16 DEF DiscardUnreadableSectors, Working, Transformable, device, user, job, Core, Backed,
     Remaining
<1>17. CASE ReadFails
  BY <1>17 DEF ReadFails, Working, Transformable, device, ghosts, user, job, locals, Core, Backed,
     Remaining
<1>18. CASE WipeChunk \/ WriteFails \/ UndoWrite \/ UndoFails
  <2>1. cell'[0].unit = -2 => cell[0].unit = -2
    <3>1. Buffered /\ (pc # "write" => mode = "encrypt") /\ 0 \in Cells
      BY <1>18 DEF WipeChunk, WriteFails, UndoWrite, UndoFails, Goto, Working, ghosts, user, job,
         locals, Buffered, Cells
    <3>2. PICK where \in SUBSET DOMAIN Writing : cell' = Put(Writing, where)
      BY <1>18, <3>1, Written DEF WipeChunk, WriteFails, UndoWrite, UndoFails, Goto, Working,
         ghosts, user, job, locals, Buffered
    <3>. QED
      BY <3>1, <3>2, Written, Putting
  <2>. QED
    BY <1>18, <2>1 DEF WipeChunk, WriteFails, UndoWrite, UndoFails, Goto, Working, ghosts, user,
       job, locals, Core
<1>19. CASE WriteChunk
  <2>1. cell'[0].unit = -2 => cell[0].unit = -2
    <3>1. Buffered /\ (pc # "write" => mode = "encrypt") /\ 0 \in Cells
      BY <1>19 DEF WriteChunk, Working, ghosts, user, job, Buffered, Cells
    <3>2. PICK where \in SUBSET DOMAIN Writing : cell' = Put(Writing, where)
      BY <1>19, <3>1, Written DEF WriteChunk, Working, ghosts, user, job, Buffered
    <3>. QED
      BY <3>1, <3>2, Written, Putting
  <2>2. cell[0].unit = -2 => 0 \in Target
    <3>1. length \in 0 .. Size /\ Remaining > 0 /\ Work > 0
      BY <1>19, Chunks DEF WriteChunk, Buffered
    <3>2. cell[0].unit = -2 => length = Size
      BY <1>19 DEF WriteChunk, Core
    <3>. QED
      BY <3>1, <3>2, Chunks DEF Remaining
  <2>3. 0 \in Target => cell'[0].unit # -2
    <3>1. Writing = Aimed /\ DOMAIN Aimed = Target /\ 0 \in Cells
      BY <1>19, Written DEF WriteChunk, Buffered, Cells
    <3>. QED
      BY <1>19, <3>1, Written, Putting DEF WriteChunk, Buffered
  <2>. QED
    BY <2>1, <2>2, <2>3
<1>20. CASE SaveHeader
  BY <1>20 DEF SaveHeader, Goto, Working, FastVolumeHeaderUpdate, ghosts, user, job, Core, Backed,
     Remaining
<1>21. CASE SaveFails
  BY <1>21 DEF SaveFails, Working, device, ghosts, user, job, Core, Backed, Remaining
<1>22. CASE NextChunk
  BY <1>22 DEF NextChunk, Working, device, ghosts, user, job, Core, Backed, Remaining
<1>23. CASE LastChunkDone
  BY <1>23 DEF LastChunkDone, Goto, Working, device, ghosts, user, job, locals, Core, Backed,
     Remaining
<1>24. CASE UpdateHeader
  BY <1>24 DEF UpdateHeader, Working, FastVolumeHeaderUpdate, ghosts, user, job, locals, Core,
     Backed, Remaining
<1>25. CASE WritePrimaryHeader
  BY <1>25 DEF WritePrimaryHeader, Goto, Working, ghosts, user, job, locals, Core, Backed, Remaining
<1>26. CASE PrimaryHeaderFails
  BY <1>26 DEF PrimaryHeaderFails, Goto, Working, ghosts, user, job, locals, Core, Backed, Remaining
<1>27. CASE ClearCiphertext
  BY <1>27 DEF ClearCiphertext, Goto, Working, ghosts, user, job, locals, Core, Backed, Remaining
<1>28. CASE ClearHeader
  BY <1>28 DEF ClearHeader, Goto, Working, ghosts, user, job, locals, Core, Backed, Remaining
<1>29. CASE ClearFails
  BY <1>29 DEF ClearFails, Working, device, ghosts, user, job, locals, Core, Backed, Remaining
<1>30. CASE Close
  BY <1>30 DEF Close, End, FastVolumeHeaderUpdate, device, job, Core, Backed, Remaining
<1>31. CASE CloseFails
  BY <1>31 DEF CloseFails, End, device, job, Core, Backed, Remaining
<1>32. CASE Settle
  BY <1>32 DEF Settle, End, device, job, Core, Backed, Remaining
<1>33. CASE Crash
  <2>1. cell'[0].unit = -2 => cell[0].unit = -2
    <3>1. 0 \in Cells
      BY DEF Cells
    <3>2. PICK where \in SUBSET DOMAIN Writing : cell' = Put(Writing, where)
      BY <1>33 DEF Crash, job
    <3>3. CASE Buffered
      BY <3>1, <3>2, <3>3, Written, Putting DEF Buffered
    <3>4. CASE ~Buffered
      <4>1. DOMAIN Writing = {}
        BY <3>4 DEF Writing, Buffered
      <4>. QED
        BY <3>1, <3>2, <4>1, Putting
    <3>. QED
      BY <3>3, <3>4
  <2>. QED
    BY <1>33, <2>1 DEF Crash, job, Core
<1>34. CASE UNCHANGED vars
  BY <1>34 DEF vars, device, ghosts, user, job, locals, Core, Backed, Remaining
<1>. QED
  BY <1>1, <1>2, <1>3, <1>4, <1>5, <1>6, <1>7, <1>8, <1>9, <1>10, <1>11, <1>12, <1>13, <1>14, <1>15,
     <1>16, <1>17, <1>18, <1>19, <1>20, <1>21, <1>22, <1>23, <1>24, <1>25, <1>26, <1>27, <1>28,
     <1>29, <1>30, <1>31, <1>32, <1>33, <1>34 DEF Next, TransformThread

\* A run finishes with both headers written, or with both cleared.
LEMMA FinishedStep == IInv /\ [Next]_vars => Finished'
<1>. SUFFICES ASSUME IInv, [Next]_vars PROVE Finished'
  OBVIOUS
<1>. USE InPlaceAssumption DEF IInv, Types, Stages, Finished
<1>1. CASE StartDecryption
  BY <1>1 DEF StartDecryption, Start, device, ghosts, locals, Core, Backed, Remaining
<1>2. ASSUME NEW w \in BOOLEAN, StartEncryption(w) PROVE Finished'
  BY <1>2 DEF StartEncryption, Start, device, ghosts, locals, Core, Backed, Remaining
<1>3. ASSUME NEW w \in BOOLEAN, NonSysInplaceEncResume(w) PROVE Finished'
  BY <1>3 DEF NonSysInplaceEncResume, Start, device, ghosts, locals, Core, Backed, Remaining
<1>4. ASSUME NEW m \in {"encrypt", "decrypt"}, NEW w \in BOOLEAN, ResumeInPlaceEnc(m, w) PROVE
   Finished'
  BY <1>4 DEF ResumeInPlaceEnc, Start, device, ghosts, locals, Core, Backed, Remaining
<1>5. CASE CloseWizard
  BY <1>5 DEF CloseWizard, device, ghosts, job, locals, Core, Backed, Remaining
<1>6. CASE NonSysInplaceEncPause
  BY <1>6 DEF NonSysInplaceEncPause, device, ghosts, job, locals, Core, Backed, Remaining
<1>7. CASE BeginFails
  BY <1>7 DEF BeginFails, End, job, Core, Backed, Remaining
<1>8. CASE WriteBackupHeader
  BY <1>8 DEF WriteBackupHeader, Goto, Working, ghosts, user, job, locals, Core, Backed, Remaining
<1>9. CASE BeginConceals
  BY <1>9 DEF BeginConceals, Goto, Working, ConcealNTFS, ghosts, user, job, locals, Core, Backed,
     Remaining
<1>10. CASE ConcealFails
  BY <1>10 DEF ConcealFails, Concealing, End, device, job, Core, Backed, Remaining
<1>11. CASE ConcealWriteFails
  BY <1>11 DEF ConcealWriteFails, Concealing, Working, ghosts, user, job, Core, Backed, Remaining
<1>12. CASE Unconceal
  BY <1>12 DEF Unconceal, End, job, Core, Backed, Remaining
<1>13. CASE OpenBackupHeader
  BY <1>13 DEF OpenBackupHeader, Goto, device, ghosts, job, Core, Backed, Remaining
<1>14. CASE OpenFails
  BY <1>14 DEF OpenFails, End, device, job, Core, Backed, Remaining
<1>15. CASE ReadChunk
  BY <1>15 DEF ReadChunk, Working, Transformable, AfterRead, device, ghosts, user, job, Core,
     Backed, Remaining
<1>16. CASE ZeroUnreadableSectors
  BY <1>16 DEF ZeroUnreadableSectors, Working, Transformable, user, job, locals, Core, Backed,
     Remaining
<1>17. CASE DiscardUnreadableSectors
  BY <1>17 DEF DiscardUnreadableSectors, Working, Transformable, device, user, job, Core, Backed,
     Remaining
<1>18. CASE ReadFails
  BY <1>18 DEF ReadFails, Working, Transformable, device, ghosts, user, job, locals, Core, Backed,
     Remaining
<1>19. CASE WipeChunk
  BY <1>19 DEF WipeChunk, Goto, Working, ghosts, user, job, locals, Core, Backed, Remaining
<1>20. CASE WriteChunk
  BY <1>20 DEF WriteChunk, Working, ghosts, user, job, Core, Backed, Remaining
<1>21. CASE WriteFails
  BY <1>21 DEF WriteFails, Working, user, job, locals, Core, Backed, Remaining
<1>22. CASE UndoWrite
  BY <1>22 DEF UndoWrite, Goto, Working, ghosts, user, job, locals, Core, Backed, Remaining
<1>23. CASE UndoFails
  BY <1>23 DEF UndoFails, Goto, Working, user, job, locals, Core, Backed, Remaining
<1>24. CASE SaveHeader
  BY <1>24 DEF SaveHeader, Goto, Working, FastVolumeHeaderUpdate, ghosts, user, job, Core, Backed,
     Remaining
<1>25. CASE SaveFails
  BY <1>25 DEF SaveFails, Working, device, ghosts, user, job, Core, Backed, Remaining
<1>26. CASE NextChunk
  BY <1>26 DEF NextChunk, Working, device, ghosts, user, job, Core, Backed, Remaining
<1>27. CASE LastChunkDone
  BY <1>27 DEF LastChunkDone, Goto, Working, device, ghosts, user, job, locals, Core, Backed,
     Remaining
<1>28. CASE UpdateHeader
  BY <1>28 DEF UpdateHeader, Working, FastVolumeHeaderUpdate, ghosts, user, job, locals, Core,
     Backed, Remaining
<1>29. CASE WritePrimaryHeader
  <2>1. cell'[0] = Header /\ mode = "encrypt" /\ mode' = mode /\ backup' = backup
        /\ pc' = "settle"
    BY <1>29 DEF WritePrimaryHeader, Goto, Working, ghosts, user, job, locals, Cells
  <2>2. backup.present /\ backup.length = Size
    BY <1>29 DEF WritePrimaryHeader, Goto, Working, ghosts, user, job, locals, Backed, Core,
       Remaining
  <2>. QED
    BY <2>1, <2>2, Parts
<1>30. CASE PrimaryHeaderFails
  BY <1>30 DEF PrimaryHeaderFails, Goto, Working, ghosts, user, job, locals, Core, Backed, Remaining
<1>31. CASE UndoConcealing
  <2>1. pc' = "clear" /\ status' = status /\ pc = "finish"
    BY <1>31 DEF UndoConcealing, Goto, Working, ConcealNTFS, ghosts, user, job
  <2>. QED
    BY <2>1
<1>32. CASE ClearCiphertext
  <2>1. cell'[Size] = Junk /\ pc' = "clearHeader" /\ status' = status /\ pc = "clear"
    BY <1>32 DEF ClearCiphertext, Goto, Working, ghosts, user, job, locals, Cells
  <2>. QED
    BY <2>1, Parts
<1>33. CASE ClearHeader
  <2>1. mode' = "decrypt" /\ cell' = cell /\ ~backup'.present
    BY <1>33 DEF ClearHeader, Goto, Working, ghosts, user, job, locals, NoBackup
  <2>. QED
    BY <1>33, <2>1 DEF ClearHeader, Goto
<1>34. CASE ClearFails
  BY <1>34 DEF ClearFails, Working, device, ghosts, user, job, locals, Core, Backed, Remaining
<1>35. CASE Close
  BY <1>35 DEF Close, End, FastVolumeHeaderUpdate, device, job, Core, Backed, Remaining
<1>36. CASE CloseFails
  BY <1>36 DEF CloseFails, End, device, job, Core, Backed, Remaining
<1>37. CASE Settle
  BY <1>37 DEF Settle, End, device, job, Core, Backed, Remaining
<1>38. CASE Crash
  BY <1>38 DEF Crash, job, Core, Backed, Remaining
<1>39. CASE UNCHANGED vars
  BY <1>39 DEF vars, device, ghosts, user, job, locals, Core, Backed, Remaining
<1>. QED
  BY <1>1, <1>2, <1>3, <1>4, <1>5, <1>6, <1>7, <1>8, <1>9, <1>10, <1>11, <1>12, <1>13, <1>14,
     <1>15, <1>16, <1>17, <1>18, <1>19, <1>20, <1>21, <1>22, <1>23, <1>24, <1>25, <1>26, <1>27,
     <1>28, <1>29, <1>30, <1>31, <1>32, <1>33, <1>34, <1>35, <1>36, <1>37, <1>38, <1>39 DEF Next,
     TransformThread

\* The backup header is never far behind.
LEMMA BehindStep == IInv /\ [Next]_vars => Behind'
<1>. SUFFICES ASSUME IInv, [Next]_vars PROVE Behind'
  OBVIOUS
<1>. USE InPlaceAssumption DEF IInv, Types, Stages, Behind
<1>1. CASE StartDecryption
  BY <1>1 DEF StartDecryption, Start, device, ghosts, locals, Core, Backed, Buffered, Remaining,
     Gap, Leftover
<1>2. ASSUME NEW w \in BOOLEAN, StartEncryption(w) PROVE Behind'
  BY <1>2 DEF StartEncryption, Start, device, ghosts, locals, Core, Backed, Buffered, Remaining,
     Gap, Leftover
<1>3. ASSUME NEW w \in BOOLEAN, NonSysInplaceEncResume(w) PROVE Behind'
  BY <1>3 DEF NonSysInplaceEncResume, Start, device, ghosts, locals, Core, Backed, Buffered,
     Remaining, Gap, Leftover
<1>4. ASSUME NEW m \in {"encrypt", "decrypt"}, NEW w \in BOOLEAN, ResumeInPlaceEnc(m, w) PROVE
   Behind'
  BY <1>4 DEF ResumeInPlaceEnc, Start, device, ghosts, locals, Core, Backed, Buffered, Remaining,
     Gap, Leftover
<1>5. CASE CloseWizard
  BY <1>5 DEF CloseWizard, device, ghosts, job, locals, Core, Backed, Buffered, Remaining, Gap,
     Leftover
<1>6. CASE NonSysInplaceEncPause
  BY <1>6 DEF NonSysInplaceEncPause, device, ghosts, job, locals, Core, Backed, Buffered,
     Remaining, Gap, Leftover
<1>7. CASE BeginFails
  BY <1>7 DEF BeginFails, End, job, Core, Backed, Buffered, Remaining, Gap, Leftover
<1>8. CASE WriteBackupHeader
  BY <1>8 DEF WriteBackupHeader, Goto, Working, ghosts, user, job, locals, Core, Backed, Buffered,
     Remaining, Gap, Leftover
<1>9. CASE BeginConceals
  BY <1>9 DEF BeginConceals, Goto, Working, ConcealNTFS, ghosts, user, job, locals, Core, Backed,
     Buffered, Remaining, Gap, Leftover
<1>10. CASE ConcealFails
  BY <1>10 DEF ConcealFails, Concealing, End, device, job, Core, Backed, Buffered, Remaining,
     Gap, Leftover
<1>11. CASE ConcealWriteFails
  BY <1>11 DEF ConcealWriteFails, Concealing, Working, ghosts, user, job, Core, Backed, Buffered,
     Remaining, Gap, Leftover
<1>12. CASE Unconceal
  BY <1>12 DEF Unconceal, End, job, Core, Backed, Buffered, Remaining, Gap, Leftover
<1>13. CASE OpenBackupHeader
  BY <1>13 DEF OpenBackupHeader, Goto, device, ghosts, job, Core, Backed, Buffered, Remaining, Gap,
     Leftover
<1>14. CASE OpenFails
  BY <1>14 DEF OpenFails, End, device, job, Core, Backed, Buffered, Remaining, Gap, Leftover
<1>15. CASE ReadChunk
  BY <1>15 DEF ReadChunk, Working, Transformable, AfterRead, device, ghosts, user, job, Core,
     Backed, Buffered, Remaining, Gap, Leftover
<1>16. CASE ZeroUnreadableSectors
  BY <1>16 DEF ZeroUnreadableSectors, Working, Transformable, user, job, locals, Core, Backed,
     Buffered, Remaining, Gap, Leftover
<1>17. CASE DiscardUnreadableSectors
  BY <1>17 DEF DiscardUnreadableSectors, Working, Transformable, device, user, job, Core, Backed,
     Buffered, Remaining, Gap, Leftover
<1>18. CASE ReadFails
  BY <1>18 DEF ReadFails, Working, Transformable, device, ghosts, user, job, locals, Core, Backed,
     Buffered, Remaining, Gap, Leftover
<1>19. CASE WipeChunk
  BY <1>19 DEF WipeChunk, Goto, Working, ghosts, user, job, locals, Core, Backed, Buffered,
     Remaining, Gap, Leftover
<1>20. CASE WriteChunk
  <2>1. /\ length \in 0 .. Size /\ mode \in {"encrypt", "decrypt"} /\ mode' = mode
        /\ Buffered /\ pc = "write"
        /\ backup' = backup /\ length' = Onward /\ lost' = lost /\ cell' = Put(Aimed, Target)
        /\ sinceUpdate' = sinceUpdate + Work /\ backup.length \in 0 .. Size
        /\ sinceUpdate \in Nat
        /\ pc' = IF sinceUpdate' >= Interval THEN "save" ELSE "next"
        /\ Expected = length /\ Remaining > 0 /\ cell \in [Cells -> Content]
    BY <1>20 DEF WriteChunk, Working, ghosts, user, job, Onward, Buffered, Expected, Core
  <2>2. Work \in 1 .. ChunkSize /\ Work <= Remaining /\ Onward \in 0 .. Size
    BY <2>1, Chunks, Moving
  <2>3. Gap \in Int /\ Gap >= 0 /\ Gap <= sinceUpdate /\ Gap' = Gap + Work
        /\ sinceUpdate < Interval
    BY <2>1, <2>2 DEF Gap, Behind, Buffered, Core, Onward
  <2>4. Gap' >= 0 /\ Gap' <= sinceUpdate' /\ Gap' < Interval + ChunkSize
        /\ (pc' = "next" => sinceUpdate' < Interval)
    BY <2>1, <2>2, <2>3
  <2>5. \A p \in Cells \ Target : cell'[p] = cell[p]
    BY <2>1, Written, Putting
  <2>6. Leftover'
    <3>1. CASE mode = "encrypt"
      <4>. DEFINE u == Size - Onward
      <4>1. u \in Chunk /\ u \in Cells \ Target /\ u \in Units /\ Onward = length + Work
        BY <2>1, <2>2, <3>1, Chunks DEF Onward, Cells, Units, Remaining
      <4>2. Place(u, length) = u /\ Place(u, Onward - 1) = u
        BY <2>1, <2>2, <4>1 DEF Place, Units
      <4>3. u \notin lost => At(cell, u, length)
        BY <2>1, <4>1, <4>2 DEF Right
      <4>4. u \notin lost => At(cell', u, Onward - 1)
        BY <2>5, <4>1, <4>2, <4>3 DEF At
      <4>. QED
        BY <2>1, <3>1, <4>4 DEF Leftover
    <3>2. CASE mode = "decrypt"
      <4>. DEFINE u == Size - Onward - 1
      <4>1. u \in Chunk /\ u + 1 \in Cells \ Target /\ u \in Units /\ Onward = length - Work
        BY <2>1, <2>2, <3>2, Chunks DEF Onward, Cells, Units, Remaining
      <4>2. Place(u, length) = u + 1 /\ Place(u, Onward + 1) = u + 1
        BY <2>1, <2>2, <4>1 DEF Place, Units
      <4>3. u \notin lost => At(cell, u, length)
        BY <2>1, <4>1, <4>2 DEF Right
      <4>4. u \notin lost => At(cell', u, Onward + 1)
        BY <2>5, <4>1, <4>2, <4>3 DEF At
      <4>. QED
        BY <2>1, <3>2, <4>4 DEF Leftover
    <3>. QED
      BY <2>1, <3>1, <3>2
  <2>. QED
    BY <2>1, <2>4, <2>6 DEF Behind, Buffered
<1>21. CASE WriteFails
  BY <1>21 DEF WriteFails, Working, user, job, locals, Core, Backed, Buffered, Remaining, Gap,
     Leftover
<1>22. CASE UndoWrite
  BY <1>22 DEF UndoWrite, Goto, Working, ghosts, user, job, locals, Core, Backed, Buffered,
     Remaining, Gap, Leftover
<1>23. CASE UndoFails
  BY <1>23 DEF UndoFails, Goto, Working, user, job, locals, Core, Backed, Buffered, Remaining, Gap,
     Leftover
<1>24. CASE SaveHeader
  BY <1>24 DEF SaveHeader, Goto, Working, FastVolumeHeaderUpdate, ghosts, user, job, Core, Backed,
     Buffered, Remaining, Gap, Leftover
<1>25. CASE SaveFails
  BY <1>25 DEF SaveFails, Working, device, ghosts, user, job, Core, Backed, Buffered, Remaining,
     Gap, Leftover
<1>26. CASE NextChunk
  BY <1>26 DEF NextChunk, Working, device, ghosts, user, job, Core, Backed, Buffered, Remaining,
     Gap, Leftover
<1>27. CASE LastChunkDone
  BY <1>27 DEF LastChunkDone, Goto, Working, device, ghosts, user, job, locals, Core, Backed,
     Buffered, Remaining, Gap, Leftover
<1>28. CASE UpdateHeader
  BY <1>28 DEF UpdateHeader, Working, FastVolumeHeaderUpdate, ghosts, user, job, locals, Core,
     Backed, Buffered, Remaining, Gap, Leftover
<1>29. CASE WritePrimaryHeader
  BY <1>29 DEF WritePrimaryHeader, Goto, Working, ghosts, user, job, locals, Core, Backed,
     Buffered, Remaining, Gap, Leftover
<1>30. CASE PrimaryHeaderFails
  BY <1>30 DEF PrimaryHeaderFails, Goto, Working, ghosts, user, job, locals, Core, Backed,
     Buffered, Remaining, Gap, Leftover
<1>31. CASE UndoConcealing
  BY <1>31 DEF UndoConcealing, Goto, Working, ConcealNTFS, ghosts, user, job, Core, Backed,
     Buffered, Remaining, Gap, Leftover
<1>32. CASE ClearCiphertext
  BY <1>32 DEF ClearCiphertext, Goto, Working, ghosts, user, job, locals, Core, Backed, Buffered,
     Remaining, Gap, Leftover
<1>33. CASE ClearHeader
  <2>1. NoBackup.length = 0
    BY DEF NoBackup
  <2>2. /\ mode' = "decrypt" /\ length' = 0 /\ backup'.length = 0 /\ pc' = "settle"
        /\ sinceUpdate' = sinceUpdate
    BY <1>33, <2>1 DEF ClearHeader, Goto, Working, ghosts, user, job, locals, Remaining
  <2>3. Gap' = 0
    BY <2>2 DEF Gap
  <2>. QED
    BY <2>2, <2>3 DEF Buffered
<1>34. CASE ClearFails
  BY <1>34 DEF ClearFails, Working, device, ghosts, user, job, locals, Core, Backed, Buffered,
     Remaining, Gap, Leftover
<1>35. CASE Close
  BY <1>35 DEF Close, End, FastVolumeHeaderUpdate, device, job, Core, Backed, Buffered, Remaining,
     Gap, Leftover
<1>36. CASE CloseFails
  BY <1>36 DEF CloseFails, End, device, job, Core, Backed, Buffered, Remaining, Gap, Leftover
<1>37. CASE Settle
  BY <1>37 DEF Settle, End, device, job, Core, Backed, Buffered, Remaining, Gap, Leftover
<1>38. CASE Crash
  BY <1>38 DEF Crash, job, Core, Backed, Buffered, Remaining, Gap, Leftover
<1>39. CASE UNCHANGED vars
  BY <1>39 DEF vars, device, ghosts, user, job, locals, Core, Backed, Buffered, Remaining, Gap,
     Leftover
<1>. QED
  BY <1>1, <1>2, <1>3, <1>4, <1>5, <1>6, <1>7, <1>8, <1>9, <1>10, <1>11, <1>12, <1>13, <1>14,
     <1>15, <1>16, <1>17, <1>18, <1>19, <1>20, <1>21, <1>22, <1>23, <1>24, <1>25, <1>26, <1>27,
     <1>28, <1>29, <1>30, <1>31, <1>32, <1>33, <1>34, <1>35, <1>36, <1>37, <1>38, <1>39 DEF Next,
     TransformThread

-----------------------------------------------------------------------------
(* The concealment *)

\* What is written is concealed only where it is the start of the file system.
LEMMA WrittenVeil ==
    Types /\ Near /\ Buffered /\ (pc # "write" => mode = "encrypt") /\ Prepared /\ ~cut =>
        \A p \in DOMAIN Writing :
            /\ Writing[p].concealed => Writing[p].unit = 0 /\ ~Writing[p].encrypted
            /\ p = 0 /\ Writing[p].unit = 0 => Writing[p].concealed
            /\ mode = "encrypt" => p # 0
<1>. SUFFICES ASSUME Types, Near, Buffered, pc # "write" => mode = "encrypt", Prepared, ~cut,
                     NEW p \in DOMAIN Writing
              PROVE  /\ Writing[p].concealed => Writing[p].unit = 0 /\ ~Writing[p].encrypted
                     /\ p = 0 /\ Writing[p].unit = 0 => Writing[p].concealed
                     /\ mode = "encrypt" => p # 0
  OBVIOUS
<1>. USE InPlaceAssumption
<1>1. /\ p \in Target /\ Target \subseteq Cells /\ Chunk \subseteq Units
      /\ Overwritten \subseteq Chunk
      /\ buffer \in [Chunk -> Content] /\ mode \in {"encrypt", "decrypt"}
      /\ pc = "write" \/ pc = "wipe" \/ pc = "undo"
  BY Written, Chunks DEF Types, Buffered
<1>2. mode = "encrypt" => p # 0
  BY <1>1, Chunks DEF Types, Target, Units
<1>3. CASE pc = "wipe"
  BY <1>1, <1>2, <1>3, Written, Parts DEF Wiped
<1>4. CASE pc = "write" /\ mode = "encrypt"
  <2>1. PICK u \in Chunk : p = u + 1
    BY <1>1, <1>4 DEF Target
  <2>2. Writing[p] = buffer[p - 1] /\ p - 1 = u
    BY <1>1, <1>4, <2>1, Written DEF Aimed, Units
  <2>3. ~buffer[u].concealed
    BY <1>4 DEF Prepared
  <2>. QED
    BY <1>2, <1>4, <2>2, <2>3
<1>5. CASE pc = "write" /\ mode = "decrypt"
  <2>1. p \in Chunk /\ Writing[p] = buffer[p] /\ p # -1
    BY <1>1, <1>5, Written DEF Target, Aimed, Units
  <2>2. /\ buffer[p].concealed <=> buffer[p].unit = 0
        /\ buffer[p].unit \in {-1, p} /\ (buffer[p].unit = p => ~buffer[p].encrypted)
    BY <1>5, <2>1 DEF Prepared, Near
  <2>. QED
    BY <1>5, <2>1, <2>2
<1>6. CASE pc = "undo"
  <2>1. p \in Overwritten /\ Writing[p] = Decrypt(buffer[p]) /\ p \in Chunk /\ mode = "encrypt"
    BY <1>1, <1>6, Written DEF Original
  <2>2. buffer[p] \in Content /\ ~buffer[p].concealed
    BY <1>1, <2>1 DEF Prepared
  <2>3. ~Decrypt(buffer[p]).concealed
    BY <2>2, Ciphered, Parts
  <2>. QED
    BY <1>2, <2>1, <2>3
<1>. QED
  BY <1>1, <1>3, <1>4, <1>5, <1>6

\* Nothing else is ever concealed.
LEMMA ConfinedStep == IInv /\ [Next]_vars => Confined'
<1>. SUFFICES ASSUME IInv, [Next]_vars PROVE Confined'
  OBVIOUS
<1>. USE InPlaceAssumption DEF IInv, Types, Stages, Confined
<1>1. CASE StartDecryption
  BY <1>1 DEF StartDecryption, Start, device, ghosts, locals
<1>2. ASSUME NEW w \in BOOLEAN, StartEncryption(w) PROVE Confined'
  BY <1>2 DEF StartEncryption, Start, device, ghosts, locals
<1>3. ASSUME NEW w \in BOOLEAN, NonSysInplaceEncResume(w) PROVE Confined'
  BY <1>3 DEF NonSysInplaceEncResume, Start, device, ghosts, locals
<1>4. ASSUME NEW m \in {"encrypt", "decrypt"}, NEW w \in BOOLEAN, ResumeInPlaceEnc(m, w) PROVE
   Confined'
  BY <1>4 DEF ResumeInPlaceEnc, Start, device, ghosts, locals
<1>5. CASE CloseWizard
  BY <1>5 DEF CloseWizard, device, ghosts, job, locals
<1>6. CASE NonSysInplaceEncPause
  BY <1>6 DEF NonSysInplaceEncPause, device, ghosts, job, locals
<1>7. CASE BeginFails
  BY <1>7 DEF BeginFails, End, job
<1>8. CASE WriteBackupHeader
  BY <1>8 DEF WriteBackupHeader, Goto, Working, ghosts, user, job, locals
<1>9. CASE BeginConceals \/ UndoConcealing
  <2>1. cell \in [Cells -> Content] /\ 0 \in Cells /\ cut' = cut /\ Fits(cell[0], 0)
    BY <1>9 DEF BeginConceals, UndoConcealing, Goto, Working, ConcealNTFS, ghosts, user, job,
       locals, Cells, Near
  <2>2. cell' = [cell EXCEPT ![0] = Conceal(cell[0])]
    BY <1>9, <2>1 DEF BeginConceals, UndoConcealing, Goto, Working, ConcealNTFS, ghosts, user, job,
       locals
  <2>3. ~cut => (Conceal(cell[0]).concealed => cell[0].unit = 0 /\ ~cell[0].encrypted)
    BY <2>1, Concealed
  <2>. QED
    BY <2>1, <2>2, <2>3, Concealed
<1>10. CASE ConcealFails
  BY <1>10 DEF ConcealFails, Concealing, End, device, job
<1>11. CASE ConcealWriteFails \/ Unconceal
  <2>1. ~cut' => ~cut
    BY <1>11 DEF ConcealWriteFails, Unconceal, End, Working, ghosts
  <2>. QED
    BY <1>11, <2>1, Unmoved
<1>12. CASE OpenBackupHeader
  BY <1>12 DEF OpenBackupHeader, Goto, device, ghosts, job
<1>13. CASE OpenFails
  BY <1>13 DEF OpenFails, End, device, job
<1>14. CASE ReadChunk
  BY <1>14 DEF ReadChunk, Working, Transformable, AfterRead, device, ghosts, user, job
<1>15. CASE ZeroUnreadableSectors
  <2>1. cut' = cut /\ \A p \in Cells : cell'[p] \in {Junk, cell[p]}
    BY <1>15 DEF ZeroUnreadableSectors, Working, Transformable, user, job, locals
  <2>. QED
    BY <2>1, Parts
<1>16. CASE DiscardUnreadableSectors
  BY <1>16 DEF DiscardUnreadableSectors, Working, Transformable, device, user, job
<1>17. CASE ReadFails
  BY <1>17 DEF ReadFails, Working, Transformable, device, ghosts, user, job, locals
<1>18. CASE WipeChunk \/ WriteChunk \/ WriteFails \/ UndoWrite \/ UndoFails
  <2>1. Buffered /\ (pc # "write" => mode = "encrypt") /\ cut' = cut
    BY <1>18 DEF WipeChunk, WriteChunk, WriteFails, UndoWrite, UndoFails, Goto, Working, ghosts,
       user, job, locals, Buffered
  <2>2. PICK where \in SUBSET DOMAIN Writing : cell' = Put(Writing, where)
    BY <1>18, <2>1, Written DEF WipeChunk, WriteChunk, WriteFails, UndoWrite, UndoFails, Goto,
       Working, ghosts, user, job, locals, Buffered
  <2>. QED
    BY <2>1, <2>2, Written, WrittenVeil, Putting
<1>19. CASE SaveHeader
  BY <1>19 DEF SaveHeader, Goto, Working, FastVolumeHeaderUpdate, ghosts, user, job
<1>20. CASE SaveFails
  BY <1>20 DEF SaveFails, Working, device, ghosts, user, job
<1>21. CASE NextChunk
  BY <1>21 DEF NextChunk, Working, device, ghosts, user, job
<1>22. CASE LastChunkDone
  BY <1>22 DEF LastChunkDone, Goto, Working, device, ghosts, user, job, locals
<1>23. CASE UpdateHeader
  BY <1>23 DEF UpdateHeader, Working, FastVolumeHeaderUpdate, ghosts, user, job, locals
<1>24. CASE WritePrimaryHeader
  <2>1. cell \in [Cells -> Content] /\ 0 \in Cells /\ Size \in Cells /\ cut' = cut
    BY <1>24 DEF WritePrimaryHeader, Goto, Working, ghosts, user, job, locals, Cells
  <2>2. cell' = [cell EXCEPT ![0] = Header]
    BY <1>24, <2>1 DEF WritePrimaryHeader, Goto, Working, ghosts, user, job, locals
  <2>. QED
    BY <2>1, <2>2, Parts
<1>25. CASE PrimaryHeaderFails
  <2>1. cell \in [Cells -> Content] /\ 0 \in Cells /\ Size \in Cells /\ cut' = cut
    BY <1>25 DEF PrimaryHeaderFails, Goto, Working, ghosts, user, job, locals, Cells
  <2>2. PICK c \in {cell[0], Header, Junk} : cell' = [cell EXCEPT ![0] = c]
    BY <1>25, <2>1 DEF PrimaryHeaderFails, Goto, Working, ghosts, user, job, locals
  <2>. QED
    BY <2>1, <2>2, Parts
<1>26. CASE ClearCiphertext
  <2>1. cell \in [Cells -> Content] /\ 0 \in Cells /\ Size \in Cells /\ cut' = cut
    BY <1>26 DEF ClearCiphertext, Goto, Working, ghosts, user, job, locals, Cells
  <2>2. cell' = [cell EXCEPT ![Size] = Junk]
    BY <1>26, <2>1 DEF ClearCiphertext, Goto, Working, ghosts, user, job, locals
  <2>. QED
    BY <2>1, <2>2, Parts
<1>27. CASE ClearHeader
  BY <1>27 DEF ClearHeader, Goto, Working, ghosts, user, job, locals
<1>28. CASE ClearFails
  BY <1>28 DEF ClearFails, Working, device, ghosts, user, job, locals
<1>29. CASE Close
  BY <1>29 DEF Close, End, FastVolumeHeaderUpdate, device, job
<1>30. CASE CloseFails
  BY <1>30 DEF CloseFails, End, device, job
<1>31. CASE Settle
  BY <1>31 DEF Settle, End, device, job
<1>32. CASE Crash
  <2>1. PICK where \in SUBSET DOMAIN Writing : cell' = Put(Writing, where)
    BY <1>32 DEF Crash
  <2>2. ~cut' => ~cut
    BY <1>32 DEF Crash
  <2>3. CASE Buffered
    BY <2>1, <2>2, <2>3, Written, WrittenVeil, Putting DEF Buffered
  <2>4. CASE ~Buffered
    <3>1. DOMAIN Writing = {}
      BY <2>4 DEF Writing, Buffered
    <3>. QED
      BY <2>1, <2>2, <3>1, Putting
  <2>. QED
    BY <2>3, <2>4
<1>33. CASE UNCHANGED vars
  BY <1>33 DEF vars, device, ghosts, user, job, locals
<1>. QED
  BY <1>1, <1>2, <1>3, <1>4, <1>5, <1>6, <1>7, <1>8, <1>9, <1>10, <1>11, <1>12, <1>13, <1>14, <1>15,
     <1>16, <1>17, <1>18, <1>19, <1>20, <1>21, <1>22, <1>23, <1>24, <1>25, <1>26, <1>27, <1>28,
     <1>29, <1>30, <1>31, <1>32, <1>33 DEF Next, TransformThread

\* The first cell and the last.
LEMMA AtZero == 0 \in Cells /\ Size \in Cells /\ Size # 0
BY InPlaceAssumption DEF Cells

\* The start of the file system is concealed while it is moved.
LEMMA VeiledStep == IInv /\ [Next]_vars => Veiled'
<1>. SUFFICES ASSUME IInv, [Next]_vars PROVE Veiled'
  OBVIOUS
<1>. USE InPlaceAssumption DEF IInv, Types, Stages, Veiled
<1>1. CASE StartDecryption
  BY <1>1 DEF StartDecryption, Start, device, ghosts, locals, Core, Backed, Buffered, Remaining,
     Whole, ConcealedRight, Finished
<1>2. ASSUME NEW w \in BOOLEAN, StartEncryption(w) PROVE Veiled'
  <2>1. cell[0] = Data(0, FALSE, FALSE) /\ pc = "none" /\ pc' = "begin"
    <3>1. 0 \in Units
      BY DEF Units
    <3>. QED
      BY <1>2, <3>1 DEF StartEncryption, Start, Visible
  <2>2. cell[0].unit = 0 /\ ~cell[0].concealed
    BY <2>1 DEF Data
  <2>. QED
    BY <1>2, <2>1, <2>2 DEF StartEncryption, Start, device, ghosts, locals, Core
<1>3. ASSUME NEW w \in BOOLEAN, NonSysInplaceEncResume(w) PROVE Veiled'
  BY <1>3 DEF NonSysInplaceEncResume, Start, device, ghosts, locals, Core, Backed, Buffered,
     Remaining, Whole, ConcealedRight, Finished
<1>4. ASSUME NEW m \in {"encrypt", "decrypt"}, NEW w \in BOOLEAN, ResumeInPlaceEnc(m, w) PROVE
   Veiled'
  BY <1>4 DEF ResumeInPlaceEnc, Start, device, ghosts, locals, Core, Backed, Buffered, Remaining,
     Whole, ConcealedRight, Finished
<1>5. CASE CloseWizard
  BY <1>5 DEF CloseWizard, device, ghosts, job, locals, Core, Backed, Buffered, Remaining, Whole,
     ConcealedRight, Finished
<1>6. CASE NonSysInplaceEncPause
  BY <1>6 DEF NonSysInplaceEncPause, device, ghosts, job, locals, Core, Backed, Buffered,
     Remaining, Whole, ConcealedRight, Finished
<1>7. CASE BeginFails
  <2>1. ~cut' => ~cut /\ ~backup.present /\ cell[0].unit = 0 /\ ~cell[0].concealed
                 /\ ConcealedRight(cell, backup') /\ backup'.length = 0
    <3>1. pc = "begin" /\ cut' = (cut \/ ~ConcealedRight(cell', backup')) /\ cell' = cell
      BY <1>7 DEF BeginFails, End
    <3>2. ~cut => ~backup.present /\ cell[0].unit = 0 /\ ~cell[0].concealed /\ backup.length = 0
      BY <3>1 DEF Backed
    <3>3. backup' = backup \/ backup'.length = 0
      BY <1>7 DEF BeginFails
    <3>. QED
      BY <3>1, <3>2, <3>3
  <2>2. ~cut' => ~backup'.present
    BY <2>1 DEF ConcealedRight
  <2>. QED
    BY <1>7, <2>2 DEF BeginFails, End, job, Core
<1>8. CASE WriteBackupHeader
  BY <1>8 DEF WriteBackupHeader, Goto, Working, ghosts, user, job, locals, Core, Backed, Buffered,
     Remaining, Whole, ConcealedRight, Finished
<1>9. CASE BeginConceals
  <2>1. cell[0] \in Content /\ cell[0].unit = 0 /\ ~cell[0].encrypted
        /\ cell'[0] = Conceal(cell[0])
    BY <1>9 DEF BeginConceals, Goto, Working, ConcealNTFS, ghosts, user, job, locals, Cells, Near,
       Fits, Backed
  <2>. QED
    BY <1>9, <2>1, Concealed DEF BeginConceals, Goto, Working, ConcealNTFS, ghosts, user, job,
       locals, Core
<1>10. CASE ConcealFails
  BY <1>10 DEF ConcealFails, Concealing, End, device, job, Core, Backed, Buffered, Remaining,
     Whole, ConcealedRight, Finished
<1>11. CASE ConcealWriteFails
  BY <1>11 DEF ConcealWriteFails, Concealing, Working, ghosts, user, job, Core, Backed, Buffered,
     Remaining, Whole, ConcealedRight, Finished
<1>12. CASE Unconceal
  BY <1>12 DEF Unconceal, End, job, Core, Backed, Buffered, Remaining, Whole, ConcealedRight,
     Finished
<1>13. CASE OpenBackupHeader
  BY <1>13 DEF OpenBackupHeader, Goto, device, ghosts, job, Core, Backed, Buffered, Remaining,
     Whole, ConcealedRight, Finished
<1>14. CASE OpenFails
  BY <1>14 DEF OpenFails, End, device, job, Core, Backed, Buffered, Remaining, Whole,
     ConcealedRight, Finished
<1>15. CASE ReadChunk
  BY <1>15 DEF ReadChunk, Working, Transformable, AfterRead, device, ghosts, user, job, Core,
     Backed, Buffered, Remaining, Whole, ConcealedRight, Finished
<1>16. CASE ZeroUnreadableSectors
  <2>1. cell'[0] \in {Junk, cell[0]} /\ pc' = "loop" /\ pc = "loop" /\ status' = status
        /\ cut' = cut
        /\ backup' = backup /\ status # "finished"
    BY <1>16, AtZero DEF ZeroUnreadableSectors, Working, Transformable, user, job, locals
  <2>. QED
    BY <2>1, Parts DEF Core
<1>17. CASE DiscardUnreadableSectors
  BY <1>17 DEF DiscardUnreadableSectors, Working, Transformable, device, user, job, Core, Backed,
     Buffered, Remaining, Whole, ConcealedRight, Finished
<1>18. CASE ReadFails
  BY <1>18 DEF ReadFails, Working, Transformable, device, ghosts, user, job, locals, Core, Backed,
     Buffered, Remaining, Whole, ConcealedRight, Finished
<1>19. CASE WipeChunk \/ WriteChunk \/ WriteFails \/ UndoWrite \/ UndoFails
  <2>1. /\ Buffered /\ (pc # "write" => mode = "encrypt") /\ 0 \in Cells /\ cut' = cut
        /\ backup.present /\ backup' = backup /\ status' = status
        /\ pc' \notin {"none", "begin", "conceal"}
        /\ pc' \notin {"clear", "clearHeader", "settle", "open"} /\ status # "finished"
    BY <1>19, AtZero DEF WipeChunk, WriteChunk, WriteFails, UndoWrite, UndoFails, Goto, Working,
       ghosts, user, job, locals, Buffered, Backed, Core
  <2>2. PICK where \in SUBSET DOMAIN Writing : cell' = Put(Writing, where)
    BY <1>19, <2>1, Written DEF WipeChunk, WriteChunk, WriteFails, UndoWrite, UndoFails, Goto,
       Working, ghosts, user, job, locals, Buffered
  <2>3. ~cut => (cell[0].unit = 0 => cell[0].concealed)
    BY <2>1 DEF Buffered, Core
  <2>4. ~cut => (cell'[0].unit = 0 => cell'[0].concealed)
    BY <2>1, <2>2, <2>3, Written, WrittenVeil, Putting
  <2>. QED
    BY <2>1, <2>4
<1>20. CASE SaveHeader
  BY <1>20 DEF SaveHeader, Goto, Working, FastVolumeHeaderUpdate, ghosts, user, job, Core, Backed,
     Buffered, Remaining, Whole, ConcealedRight, Finished
<1>21. CASE SaveFails
  BY <1>21 DEF SaveFails, Working, device, ghosts, user, job, Core, Backed, Buffered, Remaining,
     Whole, ConcealedRight, Finished
<1>22. CASE NextChunk
  BY <1>22 DEF NextChunk, Working, device, ghosts, user, job, Core, Backed, Buffered, Remaining,
     Whole, ConcealedRight, Finished
<1>23. CASE LastChunkDone
  BY <1>23 DEF LastChunkDone, Goto, Working, device, ghosts, user, job, locals, Core, Backed,
     Buffered, Remaining, Whole, ConcealedRight, Finished
<1>24. CASE UpdateHeader
  BY <1>24 DEF UpdateHeader, Working, FastVolumeHeaderUpdate, ghosts, user, job, locals, Core,
     Backed, Buffered, Remaining, Whole, ConcealedRight, Finished
<1>25. CASE WritePrimaryHeader
  <2>1. cell'[0] = Header /\ pc' = "settle" /\ status' = status /\ pc = "finish"
    BY <1>25, AtZero DEF WritePrimaryHeader, Goto, Working, ghosts, user, job, locals
  <2>. QED
    BY <2>1, Parts DEF Core
<1>26. CASE PrimaryHeaderFails
  <2>1. /\ cell'[0] \in {cell[0], Header, Junk} /\ pc' = "close" /\ status' = status
        /\ pc = "finish"
        /\ cut' = cut /\ backup.present
    BY <1>26, AtZero DEF PrimaryHeaderFails, Goto, Working, ghosts, user, job, locals, Backed, Core
  <2>2. ~cut => (cell[0].unit = 0 => cell[0].concealed)
    BY <2>1 DEF Core
  <2>3. ~cut => (cell'[0].unit = 0 => cell'[0].concealed)
    BY <2>1, <2>2, Parts
  <2>. QED
    BY <2>1, <2>3 DEF Core
<1>27. CASE UndoConcealing
  <2>1. cell[0] \in Content /\ cell'[0] = Conceal(cell[0]) /\ Fits(cell[0], 0) /\ pc' = "clear"
        /\ cut' = cut /\ status' = status /\ pc = "finish"
    BY <1>27 DEF UndoConcealing, Goto, Working, ConcealNTFS, ghosts, user, job, Cells, Near
  <2>2. backup.present /\ (cell[0].unit = 0 => ~cell[0].encrypted)
    BY <2>1 DEF Backed, Core, Fits
  <2>3. ~cut' => (cell[0].concealed <=> cell[0].unit = 0)
    BY <2>1, <2>2 DEF Confined, Core, Cells
  <2>4. ~cut' => ~cell'[0].concealed
    BY <2>1, <2>2, <2>3, Concealed
  <2>. QED
    BY <2>1, <2>4 DEF Core
<1>28. CASE ClearCiphertext
  <2>1. cell'[0] = cell[0] /\ pc' = "clearHeader" /\ status' = status /\ pc = "clear"
        /\ cut' = cut
    BY <1>28, AtZero DEF ClearCiphertext, Goto, Working, ghosts, user, job, locals
  <2>. QED
    BY <2>1 DEF Core
<1>29. CASE ClearHeader
  BY <1>29 DEF ClearHeader, Goto, Working, ghosts, user, job, locals, Core, Backed, Buffered,
     Remaining, Whole, ConcealedRight, Finished
<1>30. CASE ClearFails
  BY <1>30 DEF ClearFails, Working, device, ghosts, user, job, locals, Core, Backed, Buffered,
     Remaining, Whole, ConcealedRight, Finished
<1>31. CASE Close
  BY <1>31 DEF Close, End, FastVolumeHeaderUpdate, device, job, Core, Backed, Buffered, Remaining,
     Whole, ConcealedRight, Finished
<1>32. CASE CloseFails
  BY <1>32 DEF CloseFails, End, device, job, Core, Backed, Buffered, Remaining, Whole,
     ConcealedRight, Finished
<1>33. CASE Settle
  <2>1. /\ pc = "settle" /\ pc' = "none" /\ cell' = cell /\ backup' = backup
        /\ ~cut' => ~cut
    BY <1>33 DEF Settle, End, device, job
  <2>2. ~(backup.present /\ cell[0].unit = 0)
    BY <2>1 DEF Finished
  <2>3. ~cut' => ~cell[0].concealed
    BY <2>1
  <2>. QED
    BY <2>1, <2>2, <2>3 DEF Core
<1>34. CASE Crash
  <2>1. PICK where \in SUBSET DOMAIN Writing : cell' = Put(Writing, where)
    BY <1>34 DEF Crash
  <2>2. /\ 0 \in Cells /\ (~cut' => ~cut /\ ConcealedRight(cell', backup)) /\ backup' = backup
        /\ pc' = "none" /\ status' = "crashed"
    BY <1>34, AtZero DEF Crash
  <2>3. CASE Buffered
    <3>1. pc # "write" => mode = "encrypt"
      BY <2>3 DEF Buffered
    <3>2. ~cut /\ backup.present => (cell[0].unit = 0 => cell[0].concealed)
      BY <2>3 DEF Buffered, Core
    <3>3. ~cut /\ backup.present => (cell'[0].unit = 0 => cell'[0].concealed)
      BY <2>1, <2>2, <2>3, <3>1, <3>2, Written, WrittenVeil, Putting
    <3>. QED
      BY <2>2, <3>3
  <2>4. CASE ~Buffered
    <3>1. DOMAIN Writing = {}
      BY <2>4 DEF Writing, Buffered
    <3>2. cell'[0] = cell[0]
      BY <2>1, <2>2, <3>1, Putting
    <3>3. ~cut' /\ backup.present /\ cell[0].unit = 0 => cell[0].concealed
      <4>1. SUFFICES ASSUME ~cut', backup.present, cell[0].unit = 0, ~cell[0].concealed PROVE FALSE
        OBVIOUS
      <4>2. backup.length = Size
        BY <2>2, <3>2, <4>1 DEF ConcealedRight
      <4>3. pc \in {"conceal", "unconceal", "clear", "clearHeader", "settle", "close"}
        BY <1>34, <2>2, <4>1 DEF Crash, Core, Places
      <4>. QED
        BY <2>2, <4>1, <4>2, <4>3 DEF Backed, Finished, Core, Remaining
    <3>. QED
      BY <2>2, <3>2, <3>3
  <2>. QED
    BY <2>3, <2>4
<1>35. CASE UNCHANGED vars
  BY <1>35 DEF vars, device, ghosts, user, job, locals, Core, Backed, Buffered, Remaining, Whole,
     ConcealedRight, Finished
<1>. QED
  BY <1>1, <1>2, <1>3, <1>4, <1>5, <1>6, <1>7, <1>8, <1>9, <1>10, <1>11, <1>12, <1>13, <1>14,
     <1>15, <1>16, <1>17, <1>18, <1>19, <1>20, <1>21, <1>22, <1>23, <1>24, <1>25, <1>26, <1>27,
     <1>28, <1>29, <1>30, <1>31, <1>32, <1>33, <1>34, <1>35 DEF Next, TransformThread

\* The concealment is undone before the start of the file system is encrypted,
\* and done after it has been decrypted.
LEMMA PreparedStep == IInv /\ [Next]_vars => Prepared'
<1>. SUFFICES ASSUME IInv, [Next]_vars PROVE Prepared'
  OBVIOUS
<1>. USE InPlaceAssumption DEF IInv, Types, Stages, Prepared
<1>1. CASE StartDecryption
  BY <1>1 DEF StartDecryption, Start, device, ghosts, locals, Buffered
<1>2. ASSUME NEW w \in BOOLEAN, StartEncryption(w) PROVE Prepared'
  BY <1>2 DEF StartEncryption, Start, device, ghosts, locals, Buffered
<1>3. ASSUME NEW w \in BOOLEAN, NonSysInplaceEncResume(w) PROVE Prepared'
  BY <1>3 DEF NonSysInplaceEncResume, Start, device, ghosts, locals, Buffered
<1>4. ASSUME NEW m \in {"encrypt", "decrypt"}, NEW w \in BOOLEAN, ResumeInPlaceEnc(m, w) PROVE
   Prepared'
  BY <1>4 DEF ResumeInPlaceEnc, Start, device, ghosts, locals, Buffered
<1>5. CASE CloseWizard
  BY <1>5 DEF CloseWizard, device, ghosts, job, locals, Buffered
<1>6. CASE NonSysInplaceEncPause
  <2>1. cut' = cut /\ (Buffered' => Buffered) /\ buffer' = buffer /\ Chunk' = Chunk /\ mode' = mode
    BY <1>6 DEF NonSysInplaceEncPause, device, ghosts, job, locals, Buffered, Chunk, Work, Remaining
  <2>. QED
    BY <2>1
<1>7. CASE BeginFails
  BY <1>7 DEF BeginFails, End, job, Buffered
<1>8. CASE WriteBackupHeader
  BY <1>8 DEF WriteBackupHeader, Goto, Working, ghosts, user, job, locals, Buffered
<1>9. CASE BeginConceals
  BY <1>9 DEF BeginConceals, Goto, Working, ConcealNTFS, ghosts, user, job, locals, Buffered
<1>10. CASE ConcealFails
  BY <1>10 DEF ConcealFails, Concealing, End, device, job, Buffered
<1>11. CASE ConcealWriteFails
  BY <1>11 DEF ConcealWriteFails, Concealing, Working, ghosts, user, job, Buffered
<1>12. CASE Unconceal
  BY <1>12 DEF Unconceal, End, job, Buffered
<1>13. CASE OpenBackupHeader
  BY <1>13 DEF OpenBackupHeader, Goto, device, ghosts, job, Buffered
<1>14. CASE OpenFails
  BY <1>14 DEF OpenFails, End, device, job, Buffered
<1>15. CASE ReadChunk \/ DiscardUnreadableSectors
  <2>1. /\ length \in 0 .. Size /\ mode \in {"encrypt", "decrypt"} /\ cut' = cut
        /\ Chunk' = Chunk /\ mode' = mode /\ cell \in [Cells -> Content] /\ backup.present
    BY <1>15 DEF ReadChunk, DiscardUnreadableSectors, Working, Transformable, AfterRead, device,
       ghosts, user, job, Chunk, Work, Remaining, Backed, Core
  <2>2. ASSUME NEW u \in Chunk, ~cut
        PROVE  buffer'[u].concealed <=> mode = "decrypt" /\ buffer'[u].unit = 0
    <3>1. u \in Units /\ u \in Cells /\ u + 1 \in Cells /\ (u + 1) - 1 = u /\ u >= 0
          /\ u # u + 1
          /\ (u + 1 = 1 <=> u = 0) /\ u # -1
      BY <2>1, Moving DEF Units, Cells
    <3>2. Fits(cell[u], u) /\ Fits(cell[u + 1], u + 1) /\ cell[u] \in Content
          /\ cell[u + 1] \in Content
      BY <2>1, <3>1 DEF Near
    <3>3. CASE mode = "encrypt"
      <4>1. buffer'[u] = Encrypt(Conceal(cell[u]))
        BY <1>15, <3>3 DEF ReadChunk, DiscardUnreadableSectors, Working, Transformable, AfterRead,
           device, ghosts, user, job, Transformed
      <4>2. Encrypt(Conceal(cell[u])).concealed <=> cell[u].unit = u /\ (cell[u].concealed <=> u # 0)
        BY <3>1, <3>2, Moved
      <4>3. cell[u].unit = u => (cell[u].concealed <=> u = 0)
        BY <1>15, <2>1, <2>2, <3>1 DEF ReadChunk, DiscardUnreadableSectors, Working, Transformable,
           AfterRead, device, ghosts, user, job, Veiled, Confined, Core
      <4>. QED
        BY <3>3, <4>1, <4>2, <4>3
    <3>4. CASE mode = "decrypt"
      <4>1. buffer'[u] \in {Junk, Conceal(Decrypt(cell[u + 1]))}
        BY <1>15, <3>4 DEF ReadChunk, DiscardUnreadableSectors, Working, Transformable, AfterRead,
           device, ghosts, user, job, Transformed
      <4>2. /\ Conceal(Decrypt(cell[u + 1])).concealed
                   <=> cell[u + 1].unit >= 0 /\ cell[u + 1].unit = u /\ (cell[u + 1].concealed <=> u # 0)
            /\ Conceal(Decrypt(cell[u + 1])).unit
                   = IF cell[u + 1].unit >= 0 /\ cell[u + 1].unit = u THEN u ELSE -1
        BY <3>1, <3>2, Moved
      <4>3. cell[u + 1].unit = u => ~cell[u + 1].concealed
        <5>1. cell[u + 1].unit = u => cell[u + 1].encrypted
          BY <3>1, <3>2 DEF Fits
        <5>. QED
          BY <2>2, <3>1, <5>1 DEF Confined
      <4>4. Conceal(Decrypt(cell[u + 1])).concealed <=> Conceal(Decrypt(cell[u + 1])).unit = 0
        BY <3>1, <4>2, <4>3
      <4>. QED
        BY <3>4, <4>1, <4>4, Parts
    <3>. QED
      BY <2>1, <3>3, <3>4
  <2>. QED
    BY <2>1, <2>2
<1>16. CASE ZeroUnreadableSectors
  BY <1>16 DEF ZeroUnreadableSectors, Working, Transformable, user, job, locals, Buffered
<1>17. CASE ReadFails
  BY <1>17 DEF ReadFails, Working, Transformable, device, ghosts, user, job, locals, Buffered
<1>18. CASE WipeChunk \/ WriteFails
  <2>1. cut' = cut /\ (Buffered' => Buffered) /\ buffer' = buffer /\ Chunk' = Chunk /\ mode' = mode
    BY <1>18 DEF WipeChunk, WriteFails, Goto, Working, ghosts, user, job, locals, Buffered, Chunk,
       Work, Remaining
  <2>. QED
    BY <2>1
<1>19. CASE WriteChunk
  BY <1>19 DEF WriteChunk, Working, ghosts, user, job, Buffered
<1>20. CASE UndoWrite
  BY <1>20 DEF UndoWrite, Goto, Working, ghosts, user, job, locals, Buffered
<1>21. CASE UndoFails
  BY <1>21 DEF UndoFails, Goto, Working, user, job, locals, Buffered
<1>22. CASE SaveHeader
  BY <1>22 DEF SaveHeader, Goto, Working, FastVolumeHeaderUpdate, ghosts, user, job, Buffered
<1>23. CASE SaveFails
  BY <1>23 DEF SaveFails, Working, device, ghosts, user, job, Buffered
<1>24. CASE NextChunk
  BY <1>24 DEF NextChunk, Working, device, ghosts, user, job, Buffered
<1>25. CASE LastChunkDone
  BY <1>25 DEF LastChunkDone, Goto, Working, device, ghosts, user, job, locals, Buffered
<1>26. CASE UpdateHeader
  BY <1>26 DEF UpdateHeader, Working, FastVolumeHeaderUpdate, ghosts, user, job, locals, Buffered
<1>27. CASE WritePrimaryHeader
  BY <1>27 DEF WritePrimaryHeader, Goto, Working, ghosts, user, job, locals, Buffered
<1>28. CASE PrimaryHeaderFails
  BY <1>28 DEF PrimaryHeaderFails, Goto, Working, ghosts, user, job, locals, Buffered
<1>29. CASE UndoConcealing
  BY <1>29 DEF UndoConcealing, Goto, Working, ConcealNTFS, ghosts, user, job, Buffered
<1>30. CASE ClearCiphertext
  BY <1>30 DEF ClearCiphertext, Goto, Working, ghosts, user, job, locals, Buffered
<1>31. CASE ClearHeader
  BY <1>31 DEF ClearHeader, Goto, Working, ghosts, user, job, locals, Buffered
<1>32. CASE ClearFails
  BY <1>32 DEF ClearFails, Working, device, ghosts, user, job, locals, Buffered
<1>33. CASE Close
  BY <1>33 DEF Close, End, FastVolumeHeaderUpdate, device, job, Buffered
<1>34. CASE CloseFails
  BY <1>34 DEF CloseFails, End, device, job, Buffered
<1>35. CASE Settle
  BY <1>35 DEF Settle, End, device, job, Buffered
<1>36. CASE Crash
  BY <1>36 DEF Crash, job, Buffered
<1>37. CASE UNCHANGED vars
  <2>1. cut' = cut /\ (Buffered' => Buffered) /\ buffer' = buffer /\ Chunk' = Chunk /\ mode' = mode
    BY <1>37 DEF vars, device, ghosts, user, job, locals, Buffered, Chunk, Work, Remaining
  <2>. QED
    BY <2>1
<1>. QED
  BY <1>1, <1>2, <1>3, <1>4, <1>5, <1>6, <1>7, <1>8, <1>9, <1>10, <1>11, <1>12, <1>13, <1>14,
     <1>15, <1>16, <1>17, <1>18, <1>19, <1>20, <1>21, <1>22, <1>23, <1>24, <1>25, <1>26, <1>27,
     <1>28, <1>29, <1>30, <1>31, <1>32, <1>33, <1>34, <1>35, <1>36, <1>37 DEF Next, TransformThread

-----------------------------------------------------------------------------
(* The invariant *)

\* What a failed concealment has left is what is written back.
LEMMA UndoneStep == IInv /\ [Next]_vars => Undone'
<1>. SUFFICES ASSUME IInv, [Next]_vars, pc' = "unconceal" PROVE Undone'
  BY DEF Undone
<1>1. CASE ConcealWriteFails
  <2>1. buffer'[0] = cell[0] /\ cut' = cut
    BY <1>1 DEF ConcealWriteFails, Working, ghosts
  <2>2. cell[0] \in Content /\ cell'[0].unit = cell[0].unit
        /\ cell'[0].encrypted = cell[0].encrypted
    BY <1>1, Unmoved
  <2>3. ~cut /\ cell[0].concealed => cell[0].unit = 0 /\ ~cell[0].encrypted
    BY <1>1, Unmoved DEF IInv, Confined
  <2>. QED
    BY <2>1, <2>2, <2>3 DEF Undone
<1>2. CASE NonSysInplaceEncPause \/ UNCHANGED vars
  <2>1. pc = "unconceal" /\ cell' = cell /\ buffer' = buffer /\ cut' = cut
    BY <1>2 DEF NonSysInplaceEncPause, vars, device, ghosts, locals
  <2>. QED
    BY <2>1 DEF IInv, Undone
<1>3. CASE \/ StartDecryption
           \/ \E w \in BOOLEAN : StartEncryption(w) \/ NonSysInplaceEncResume(w)
           \/ \E m \in {"encrypt", "decrypt"}, w \in BOOLEAN : ResumeInPlaceEnc(m, w)
           \/ CloseWizard
  BY <1>3 DEF StartDecryption, StartEncryption, NonSysInplaceEncResume, ResumeInPlaceEnc,
     CloseWizard, Start
<1>4. CASE \/ BeginFails \/ WriteBackupHeader \/ BeginConceals \/ ConcealFails \/ Unconceal
           \/ OpenBackupHeader \/ OpenFails
  BY <1>4 DEF BeginFails, WriteBackupHeader, BeginConceals, ConcealFails, Unconceal,
     OpenBackupHeader, OpenFails, End, Goto
<1>5. CASE \/ ReadChunk \/ ZeroUnreadableSectors \/ DiscardUnreadableSectors \/ ReadFails
           \/ WipeChunk \/ WriteChunk \/ WriteFails \/ UndoWrite \/ UndoFails
  BY <1>5 DEF ReadChunk, ZeroUnreadableSectors, DiscardUnreadableSectors, ReadFails, WipeChunk,
     WriteChunk, WriteFails, UndoWrite, UndoFails, AfterRead, Transformable, Goto
<1>6. CASE \/ SaveHeader \/ SaveFails \/ NextChunk \/ LastChunkDone \/ UpdateHeader
           \/ WritePrimaryHeader \/ PrimaryHeaderFails \/ UndoConcealing \/ ClearCiphertext
           \/ ClearHeader \/ ClearFails \/ Close \/ CloseFails \/ Settle \/ Crash
  BY <1>6 DEF SaveHeader, SaveFails, NextChunk, LastChunkDone, UpdateHeader, WritePrimaryHeader,
     PrimaryHeaderFails, UndoConcealing, ClearCiphertext, ClearHeader, ClearFails, Close,
     CloseFails, Settle, Crash, End, Goto
<1>. QED
  BY <1>1, <1>2, <1>3, <1>4, <1>5, <1>6 DEF Next, TransformThread

\* Before its first update of the header a decryption moves only the first units.
LEMMA MountableStep == IInv /\ [Next]_vars => Mountable'
<1>. SUFFICES ASSUME IInv, [Next]_vars, mode' = "decrypt", backup'.length = Size PROVE Mountable'
  BY DEF Mountable
<1>. USE InPlaceAssumption
<1>1. CASE StartDecryption
  <2>1. ~Buffered /\ Expected = Size /\ cell' = cell /\ before' = lost
    BY <1>1 DEF StartDecryption, Start, device, Buffered, Expected, Core
  <2>. QED
    BY <2>1 DEF IInv, Right, Mountable
<1>2. ASSUME NEW w \in BOOLEAN, StartEncryption(w) PROVE FALSE
  BY <1>2 DEF StartEncryption, Start
<1>3. ASSUME NEW m \in {"encrypt", "decrypt"}, NEW w \in BOOLEAN, ResumeInPlaceEnc(m, w)
      PROVE  FALSE
  BY <1>3 DEF ResumeInPlaceEnc, Start, device
<1>4. ASSUME mode = "decrypt", before' = before, cell' = cell, backup' = backup PROVE Mountable'
  BY <1>4 DEF IInv, Mountable
<1>5. CASE (\E w \in BOOLEAN : NonSysInplaceEncResume(w)) \/ CloseWizard \/ NonSysInplaceEncPause
           \/ UNCHANGED vars
  BY <1>4, <1>5 DEF NonSysInplaceEncResume, CloseWizard, NonSysInplaceEncPause, Start, device, job,
     vars
<1>6. CASE \/ BeginFails \/ WriteBackupHeader \/ BeginConceals \/ ZeroUnreadableSectors
           \/ WipeChunk \/ UndoWrite \/ UndoFails \/ WritePrimaryHeader \/ PrimaryHeaderFails
  BY <1>6 DEF BeginFails, WriteBackupHeader, BeginConceals, ZeroUnreadableSectors, WipeChunk,
     UndoWrite, UndoFails, WritePrimaryHeader, PrimaryHeaderFails, End, Goto, Working, job, IInv,
     Stages
<1>7. CASE \/ ConcealFails \/ OpenBackupHeader \/ OpenFails \/ ReadChunk
           \/ DiscardUnreadableSectors \/ ReadFails \/ SaveFails \/ NextChunk \/ LastChunkDone
           \/ ClearFails \/ CloseFails \/ Settle
  BY <1>4, <1>7 DEF ConcealFails, OpenBackupHeader, OpenFails, ReadChunk, DiscardUnreadableSectors,
     ReadFails, SaveFails, NextChunk, LastChunkDone, ClearFails, CloseFails, Settle, End, Working,
     device, job
<1>8. CASE ConcealWriteFails \/ Unconceal \/ UndoConcealing \/ ClearCiphertext \/ ClearHeader
  <2>1. backup'.length = 0
    BY <1>8 DEF ConcealWriteFails, Concealing, Unconceal, UndoConcealing, ConcealNTFS,
       ClearCiphertext, ClearHeader, NoBackup, Goto, IInv, Stages, Backed, Core, Remaining
  <2>. QED
    BY <2>1
<1>9. CASE SaveHeader \/ UpdateHeader \/ Close
  <2>1. /\ pc \in {"save", "update", "close"} /\ cell' = cell /\ mode' = mode
        /\ before' = before /\ backup'.length \in {backup.length, length}
        /\ backup.length \in 0 .. Size /\ length \in 0 .. Size
    BY <1>9 DEF SaveHeader, UpdateHeader, Close, FastVolumeHeaderUpdate, End, Goto, Working,
       device, job, IInv, Types
  <2>2. backup.length = Size
    BY <2>1 DEF IInv, Behind, Gap, Core
  <2>. QED
    BY <2>1, <2>2 DEF IInv, Mountable
<1>10. CASE WriteChunk \/ WriteFails \/ Crash
  <2>1. /\ mode = "decrypt" /\ before' = before /\ backup.length = Size
        /\ length \in 0 .. Size /\ cell \in [Cells -> Content]
    BY <1>10 DEF WriteChunk, WriteFails, Crash, Working, job, IInv, Types
  <2>2. PICK where \in SUBSET DOMAIN Writing : cell' = Put(Writing, where)
    BY <1>10, Written DEF WriteChunk, WriteFails, Crash, Buffered, IInv, Stages
  <2>3. CASE ~Buffered
    <3>1. cell' = cell
      BY <2>1, <2>2, <2>3 DEF Writing, Buffered, Put
    <3>. QED
      BY <2>1, <3>1 DEF IInv, Mountable
  <2>4. CASE Buffered
    <3>1. pc = "write" /\ \A p \in Cells \ Target : cell'[p] = cell[p]
      BY <2>1, <2>2, <2>4, Written, Putting DEF IInv, Stages, Buffered
    <3>2. Target = Size - length .. Size - length + Work - 1 /\ Work \in 0 .. ChunkSize
      BY <2>1, Chunks
    <3>3. Size - length < Interval
      BY <2>1, <2>4 DEF IInv, Types, Behind, Gap, Buffered, Core
    <3>4. ASSUME NEW u \in Units \ before PROVE At(cell', u, Size) \/ u <= Interval + ChunkSize - 3
      <4>1. Place(u, Size) = u + 1 /\ u + 1 \in Cells /\ u \in Int
        BY Placed DEF Units, Cells
      <4>2. CASE u + 1 \in Target
        BY <2>1, <3>2, <3>3, <4>1, <4>2
      <4>3. CASE u + 1 \notin Target
        BY <2>1, <3>1, <4>1, <4>3 DEF IInv, Mountable, At
      <4>. QED
        BY <4>2, <4>3
    <3>. QED
      BY <2>1, <3>4 DEF Mountable
  <2>. QED
    BY <2>3, <2>4
<1>. QED
  BY <1>1, <1>2, <1>3, <1>5, <1>6, <1>7, <1>8, <1>9, <1>10 DEF Next, TransformThread

\* It holds of a partition with a file system, and of an encrypted volume.
LEMMA IInit == Init => IInv
<1>. SUFFICES ASSUME Init PROVE IInv
  OBVIOUS
<1>. USE InPlaceAssumption
<1>1. /\ pc = "none" /\ mode = "encrypt" /\ status = "none" /\ length = 0 /\ lost = {} /\ ~cut
      /\ ~changed /\ sinceUpdate = 0 /\ ~pause /\ bad \subseteq Cells
  BY DEF Init
<1>2. ~Buffered /\ pc \notin Core /\ Expected = backup.length
  BY <1>1 DEF Buffered, Core, Expected
<1>3. /\ backup \in [present : BOOLEAN, length : 0 .. Size, inPlace : BOOLEAN]
      /\ ~backup.present => backup.length = 0
      /\ backup.present => backup.length = Size
  <2>1. 0 \in 0 .. Size /\ Size \in 0 .. Size
    OBVIOUS
  <2>2. NoBackup \in [present : BOOLEAN, length : 0 .. Size, inPlace : BOOLEAN]
    BY <2>1, Zenon DEF NoBackup
  <2>3. [present |-> TRUE, length |-> Size, inPlace |-> FALSE]
           \in [present : BOOLEAN, length : 0 .. Size, inPlace : BOOLEAN]
    BY <2>1, Zenon
  <2>4. backup \in {NoBackup, [present |-> TRUE, length |-> Size, inPlace |-> FALSE]}
    BY DEF Init
  <2>5. ~NoBackup.present /\ NoBackup.length = 0
    BY DEF NoBackup
  <2>6. CASE backup = NoBackup
    BY <2>2, <2>5, <2>6
  <2>7. CASE backup = [present |-> TRUE, length |-> Size, inPlace |-> FALSE]
    BY <2>3, <2>7
  <2>. QED
    BY <2>4, <2>6, <2>7
<1>4. cell = [p \in Cells |-> IF ~backup.present
                              THEN IF p = Size THEN Junk ELSE Data(p, FALSE, FALSE)
                              ELSE IF p = 0 THEN Header ELSE Data(p - 1, TRUE, FALSE)]
  BY DEF Init
<1>5. ASSUME NEW u \in Units, NEW e \in BOOLEAN
      PROVE  /\ Data(u, e, FALSE) \in Content
             /\ Data(u, e, FALSE).unit = u /\ Data(u, e, FALSE).encrypted = e
             /\ ~Data(u, e, FALSE).concealed
  <2>1. u \in -2 .. Size - 1 /\ ~(u < 0) /\ FALSE \in BOOLEAN
    BY DEF Units
  <2>2. Data(u, e, FALSE) \in [unit : -2 .. Size - 1, encrypted : BOOLEAN, concealed : BOOLEAN]
    BY <2>1, Zenon DEF Data
  <2>3. /\ Data(u, e, FALSE).unit = u /\ Data(u, e, FALSE).encrypted = e
        /\ ~Data(u, e, FALSE).concealed
    BY DEF Data
  <2>. QED
    BY <2>1, <2>2, <2>3 DEF Content
<1>6. ASSUME NEW p \in Cells
      PROVE  /\ cell[p] \in Content /\ Fits(cell[p], p) /\ ~cell[p].concealed
             /\ ~backup.present /\ p # Size =>
                   p \in Units /\ cell[p].unit = p /\ cell[p].encrypted = FALSE
             /\ backup.present /\ p # 0 =>
                   p - 1 \in Units /\ cell[p].unit = p - 1 /\ cell[p].encrypted = TRUE
             /\ backup.present /\ p = 0 => cell[p].unit = -2
  <2>1. CASE ~backup.present /\ p = Size
    BY <1>4, <2>1, Parts DEF Fits
  <2>2. CASE ~backup.present /\ p # Size
    <3>1. p \in Units /\ FALSE \in BOOLEAN /\ cell[p] = Data(p, FALSE, FALSE)
      BY <1>4, <2>2 DEF Units, Cells
    <3>. QED
      BY <1>5, <2>2, <3>1 DEF Fits
  <2>3. CASE backup.present /\ p = 0
    BY <1>4, <2>3, Parts DEF Fits
  <2>4. CASE backup.present /\ p # 0
    <3>1. p - 1 \in Units /\ TRUE \in BOOLEAN /\ cell[p] = Data(p - 1, TRUE, FALSE)
      BY <1>4, <2>4 DEF Units, Cells
    <3>. QED
      BY <1>5, <2>4, <3>1 DEF Fits
  <2>. QED
    BY <2>1, <2>2, <2>3, <2>4
<1>7. ASSUME NEW u \in Units PROVE At(cell, u, backup.length)
  <2>1. u \in Cells /\ u + 1 \in Cells /\ u # Size /\ u + 1 # 0 /\ (u + 1) - 1 = u /\ u # u + 1
    BY DEF Units, Cells
  <2>2. CASE ~backup.present
    <3>1. Place(u, backup.length) = u
      BY <1>3, <2>2 DEF Place, Units
    <3>. QED
      BY <1>6, <2>1, <2>2, <3>1 DEF At
  <2>3. CASE backup.present
    <3>1. Place(u, backup.length) = u + 1
      BY <1>3, <2>3 DEF Place, Units
    <3>. QED
      BY <1>6, <2>1, <2>3, <3>1 DEF At
  <2>. QED
    BY <2>2, <2>3
<1>8. 0 \in Cells /\ Size # 0
  BY DEF Cells
<1>9. /\ ~backup.present => cell[0].unit = 0
      /\ backup.present => cell[0].unit = -2
      /\ ~cell[0].concealed
  BY <1>6, <1>8
<1>10. Types
  <2>1. cell \in [Cells -> Content]
    BY <1>4, <1>6
  <2>2. 0 \in 0 .. Size /\ 0 \in Nat /\ {} \subseteq Units
    OBVIOUS
  <2>. QED
    BY <1>1, <1>2, <1>3, <2>1, <2>2 DEF Types, Places
<1>11. Near /\ Confined /\ Prepared
  BY <1>2, <1>6 DEF Near, Confined, Prepared
<1>12. Right
  BY <1>1, <1>2, <1>7 DEF Right
<1>13. Stages /\ Backed /\ Behind
  BY <1>1, <1>2, <1>3 DEF Stages, Backed, Behind, Buffered, Core
<1>14. Whole
  BY <1>2, <1>3, <1>9 DEF Whole
<1>15. Veiled /\ Finished
  BY <1>1, <1>2, <1>3, <1>9 DEF Veiled, Finished, Core
<1>16. Undone /\ Mountable
  BY <1>1 DEF Undone, Mountable
<1>. QED
  BY <1>10, <1>11, <1>12, <1>13, <1>14, <1>15, <1>16 DEF IInv

\* Every step keeps it.
LEMMA IStep == IInv /\ [Next]_vars => IInv'
BY TypesStep, StagesStep, RightStep, BackedStep, WholeStep, BehindStep, ConfinedStep,
   VeiledStep, PreparedStep, UndoneStep, FinishedStep, MountableStep DEF IInv

\* It holds in every behaviour.
LEMMA Invariant == Spec => []IInv
BY IInit, IStep, PTL DEF Spec

-----------------------------------------------------------------------------
(* The theorems *)

\* Between runs the backup header tells where every unit is.
LEMMA Found == IInv => Recoverable
<1>. SUFFICES ASSUME IInv, pc = "none" PROVE Wrong(cell, backup.length) \subseteq lost
  BY DEF Recoverable
<1>1. Expected = backup.length /\ ~Buffered
  BY DEF Expected, Core, Buffered
<1>. QED
  BY <1>1, WrongAt DEF IInv, Right

\* However a run of EncryptPartitionInPlaceResume or DecryptPartitionInPlace
\* ends, by a crash too, the backup header it leaves tells where each unit of
\* the file system is, but for those known to be destroyed: for every size of
\* the volume, of a chunk and of the distance between two updates.
THEOREM HeaderTells == Spec => []Recoverable
BY Invariant, Found, PTL

\* While a volume can be mounted by one of its headers, all of it is encrypted
\* but what was lost: the backup header says so last, and the primary header is
\* written last and overwritten first.  A decryption that was ended before its
\* first update of the backup header has moved the first units only, no more
\* than the interval and one chunk allow.
THEOREM NeverInPart == Spec => []MountedIsWhole
<1>1. ASSUME IInv PROVE MountedIsWhole
  <2>. SUFFICES ASSUME Mounts(backup) \/ cell[0] = Header
                PROVE  Wrong(cell, Size) \subseteq
                           IF mode = "encrypt" THEN lost
                           ELSE before \cup (0 .. Interval + ChunkSize - 3)
    BY DEF MountedIsWhole
  <2>1. backup.length = Size
    BY <1>1, Parts DEF IInv, Backed, Whole, Mounts
  <2>2. CASE mode = "encrypt"
    <3>1. Expected = Size
      BY <1>1, <2>1, <2>2 DEF IInv, Types, Behind, Gap, Expected
    <3>2. ~Buffered
      <4>1. SUFFICES ASSUME Buffered PROVE FALSE
        OBVIOUS
      <4>2. length = Size
        BY <3>1, <4>1 DEF Expected, Buffered, Core
      <4>. QED
        BY <1>1, <2>2, <4>1, <4>2, InPlaceAssumption DEF IInv, Stages, Remaining
    <3>. QED
      BY <1>1, <2>2, <3>1, <3>2, WrongAt DEF IInv, Right
  <2>3. CASE mode = "decrypt"
    <3>1. \A u \in Wrong(cell, Size) \ before : u \in Nat /\ u <= Interval + ChunkSize - 3
      BY <1>1, <2>1, <2>3, WrongAt DEF IInv, Mountable, Units
    <3>. QED
      BY <2>3, <3>1, InPlaceAssumption
  <2>. QED
    BY <1>1, <2>2, <2>3 DEF IInv, Types
<1>. QED
  BY <1>1, Invariant, PTL

\* When a run finishes the volume is encrypted as a whole, or the file system is
\* as it was before any of it was encrypted.
THEOREM CleanFinish == Spec => []FinishedIsClean
<1>1. ASSUME IInv PROVE FinishedIsClean
  <2>. SUFFICES ASSUME status = "finished"
                PROVE
        /\ \A p \in Cells : cell[p].unit >= 0 /\ (IF mode = "encrypt" THEN p - 1 ELSE p) \notin lost
                           => cell[p].encrypted = (mode = "encrypt")
        /\ backup.present = (mode = "encrypt")
        /\ ~cut => \A p \in Cells : ~cell[p].concealed
    BY DEF FinishedIsClean
  <2>. USE InPlaceAssumption
  <2>1. /\ pc = "none" /\ ~Buffered /\ Expected = backup.length
        /\ mode \in {"encrypt", "decrypt"} /\ cell \in [Cells -> Content]
        /\ backup.present \in BOOLEAN
    BY <1>1 DEF IInv, Stages, Buffered, Expected, Core, Types
  <2>2. \A u \in Units \ lost : At(cell, u, backup.length)
    BY <1>1, <2>1 DEF IInv, Right
  <2>3. IF mode = "encrypt" THEN cell[0].unit = -2 /\ backup.present /\ backup.length = Size
                            ELSE cell[Size].unit < 0 /\ ~backup.present /\ backup.length = 0
    BY <1>1 DEF IInv, Finished, Backed
  <2>4. ASSUME NEW p \in Cells, cell[p].unit >= 0,
               (IF mode = "encrypt" THEN p - 1 ELSE p) \notin lost
        PROVE  cell[p].encrypted = (mode = "encrypt")
    <3>1. CASE mode = "encrypt"
      <4>. DEFINE u == p - 1
      <4>1. p # 0
        BY <2>3, <2>4, <3>1
      <4>2. u \in Units \ lost /\ p = u + 1
        BY <2>4, <3>1, <4>1 DEF Units, Cells
      <4>3. Place(u, Size) = u + 1
        BY <4>2 DEF Place, Units
      <4>4. At(cell, u, Size)
        BY <2>2, <2>3, <3>1, <4>2
      <4>. QED
        BY <3>1, <4>2, <4>3, <4>4 DEF At
    <3>2. CASE mode = "decrypt"
      <4>1. p # Size
        <5>1. cell[p].unit \in Int /\ cell[Size].unit < 0
          BY <2>1, <2>3, <2>4, <3>2, Parts
        <5>. QED
          BY <2>4, <5>1
      <4>2. p \in Units \ lost
        BY <2>4, <3>2, <4>1 DEF Units, Cells
      <4>3. Place(p, 0) = p /\ p # p + 1
        BY <4>2 DEF Place, Units
      <4>4. At(cell, p, 0)
        BY <2>2, <2>3, <3>2, <4>2
      <4>. QED
        BY <3>2, <4>3, <4>4 DEF At
    <3>. QED
      BY <2>1, <3>1, <3>2
  <2>5. backup.present = (mode = "encrypt")
    BY <2>1, <2>3
  <2>6. ASSUME ~cut, NEW p \in Cells PROVE ~cell[p].concealed
    <3>1. cell[p].concealed => cell[p].unit = 0 /\ ~cell[p].encrypted /\ cell[p].unit = p
      BY <1>1, <2>6 DEF IInv, Confined, Near, Fits
    <3>2. ~cell[0].concealed
      BY <1>1, <2>6 DEF IInv, Veiled
    <3>. QED
      BY <3>1, <3>2
  <2>. QED
    BY <2>4, <2>5, <2>6
<1>. QED
  BY <1>1, Invariant, PTL

\* An interval has as many elements as it should.
LEMMA Count ==
    ASSUME NEW a \in Int, NEW b \in Int, NEW n \in Nat, b - a + 1 <= n,
           NEW S, \A x \in S : x \in Int /\ a <= x /\ x <= b
    PROVE  Cardinality(S) \in Nat /\ Cardinality(S) <= n
<1>1. S \subseteq a .. b
  OBVIOUS
<1>2. IsFiniteSet(a .. b) /\ Cardinality(a .. b) = (IF a > b THEN 0 ELSE b - a + 1)
  BY FS_Interval
<1>3. Cardinality(S) <= Cardinality(a .. b) /\ Cardinality(S) \in Nat
  BY <1>1, <1>2, FS_Subset, FS_CardinalityType
<1>. QED
  BY <1>2, <1>3

\* A crash between any two steps, also in the midst of writing a chunk, destroys
\* less than what has been written since the last update of the header.
THEOREM CrashIsBounded == Spec => CrashLosesLittle
<1>. USE InPlaceAssumption
<1>1. ASSUME IInv, Crash PROVE Cardinality(lost' \ lost) < Interval + ChunkSize - 1
  <2>1. PICK where \in SUBSET DOMAIN Writing : cell' = Put(Writing, where)
    BY <1>1 DEF Crash
  <2>2. /\ lost' = lost \cup Wrong(cell', backup.length)
        /\ Types /\ Near /\ Stages /\ Right /\ Behind /\ Backed
        /\ backup.length \in 0 .. Size /\ length \in 0 .. Size
        /\ mode \in {"encrypt", "decrypt"}
        /\ sinceUpdate \in Nat /\ pc \in Places
    BY <1>1 DEF Crash, IInv, Types
  <2>3. \A u \in lost' \ lost : u \in Units \ lost /\ ~At(cell', u, backup.length)
    BY <2>2, WrongAt
  <2>4. CASE Buffered
    <3>1. /\ pc # "write" => mode = "encrypt"
          /\ pc \in Core /\ Remaining > 0 /\ Expected = length
      BY <2>2, <2>4 DEF Stages, Buffered, Core, Expected
    <3>2. Work \in 1 .. ChunkSize /\ Work <= Remaining
      BY <2>2, <3>1, Chunks
    <3>3. Gap \in Int /\ 0 <= Gap /\ Gap < Interval
      BY <2>2, <2>4, <3>1 DEF Behind, Gap
    <3>4. \A p \in Cells \ Target : cell'[p] = cell[p]
      BY <2>1, <2>2, <2>4, <3>1, Written, Putting
    <3>5. ASSUME NEW u \in lost' \ lost
          PROVE  u \in 0 .. Size - 1 /\ (Place(u, backup.length) \in Target
                                        \/ Place(u, backup.length) # Place(u, length))
      <4>1. CASE Place(u, length) \in Target
        BY <2>3, <4>1 DEF Units
      <4>2. CASE Place(u, length) \notin Target
        <5>1. At(cell, u, length) /\ u \in Units /\ Place(u, length) \in Cells
          BY <2>2, <2>3, <3>1, <4>2, Placed DEF Right
        <5>2. At(cell', u, length)
          BY <3>4, <4>2, <5>1 DEF At
        <5>. QED
          BY <2>3, <5>1, <5>2 DEF At, Units
      <4>. QED
        BY <4>1, <4>2
    <3>6. CASE mode = "encrypt"
      <4>1. Target = Size - length - Work + 1 .. Size - length /\ Gap = length - backup.length
        BY <2>2, <3>6, Chunks DEF Gap
      <4>. DEFINE a == Size - length - Work + 1
                  b == Size - backup.length - 1
                  n == Interval + ChunkSize - 2
      <4>2. \A u \in lost' \ lost : u \in Int /\ a <= u /\ u <= b
        BY <2>2, <3>2, <3>3, <3>5, <4>1 DEF Place
      <4>3. a \in Int /\ b \in Int /\ n \in Nat /\ b - a + 1 <= n
        BY <2>2, <3>2, <3>3, <4>1
      <4>4. Cardinality(lost' \ lost) \in Nat /\ Cardinality(lost' \ lost) <= n
        <5>. HIDE DEF a, b, n
        <5>. QED
          BY <4>2, <4>3, Count
      <4>. QED
        BY <4>3, <4>4
    <3>7. CASE mode = "decrypt"
      <4>1. Target = Size - length .. Size - length + Work - 1 /\ Gap = backup.length - length
        BY <2>2, <3>7, Chunks DEF Gap
      <4>. DEFINE a == Size - backup.length
                  b == Size - length + Work - 2
                  n == Interval + ChunkSize - 2
      <4>2. \A u \in lost' \ lost : u \in Int /\ a <= u /\ u <= b
        BY <2>2, <3>2, <3>3, <3>5, <4>1 DEF Place
      <4>3. a \in Int /\ b \in Int /\ n \in Nat /\ b - a + 1 <= n
        BY <2>2, <3>2, <3>3, <4>1
      <4>4. Cardinality(lost' \ lost) \in Nat /\ Cardinality(lost' \ lost) <= n
        <5>. HIDE DEF a, b, n
        <5>. QED
          BY <4>2, <4>3, Count
      <4>. QED
        BY <4>3, <4>4
    <3>. QED
      BY <2>2, <3>6, <3>7
  <2>5. CASE ~Buffered
    <3>1. cell' = cell
      <4>1. DOMAIN Writing = {}
        BY <2>5 DEF Writing, Buffered
      <4>. QED
        BY <2>1, <2>2, <4>1 DEF Put, Types
    <3>2. \A u \in Units \ lost : At(cell, u, Expected)
      BY <2>2, <2>5 DEF Right
    <3>3. CASE Expected = backup.length
      <4>1. lost' \ lost = {}
        BY <2>3, <3>1, <3>2, <3>3
      <4>2. Cardinality(lost' \ lost) = 0
        BY <4>1, FS_EmptySet
      <4>. QED
        BY <4>2
    <3>4. CASE Expected # backup.length
      <4>1. pc \in Core /\ Expected = length /\ length # backup.length
        BY <3>4 DEF Expected
      <4>2. pc \in {"loop", "next", "update", "save", "close"}
        BY <2>2, <2>5, <4>1 DEF Backed, Core, Buffered
      <4>3. Gap \in Int /\ Gap > 0 /\ (Gap < Interval \/ (Gap < Interval + ChunkSize
            /\ Leftover))
        BY <2>2, <4>1, <4>2 DEF Behind, Gap
      <4>4. ASSUME NEW u \in lost' \ lost
            PROVE  u \in Units \ lost /\ u \in 0 .. Size - 1 /\ Place(u, backup.length) # Place(u, length)
        BY <2>3, <3>1, <3>2, <4>1 DEF At, Units
      <4>. DEFINE n == Interval + ChunkSize - 2
      <4>5. CASE mode = "encrypt"
        <5>. DEFINE a == IF Gap < Interval THEN Size - length ELSE Size - length + 1
                    b == Size - backup.length - 1
        <5>1. Gap = length - backup.length
          BY <4>5 DEF Gap
        <5>2. ASSUME NEW u \in lost' \ lost PROVE u \in Int /\ a <= u /\ u <= b
          <6>1. u \in Int /\ Size - length <= u /\ u <= b
            BY <2>2, <4>3, <4>4, <5>1 DEF Place
          <6>2. ~(Gap < Interval) => u # Size - length
            <7>1. SUFFICES ASSUME ~(Gap < Interval), u = Size - length PROVE FALSE
              OBVIOUS
            <7>2. At(cell, u, length - 1)
              BY <4>3, <4>4, <4>5, <7>1 DEF Leftover
            <7>3. Place(u, length - 1) = u /\ Place(u, backup.length) = u
              BY <2>2, <4>3, <5>1, <7>1 DEF Place
            <7>. QED
              BY <2>3, <3>1, <7>2, <7>3 DEF At
          <6>. QED
            BY <2>2, <6>1, <6>2
        <5>3. a \in Int /\ b \in Int /\ n \in Nat /\ b - a + 1 <= n
          BY <2>2, <4>3, <5>1
        <5>4. Cardinality(lost' \ lost) \in Nat /\ Cardinality(lost' \ lost) <= n
          <6>. HIDE DEF a, b, n
          <6>. QED
            BY <5>2, <5>3, Count
        <5>. QED
          BY <5>3, <5>4
      <4>6. CASE mode = "decrypt"
        <5>. DEFINE a == Size - backup.length
                    b == IF Gap < Interval THEN Size - length - 1 ELSE Size - length - 2
        <5>1. Gap = backup.length - length
          BY <4>6 DEF Gap
        <5>2. ASSUME NEW u \in lost' \ lost PROVE u \in Int /\ a <= u /\ u <= b
          <6>1. u \in Int /\ a <= u /\ u <= Size - length - 1
            BY <2>2, <4>3, <4>4, <5>1 DEF Place
          <6>2. ~(Gap < Interval) => u # Size - length - 1
            <7>1. SUFFICES ASSUME ~(Gap < Interval), u = Size - length - 1 PROVE FALSE
              OBVIOUS
            <7>2. At(cell, u, length + 1)
              BY <4>3, <4>4, <4>6, <7>1 DEF Leftover
            <7>3. Place(u, length + 1) = u + 1 /\ Place(u, backup.length) = u + 1
              BY <2>2, <4>3, <5>1, <7>1 DEF Place
            <7>. QED
              BY <2>3, <3>1, <7>2, <7>3 DEF At
          <6>. QED
            BY <2>2, <6>1, <6>2
        <5>3. a \in Int /\ b \in Int /\ n \in Nat /\ b - a + 1 <= n
          BY <2>2, <4>3, <5>1
        <5>4. Cardinality(lost' \ lost) \in Nat /\ Cardinality(lost' \ lost) <= n
          <6>. HIDE DEF a, b, n
          <6>. QED
            BY <5>2, <5>3, Count
        <5>. QED
          BY <5>3, <5>4
      <4>. QED
        BY <2>2, <4>5, <4>6
    <3>. QED
      BY <3>3, <3>4
  <2>. QED
    BY <2>4, <2>5
<1>2. IInv /\ [Next]_vars => [Crash => Cardinality(lost' \ lost) < Interval + ChunkSize - 1]_vars
  BY <1>1
<1>. QED
  BY <1>2, Invariant, PTL DEF Spec, CrashLosesLittle
====
