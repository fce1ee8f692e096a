--------------------------- MODULE ServicesProofs --------------------------
(***************************************************************************)
(* Proofs about the parts MCServices brings together: FileProtocol for any *)
(* number of files and handles, RuntimeServices for all variables and      *)
(* attributes, DevicePath for paths of any length, and the four of them as *)
(* one specification.                                                      *)
(***************************************************************************)
EXTENDS MCServices, ProtocolsProofs, FiniteSetTheorems, SequenceTheorems,
        WellFoundedInduction, TLAPS

(* Files.  Inductive is: both what the file system sees of a file and what *)
(* is on the disk have been its contents since it was last closed.         *)

\* The handles name files, and the three tables have an entry for each.
FilesNamed ==
  /\ cache = [f \in FileNames |-> cache[f]]
  /\ disk = [f \in FileNames |-> disk[f]]
  /\ since = [f \in FileNames |-> since[f]]
  /\ handle = [h \in FileHandles |-> handle[h]]
  /\ \A h \in FileHandles : IsOpen(h) => "file" \in DOMAIN handle[h] /\ FileOf(h) \in FileNames

CacheSince == \A f \in FileNames : cache[f] \in since[f]

FileInv == FilesNamed /\ CacheSince /\ ClosedSurvives

\* The fields of the class that are called stand at the places of their services.
LEMMA FileFieldsInPlace == FileBehind("close_") = "Close" /\ FileBehind("delete_") = "Delete"
<1>1. \A i \in DOMAIN FileFields : FileFields[i] = "close_" <=> i = 3
  BY DEF FileFields
<1>2. \A i \in DOMAIN FileFields : FileFields[i] = "delete_" <=> i = 4
  BY DEF FileFields
<1>3. 3 \in DOMAIN FileFields /\ 4 \in DOMAIN FileFields
  BY DEF FileFields
<1>4. (CHOOSE i \in DOMAIN FileFields : FileFields[i] = "close_") = 3
  BY <1>1, <1>3
<1>5. (CHOOSE i \in DOMAIN FileFields : FileFields[i] = "delete_") = 4
  BY <1>2, <1>3
<1>6. FileServices[3] = "Close" /\ FileServices[4] = "Delete"
  BY DEF FileServices
<1> QED BY <1>4, <1>5, <1>6 DEF FileBehind

\* Moving the position of an open handle leaves its file alone.
LEMMA MovesKeepsFiles ==
  ASSUME FilesNamed, NEW h \in FileHandles, NEW position, IsOpen(h), Moves(h, position)
  PROVE  /\ handle' = [g \in FileHandles |-> handle'[g]]
         /\ \A g \in FileHandles : IsOpen(g)' =>
              "file" \in DOMAIN handle'[g] /\ handle'[g].file \in FileNames
<1>1. handle' = [g \in FileHandles |->
                   IF g = h THEN [handle[h] EXCEPT !.position = position] ELSE handle[g]]
  BY DEF Moves, FilesNamed
<1>2. "file" \in DOMAIN [handle[h] EXCEPT !.position = position]
      /\ [handle[h] EXCEPT !.position = position].file = FileOf(h)
  BY DEF FilesNamed, FileOf
<1> QED BY <1>1, <1>2 DEF FilesNamed, IsOpen, FileOf

\* A file that becomes something has been that since.
LEMMA BecomesStep ==
  ASSUME FileInv, NEW f \in FileNames, NEW contents, Becomes(f, contents), UNCHANGED disk
  PROVE  /\ cache' = [g \in FileNames |-> cache'[g]]
         /\ disk' = [g \in FileNames |-> disk'[g]]
         /\ since' = [g \in FileNames |-> since'[g]]
         /\ CacheSince' /\ ClosedSurvives'
BY DEF FileInv, FilesNamed, CacheSince, ClosedSurvives, Becomes

\* A handle that is closed names no file.
LEMMA ClosesKeepsFiles ==
  ASSUME FilesNamed, NEW h \in FileHandles, Closes(h)
  PROVE  /\ handle' = [g \in FileHandles |-> handle'[g]]
         /\ \A g \in FileHandles : IsOpen(g)' =>
              "file" \in DOMAIN handle'[g] /\ handle'[g].file \in FileNames
BY DEF FilesNamed, Closes, IsOpen, FileOf

LEMMA FileInit_Inv == FileInit => FileInv
BY DEF FileInit, FileInv, FilesNamed, CacheSince, ClosedSurvives, IsOpen

LEMMA openStep ==
  ASSUME FileInv, NEW h \in FileHandles, NEW f \in FileNames, NEW mode \in OpenModes,
         open(h, f, mode)
  PROVE  FileInv'
<1>1. /\ handle' = [g \in FileHandles |-> handle'[g]]
      /\ \A g \in FileHandles : IsOpen(g)' =>
           "file" \in DOMAIN handle'[g] /\ handle'[g].file \in FileNames
  BY DEF FileInv, FilesNamed, open, IsOpen, FileOf
<1>2. CASE cache[f] = absent
  BY <1>1, <1>2, BecomesStep DEF FileInv, FilesNamed, FileOf, open
<1>3. CASE cache[f] # absent
  BY <1>1, <1>3 DEF FileInv, FilesNamed, CacheSince, ClosedSurvives, FileOf, open
<1> QED BY <1>2, <1>3

LEMMA closeStep == ASSUME FileInv, NEW h \in FileHandles, close(h) PROVE FileInv'
<1>1. /\ disk' = [disk EXCEPT ![FileOf(h)] = cache[FileOf(h)]]
      /\ since' = [since EXCEPT ![FileOf(h)] = {cache[FileOf(h)]}]
      /\ cache' = cache /\ Closes(h) /\ FileOf(h) \in FileNames
  BY FileFieldsInPlace DEF close, FileSystem, FileInv, FilesNamed
<1>2. /\ handle' = [g \in FileHandles |-> handle'[g]]
      /\ \A g \in FileHandles : IsOpen(g)' =>
           "file" \in DOMAIN handle'[g] /\ handle'[g].file \in FileNames
  BY <1>1, ClosesKeepsFiles DEF FileInv
<1>3. FilesNamed'
  BY <1>1, <1>2 DEF FileInv, FilesNamed, FileOf
<1>4. CacheSince' /\ ClosedSurvives'
  BY <1>1 DEF FileInv, FilesNamed, CacheSince, ClosedSurvives
<1> QED BY <1>3, <1>4 DEF FileInv

LEMMA delete_fileStep == ASSUME FileInv, NEW h \in FileHandles, delete_file(h) PROVE FileInv'
<1> DEFINE gone == Alone(h) /\ "Write" \in handle[h].mode
<1>1. /\ cache' = IF gone THEN [cache EXCEPT ![FileOf(h)] = absent] ELSE cache
      /\ disk' = IF gone THEN [disk EXCEPT ![FileOf(h)] = absent] ELSE disk
      /\ since' = IF gone THEN [since EXCEPT ![FileOf(h)] = {absent}] ELSE since
      /\ Closes(h) /\ FileOf(h) \in FileNames
  BY FileFieldsInPlace DEF delete_file, FileSystem, FileInv, FilesNamed
<1>2. /\ handle' = [g \in FileHandles |-> handle'[g]]
      /\ \A g \in FileHandles : IsOpen(g)' =>
           "file" \in DOMAIN handle'[g] /\ handle'[g].file \in FileNames
  BY <1>1, ClosesKeepsFiles DEF FileInv
<1> HIDE DEF gone
<1>3. FilesNamed'
  BY <1>1, <1>2 DEF FileInv, FilesNamed, FileOf
<1>4. CacheSince' /\ ClosedSurvives'
  BY <1>1 DEF FileInv, FilesNamed, CacheSince, ClosedSurvives
<1> QED BY <1>3, <1>4 DEF FileInv

\* The steps that move the position and write no more than `since` is told of.
LEMMA ReadWriteStep ==
  ASSUME FileInv, NEW h \in FileHandles,
         \/ \E n \in 0 .. VolumeSize : read(h, n) \/ set_position(h, n)
         \/ \E byte \in Bytes : write(h, <<byte>>) \/ write(h, <<byte, byte>>)
  PROVE  FileInv'
<1>1. IsOpen(h) /\ \E position : Moves(h, position)
  BY DEF read, set_position, write
<1>2. /\ handle' = [g \in FileHandles |-> handle'[g]]
      /\ \A g \in FileHandles : IsOpen(g)' =>
           "file" \in DOMAIN handle'[g] /\ handle'[g].file \in FileNames
  BY <1>1, MovesKeepsFiles DEF FileInv
<1>3. FileOf(h) \in FileNames
  BY <1>1 DEF FileInv, FilesNamed
<1>4. CASE UNCHANGED <<cache, disk, since>>
  BY <1>2, <1>4 DEF FileInv, FilesNamed, CacheSince, ClosedSurvives, FileOf
<1>5. CASE UNCHANGED disk /\ \E contents : Becomes(FileOf(h), contents)
  BY <1>2, <1>3, <1>5, BecomesStep DEF FileInv, FilesNamed, FileOf
<1> QED BY <1>4, <1>5 DEF read, set_position, write

LEMMA set_infoStep ==
  ASSUME FileInv, NEW h \in FileHandles, NEW n \in 0 .. VolumeSize, set_info(h, n)
  PROVE  FileInv'
<1>1. FileOf(h) \in FileNames
  BY DEF FileInv, FilesNamed, set_info
<1>2. /\ cache' = [g \in FileNames |-> cache'[g]]
      /\ disk' = [g \in FileNames |-> disk'[g]]
      /\ since' = [g \in FileNames |-> since'[g]]
      /\ CacheSince' /\ ClosedSurvives'
  BY <1>1, BecomesStep DEF set_info
<1> QED BY <1>2 DEF FileInv, FilesNamed, FileOf, IsOpen, set_info

LEMMA WriteBackStep == ASSUME FileInv, NEW f \in FileNames, WriteBack(f) PROVE FileInv'
BY DEF FileInv, FilesNamed, CacheSince, ClosedSurvives, WriteBack, IsOpen, FileOf

LEMMA CrashStep == ASSUME FileInv, Crash PROVE FileInv'
BY DEF FileInv, FilesNamed, CacheSince, ClosedSurvives, Crash, IsOpen, FileOf

\* Every step keeps the invariant, whatever the client, the file system or a crash does.
THEOREM FileInvariance == FileSpec => []FileInv
<1>1. FileInv /\ [FileNext]_file_vars => FileInv'
  <2> SUFFICES ASSUME FileInv, [FileNext]_file_vars PROVE FileInv'
    OBVIOUS
  <2>1. ASSUME NEW h \in FileHandles, NEW f \in FileNames, NEW mode \in OpenModes, open(h, f, mode)
        PROVE  FileInv'
    BY <2>1, openStep
  <2>2. ASSUME NEW h \in FileHandles, close(h) \/ delete_file(h) PROVE FileInv'
    BY <2>2, closeStep, delete_fileStep
  <2>3. ASSUME NEW h \in FileHandles, NEW n \in 0 .. VolumeSize,
               read(h, n) \/ set_position(h, n) \/ set_info(h, n)
        PROVE  FileInv'
    BY <2>3, ReadWriteStep, set_infoStep
  <2>4. ASSUME NEW h \in FileHandles, NEW byte \in Bytes, write(h, <<byte>>) \/ write(h, <<byte, byte>>)
        PROVE  FileInv'
    BY <2>4, ReadWriteStep
  <2>5. ASSUME NEW f \in FileNames, WriteBack(f) PROVE FileInv'
    BY <2>5, WriteBackStep
  <2>6. CASE Crash
    BY <2>6, CrashStep
  <2>7. CASE UNCHANGED file_vars
    BY <2>7 DEF file_vars, FileInv, FilesNamed, CacheSince, ClosedSurvives, IsOpen, FileOf
  <2> QED BY <2>1, <2>2, <2>3, <2>4, <2>5, <2>6, <2>7 DEF FileNext
<1> QED BY <1>1, FileInit_Inv, PTL DEF FileSpec

\* After a crash at any moment a file has what was in it at its last close, or
\* something written later: close is enough to make the writes of a client durable.
THEOREM ClosedIsDurable == FileSpec => []ClosedSurvives
BY FileInvariance, PTL DEF FileInv

-----------------------------------------------------------------------------
(* The types of what is stored.  Inductive with them is: a file that a     *)
(* handle is open on is there, so that what it holds is bytes.             *)

OpenIsThere == \A h \in FileHandles : IsOpen(h) => cache[FileOf(h)] # absent

FileTyped == FileTypeOK /\ OpenIsThere

\* What a file can be: nothing, or as many bytes as the volume has room for.
LEMMA ContentsMember ==
  \A c : c \in Contents <=> c = absent \/ \E n \in 0 .. VolumeSize : c \in [1 .. n -> Bytes]
<1> DEFINE stored == UNION {[1 .. n -> Bytes] : n \in 0 .. VolumeSize}
<1>1. \A c : c \in stored <=> \E n \in 0 .. VolumeSize : c \in [1 .. n -> Bytes]
  OBVIOUS
<1>2. Contents = stored \cup {absent}
  BY DEF Contents
<1> HIDE DEF stored
<1> QED BY <1>1, <1>2

\* The bytes of a file that is there.
LEMMA ContentsBytes ==
  ASSUME NEW contents \in Contents, contents # absent
  PROVE  /\ contents \in Seq(Bytes) /\ Len(contents) \in 0 .. VolumeSize
         /\ contents \in [1 .. Len(contents) -> Bytes]
<1>1. PICK n \in 0 .. VolumeSize : contents \in [1 .. n -> Bytes]
  BY ContentsMember
<1>2. n \in Nat
  BY VolumeAssumption
<1>3. contents \in Seq(Bytes) /\ Len(contents) = n
  BY <1>1, <1>2
<1> QED BY <1>1, <1>3

\* Bytes that fit on the volume are the contents of a file that is there.
LEMMA BytesContents ==
  ASSUME NEW n \in 0 .. VolumeSize, NEW contents \in [1 .. n -> Bytes]
  PROVE  contents \in Contents /\ contents # absent
BY AbsentAssumption, ContentsMember

\* A write makes contents of contents, of the length the volume allows.
LEMMA OverwrittenContents ==
  ASSUME NEW contents \in Contents, contents # absent,
         NEW position \in 0 .. Len(contents), NEW data \in Seq(Bytes)
  PROVE  Overwritten(contents, position, data) \in Contents \ {absent}
<1>1. /\ Len(contents) \in 0 .. VolumeSize /\ contents \in [1 .. Len(contents) -> Bytes]
      /\ VolumeSize \in Nat /\ Len(contents) \in Nat /\ position \in Nat
      /\ Len(data) \in Nat /\ data \in [1 .. Len(data) -> Bytes]
  BY ContentsBytes, VolumeAssumption
<1> DEFINE room == Least(Len(data), VolumeSize - position)
           end == position + room
           longest == IF end > Len(contents) THEN end ELSE Len(contents)
           new == [i \in 1 .. longest |->
                     IF i > position /\ i <= end THEN data[i - position] ELSE contents[i]]
<1>2. room \in 0 .. Len(data) /\ end \in 0 .. VolumeSize /\ position <= end
  BY <1>1 DEF Least
<1>3. longest \in 0 .. VolumeSize
  BY <1>1, <1>2
<1>4. ASSUME NEW i \in 1 .. longest
      PROVE  (IF i > position /\ i <= end THEN data[i - position] ELSE contents[i]) \in Bytes
  <2>1. CASE i > position /\ i <= end
    <3>1. i - position \in 1 .. Len(data)
      BY <1>1, <1>2, <2>1
    <3> QED BY <1>1, <2>1, <3>1
  <2>2. CASE ~(i > position /\ i <= end)
    <3>1. i \in 1 .. Len(contents)
      BY <1>1, <1>2, <2>2
    <3> QED BY <1>1, <2>2, <3>1
  <2> QED BY <2>1, <2>2
<1>5. new \in [1 .. longest -> Bytes]
  BY <1>4
<1>6. Overwritten(contents, position, data) = new
  BY DEF Overwritten
<1> QED BY <1>3, <1>5, <1>6, BytesContents

LEMMA FileInit_Typed == FileInit => FileTyped
<1>1. absent \in Contents /\ {absent} \in SUBSET Contents
  BY ContentsMember
<1> QED BY <1>1 DEF FileInit, FileTyped, FileTypeOK, OpenIsThere, IsOpen

\* An open handle is a record, with a position in the volume.
LEMMA OpenHandle ==
  ASSUME FileTyped, NEW h \in FileHandles, IsOpen(h)
  PROVE  /\ handle[h] \in [file : FileNames, mode : OpenModes, position : 0 .. VolumeSize]
         /\ FileOf(h) \in FileNames
         /\ cache[FileOf(h)] \in Contents /\ cache[FileOf(h)] # absent
         /\ cache[FileOf(h)] \in Seq(Bytes) /\ Len(cache[FileOf(h)]) \in 0 .. VolumeSize
<1>1. /\ handle[h] \in [file : FileNames, mode : OpenModes, position : 0 .. VolumeSize]
      /\ FileOf(h) \in FileNames
  BY DEF FileTyped, FileTypeOK, IsOpen, FileOf
<1>2. cache[FileOf(h)] \in Contents /\ cache[FileOf(h)] # absent
  BY <1>1 DEF FileTyped, FileTypeOK, OpenIsThere
<1> QED BY <1>1, <1>2, ContentsBytes

\* A handle that moves stays where it is open.
LEMMA MovesTyped ==
  ASSUME FileTyped, NEW h \in FileHandles, IsOpen(h), NEW position \in 0 .. VolumeSize,
         Moves(h, position)
  PROVE  /\ handle' \in [FileHandles -> [file : FileNames, mode : OpenModes,
                                         position : 0 .. VolumeSize] \cup {closed}]
         /\ \A g \in FileHandles : handle'[g] # closed => IsOpen(g) /\ handle'[g].file = FileOf(g)
<1> DEFINE new == [handle[h] EXCEPT !.position = position]
<1>1. new \in [file : FileNames, mode : OpenModes, position : 0 .. VolumeSize]
      /\ new.file = FileOf(h)
  BY OpenHandle DEF FileOf
<1>2. handle' = [handle EXCEPT ![h] = new]
  BY DEF Moves
<1> HIDE DEF new
<1> QED BY <1>1, <1>2 DEF FileTyped, FileTypeOK, IsOpen, FileOf

\* A file that becomes contents is there.
LEMMA BecomesTyped ==
  ASSUME FileTyped, NEW f \in FileNames, NEW contents \in Contents \ {absent},
         Becomes(f, contents)
  PROVE  /\ cache' \in [FileNames -> Contents]
         /\ since' \in [FileNames -> SUBSET Contents]
         /\ \A g \in FileNames : cache[g] # absent \/ g = f => cache'[g] # absent
BY DEF FileTyped, FileTypeOK, Becomes

LEMMA openTyped ==
  ASSUME FileTyped, NEW h \in FileHandles, NEW f \in FileNames, NEW mode \in OpenModes,
         open(h, f, mode)
  PROVE  FileTyped'
<1> DEFINE new == [file |-> f, mode |-> mode, position |-> 0]
<1>1. /\ new \in [file : FileNames, mode : OpenModes, position : 0 .. VolumeSize]
      /\ new.file = f
  BY VolumeAssumption
<1>2. handle' = [handle EXCEPT ![h] = new] /\ UNCHANGED disk
  BY DEF open
<1> HIDE DEF new
<1>3. /\ cache' \in [FileNames -> Contents]
      /\ since' \in [FileNames -> SUBSET Contents]
      /\ \A g \in FileNames : cache[g] # absent \/ g = f => cache'[g] # absent
  <2>1. CASE cache[f] = absent
    <3>1. <<>> \in Contents \ {absent}
      <4>1. 0 \in 0 .. VolumeSize /\ <<>> \in [1 .. 0 -> Bytes]
        BY VolumeAssumption
      <4> QED BY <4>1, BytesContents
    <3> QED BY <2>1, <3>1, BecomesTyped DEF open
  <2>2. CASE cache[f] # absent
    BY <2>2 DEF open, FileTyped, FileTypeOK
  <2> QED BY <2>1, <2>2
<1>4. handle' \in [FileHandles -> [file : FileNames, mode : OpenModes,
                                   position : 0 .. VolumeSize] \cup {closed}]
  BY <1>1, <1>2 DEF FileTyped, FileTypeOK
<1>5. OpenIsThere'
  BY <1>1, <1>2, <1>3 DEF OpenIsThere, FileTyped, FileTypeOK, IsOpen, FileOf
<1> QED BY <1>2, <1>3, <1>4, <1>5 DEF FileTyped, FileTypeOK

LEMMA closeTyped == ASSUME FileTyped, NEW h \in FileHandles, close(h) PROVE FileTyped'
<1>1. /\ disk' = [disk EXCEPT ![FileOf(h)] = cache[FileOf(h)]]
      /\ since' = [since EXCEPT ![FileOf(h)] = {cache[FileOf(h)]}]
      /\ cache' = cache /\ handle' = [handle EXCEPT ![h] = closed]
  BY FileFieldsInPlace DEF close, FileSystem, Closes
<1>2. cache[FileOf(h)] \in Contents
  BY OpenHandle DEF close
<1>3. FileTypeOK'
  BY <1>1, <1>2 DEF FileTyped, FileTypeOK
<1>4. OpenIsThere'
  BY <1>1 DEF OpenIsThere, FileTyped, FileTypeOK, IsOpen, FileOf
<1> QED BY <1>3, <1>4 DEF FileTyped

LEMMA delete_fileTyped == ASSUME FileTyped, NEW h \in FileHandles, delete_file(h) PROVE FileTyped'
<1> DEFINE gone == Alone(h) /\ "Write" \in handle[h].mode
<1>1. /\ cache' = IF gone THEN [cache EXCEPT ![FileOf(h)] = absent] ELSE cache
      /\ disk' = IF gone THEN [disk EXCEPT ![FileOf(h)] = absent] ELSE disk
      /\ since' = IF gone THEN [since EXCEPT ![FileOf(h)] = {absent}] ELSE since
      /\ handle' = [handle EXCEPT ![h] = closed]
  BY FileFieldsInPlace DEF delete_file, FileSystem, Closes
<1>2. absent \in Contents
  BY ContentsMember
<1>3. FileTypeOK'
  <2> HIDE DEF gone
  <2> QED BY <1>1, <1>2 DEF FileTyped, FileTypeOK
<1>4. OpenIsThere'
  BY <1>1 DEF OpenIsThere, FileTyped, FileTypeOK, IsOpen, FileOf, Alone
<1> QED BY <1>3, <1>4 DEF FileTyped

\* Steps through a handle that only move it.
LEMMA MoveStepTyped ==
  ASSUME FileTyped, NEW h \in FileHandles, NEW n \in 0 .. VolumeSize,
         read(h, n) \/ set_position(h, n)
  PROVE  FileTyped'
<1>1. IsOpen(h) /\ UNCHANGED <<cache, disk, since>>
  BY DEF read, set_position
<1>2. PICK position \in 0 .. VolumeSize : Moves(h, position)
  <2>1. /\ Len(cache[FileOf(h)]) \in 0 .. VolumeSize /\ handle[h].position \in 0 .. VolumeSize
    BY <1>1, OpenHandle
  <2>2. Least(handle[h].position + n, Len(cache[FileOf(h)])) \in 0 .. VolumeSize
    BY <2>1, VolumeAssumption DEF Least
  <2> QED BY <2>2 DEF read, set_position
<1>3. FileTypeOK'
  BY <1>1, <1>2, MovesTyped DEF FileTyped, FileTypeOK
<1>4. OpenIsThere'
  BY <1>1, <1>2, MovesTyped DEF FileTyped, OpenIsThere, IsOpen, FileOf
<1> QED BY <1>3, <1>4 DEF FileTyped

LEMMA writeTyped ==
  ASSUME FileTyped, NEW h \in FileHandles, NEW buffer \in Seq(Bytes), write(h, buffer)
  PROVE  FileTyped'
<1>1. IsOpen(h) /\ handle[h].position <= Len(cache[FileOf(h)]) /\ UNCHANGED disk
  BY DEF write
<1>2. /\ FileOf(h) \in FileNames /\ handle[h].position \in 0 .. VolumeSize
      /\ cache[FileOf(h)] \in Contents /\ cache[FileOf(h)] # absent
      /\ Len(cache[FileOf(h)]) \in 0 .. VolumeSize
  BY <1>1, OpenHandle
<1> DEFINE new == Overwritten(cache[FileOf(h)], handle[h].position, buffer)
           position == Least(handle[h].position + Len(buffer), VolumeSize)
<1>3. new \in Contents \ {absent}
  <2>1. handle[h].position \in 0 .. Len(cache[FileOf(h)])
    BY <1>1, <1>2, VolumeAssumption
  <2> QED BY <1>2, <2>1, OverwrittenContents
<1>4. position \in 0 .. VolumeSize
  BY <1>2, VolumeAssumption DEF Least
<1>5. Becomes(FileOf(h), new) /\ Moves(h, position)
  BY DEF write
<1> HIDE DEF new, position
<1>6. FileTypeOK'
  BY <1>1, <1>2, <1>3, <1>4, <1>5, BecomesTyped, MovesTyped DEF FileTyped, FileTypeOK
<1>7. OpenIsThere'
  <2>1. \A g \in FileHandles : handle'[g] # closed => IsOpen(g) /\ handle'[g].file = FileOf(g)
    BY <1>1, <1>4, <1>5, MovesTyped
  <2>2. \A f \in FileNames : cache[f] # absent => cache'[f] # absent
    BY <1>2, <1>3, <1>5, BecomesTyped
  <2>3. \A g \in FileHandles : IsOpen(g) => FileOf(g) \in FileNames /\ cache[FileOf(g)] # absent
    BY OpenHandle
  <2> QED BY <2>1, <2>2, <2>3 DEF OpenIsThere, IsOpen, FileOf
<1> QED BY <1>6, <1>7 DEF FileTyped

LEMMA set_infoTyped ==
  ASSUME FileTyped, NEW h \in FileHandles, NEW n \in 0 .. VolumeSize, set_info(h, n)
  PROVE  FileTyped'
<1>1. IsOpen(h) /\ n <= Len(cache[FileOf(h)]) /\ UNCHANGED <<disk, handle>>
  BY DEF set_info
<1>2. /\ FileOf(h) \in FileNames /\ cache[FileOf(h)] \in Seq(Bytes)
      /\ Len(cache[FileOf(h)]) \in 0 .. VolumeSize
  BY <1>1, OpenHandle
<1> DEFINE new == SubSeq(cache[FileOf(h)], 1, n)
<1>3. new \in Contents \ {absent}
  <2> DEFINE old == cache[FileOf(h)]
  <2>1. n \in Int /\ n <= Len(old) /\ old \in Seq(Bytes)
    BY <1>1, <1>2, VolumeAssumption
  <2>2. \A i \in 1 .. n : old[i] \in Bytes
    BY <1>2, <2>1, ElementOfSeq
  <2> HIDE DEF old
  <2>3. new = [i \in 1 .. n |-> old[i]]
    BY <2>1 DEF old
  <2>4. new \in [1 .. n -> Bytes]
    BY <2>2, <2>3
  <2> QED BY <2>4, BytesContents
<1>4. Becomes(FileOf(h), new)
  BY DEF set_info
<1> HIDE DEF new
<1>5. FileTypeOK'
  BY <1>1, <1>2, <1>3, <1>4, BecomesTyped DEF FileTyped, FileTypeOK
<1>6. OpenIsThere'
  <2>1. \A f \in FileNames : cache[f] # absent => cache'[f] # absent
    BY <1>2, <1>3, <1>4, BecomesTyped
  <2>2. \A g \in FileHandles : IsOpen(g) => FileOf(g) \in FileNames /\ cache[FileOf(g)] # absent
    BY OpenHandle
  <2> QED BY <1>1, <2>1, <2>2 DEF OpenIsThere, IsOpen, FileOf
<1> QED BY <1>5, <1>6 DEF FileTyped

LEMMA FileTypedStep == FileTyped /\ [FileNext]_file_vars => FileTyped'
<1> SUFFICES ASSUME FileTyped, [FileNext]_file_vars PROVE FileTyped'
  OBVIOUS
<1>1. ASSUME NEW h \in FileHandles, NEW n \in 0 .. VolumeSize,
             read(h, n) \/ set_position(h, n) \/ set_info(h, n)
      PROVE  FileTyped'
  BY <1>1, MoveStepTyped, set_infoTyped
<1>2. ASSUME NEW h \in FileHandles, NEW byte \in Bytes, write(h, <<byte>>) \/ write(h, <<byte, byte>>)
      PROVE  FileTyped'
  <2>1. <<byte>> \in Seq(Bytes) /\ <<byte, byte>> \in Seq(Bytes)
    OBVIOUS
  <2> QED BY <1>2, <2>1, writeTyped
<1>3. ASSUME NEW f \in FileNames, WriteBack(f) PROVE FileTyped'
  BY <1>3 DEF WriteBack, FileTyped, FileTypeOK, OpenIsThere, IsOpen, FileOf
<1>4. CASE Crash
  BY <1>4 DEF Crash, FileTyped, FileTypeOK, OpenIsThere, IsOpen, FileOf
<1>5. CASE UNCHANGED file_vars
  BY <1>5 DEF file_vars, FileTyped, FileTypeOK, OpenIsThere, IsOpen, FileOf
<1> QED BY <1>1, <1>2, <1>3, <1>4, <1>5, openTyped, closeTyped, delete_fileTyped DEF FileNext

\* Files are bytes within the volume, positions lie in the volume, and no handle is open on
\* a file that is deleted: read and write find bytes behind every open handle.
THEOREM FilesTyped == FileSpec => []FileTyped
BY FileInit_Typed, FileTypedStep, PTL DEF FileSpec

-----------------------------------------------------------------------------
(* Variables.  Inductive is: the client's ledgers are the store and the    *)
(* alarm, which the methods can read back as far as they are visible.      *)

LedgersAgree ==
  /\ store \in [Names -> Variable \cup {nullptr}]
  /\ written = store
  /\ asked = alarm

\* The fields of the class that are called stand at the places of their services.
LEMMA RuntimeFieldsInPlace ==
  /\ RuntimeBehind("get_next_variable_name_") = "GetNextVariableName"
  /\ RuntimeBehind("set_variable_") = "SetVariable"
  /\ RuntimeBehind("get_variable_") = "GetVariable"
  /\ RuntimeBehind("set_wakeup_time_") = "SetWakeupTime"
  /\ RuntimeBehind("get_wakeup_time_") = "GetWakeupTime"
  /\ RuntimeBehind("set_virtual_address_map_") = "SetVirtualAddressMap"
  /\ RuntimeBehind("reset_system_") = "ResetSystem"
<1>1. \A i \in DOMAIN RuntimeFields :
        /\ RuntimeFields[i] = "get_wakeup_time_" <=> i = 3
        /\ RuntimeFields[i] = "set_wakeup_time_" <=> i = 4
        /\ RuntimeFields[i] = "set_virtual_address_map_" <=> i = 5
        /\ RuntimeFields[i] = "get_variable_" <=> i = 7
        /\ RuntimeFields[i] = "get_next_variable_name_" <=> i = 8
        /\ RuntimeFields[i] = "set_variable_" <=> i = 9
        /\ RuntimeFields[i] = "reset_system_" <=> i = 11
  BY DEF RuntimeFields
<1>2. {3, 4, 5, 7, 8, 9, 11} \subseteq DOMAIN RuntimeFields
  BY DEF RuntimeFields
<1>3. /\ (CHOOSE i \in DOMAIN RuntimeFields : RuntimeFields[i] = "get_wakeup_time_") = 3
      /\ (CHOOSE i \in DOMAIN RuntimeFields : RuntimeFields[i] = "set_wakeup_time_") = 4
      /\ (CHOOSE i \in DOMAIN RuntimeFields : RuntimeFields[i] = "get_variable_") = 7
      /\ (CHOOSE i \in DOMAIN RuntimeFields : RuntimeFields[i] = "set_virtual_address_map_") = 5
      /\ (CHOOSE i \in DOMAIN RuntimeFields : RuntimeFields[i] = "get_next_variable_name_") = 8
      /\ (CHOOSE i \in DOMAIN RuntimeFields : RuntimeFields[i] = "set_variable_") = 9
      /\ (CHOOSE i \in DOMAIN RuntimeFields : RuntimeFields[i] = "reset_system_") = 11
  BY <1>1, <1>2
<1>4. /\ RuntimeTable[3] = "GetWakeupTime" /\ RuntimeTable[4] = "SetWakeupTime"
      /\ RuntimeTable[7] = "GetVariable" /\ RuntimeTable[9] = "SetVariable"
      /\ RuntimeTable[11] = "ResetSystem"
      /\ RuntimeTable[5] = "SetVirtualAddressMap" /\ RuntimeTable[8] = "GetNextVariableName"
  BY DEF RuntimeTable
<1> QED BY <1>3, <1>4 DEF RuntimeBehind

LEMMA RuntimeInit_Agree == RuntimeInit => LedgersAgree
BY DEF RuntimeInit, LedgersAgree

LEMMA set_variableStep ==
  ASSUME LedgersAgree, NEW n \in Names, NEW attributes, NEW size, set_variable(n, attributes, size)
  PROVE  LedgersAgree'
<1>1. UNCHANGED <<alarm, asked>> /\ set_variable_(n, attributes, size)
  BY RuntimeFieldsInPlace DEF set_variable
<1>2. CASE Accepts(n, attributes, size)
  <2>1. store' = [store EXCEPT ![n] = Result(store[n], attributes, size)]
    BY <1>1, <1>2 DEF set_variable_
  <2>2. written' = [store EXCEPT ![n] = Result(store[n], attributes, size)]
    BY <1>2 DEF set_variable, LedgersAgree
  <2>3. Result(store[n], attributes, size) \in Variable \cup {nullptr}
    BY <1>2 DEF Accepts
  <2> QED BY <1>1, <2>1, <2>2, <2>3 DEF LedgersAgree
<1>3. CASE ~Accepts(n, attributes, size)
  BY <1>1, <1>3 DEF set_variable_, set_variable, LedgersAgree
<1> QED BY <1>2, <1>3

\* Reset and loss of power take from both what does not survive.
LEMMA RestartStep == ASSUME LedgersAgree, Restart, Forgets PROVE LedgersAgree'
BY DEF LedgersAgree, Restart, Forgets, Survivors

LEMMA LedgersStep == LedgersAgree /\ [RuntimeNext]_runtime_vars => LedgersAgree'
<1> SUFFICES ASSUME LedgersAgree, [RuntimeNext]_runtime_vars PROVE LedgersAgree'
  OBVIOUS
<1>1. ASSUME NEW n \in Names, NEW attributes \in Written, NEW size \in 0 .. MaxLength,
             set_variable(n, attributes, size)
      PROVE  LedgersAgree'
  BY <1>1, set_variableStep
<1>2. ASSUME NEW time \in Times \cup {nullptr}, set_wakeup_time(time) PROVE LedgersAgree'
  BY <1>2, RuntimeFieldsInPlace DEF set_wakeup_time, LedgersAgree
<1>3. CASE reset_system
  BY <1>3, RestartStep, RuntimeFieldsInPlace DEF reset_system
<1>4. CASE PowerLoss
  BY <1>4, RestartStep DEF PowerLoss
<1>5. CASE begin_enumeration \/ get_next_variable_name
  BY <1>5 DEF begin_enumeration, get_next_variable_name, LedgersAgree
<1>6. CASE set_virtual_address_map \/ ExitBoot
  BY <1>6 DEF set_virtual_address_map, ExitBoot, LedgersAgree
<1>7. CASE UNCHANGED runtime_vars
  BY <1>7 DEF runtime_vars, LedgersAgree
<1> QED BY <1>1, <1>2, <1>3, <1>4, <1>5, <1>6, <1>7 DEF RuntimeNext

\* A ledger that agrees with the store is what the methods read back.
LEMMA AgreeReadsBack == LedgersAgree => WritesKept
<1> SUFFICES ASSUME LedgersAgree PROVE WritesKept
  OBVIOUS
<1>1. get_wakeup_time = asked
  BY RuntimeFieldsInPlace DEF get_wakeup_time, LedgersAgree
<1>2. ASSUME NEW n \in Names, NEW size \in 0 .. MaxLength
      PROVE  LET v == get_variable(n, size) IN
             IF v = nullptr
             THEN written[n] = nullptr \/ (phase = "runtime" /\ "RuntimeAccess" \notin written[n].attributes)
             ELSE /\ written[n] = [attributes |-> v.attributes, length |-> v.length]
                  /\ v.copied <=> size >= written[n].length
  <2>1. CASE ~Visible(n)
    <3>1. get_variable(n, size) = nullptr
      BY <2>1 DEF get_variable
    <3>2. written[n] = nullptr \/ (phase = "runtime" /\ "RuntimeAccess" \notin written[n].attributes)
      BY <2>1 DEF Visible, LedgersAgree
    <3> QED BY <3>1, <3>2
  <2>2. CASE Visible(n)
    <3>1. store[n] \in Variable /\ written[n] = store[n]
      BY <2>2 DEF Visible, LedgersAgree
    <3>2. get_variable(n, size) =
            [attributes |-> store[n].attributes, length |-> store[n].length,
             copied |-> store[n].length <= size]
      BY <2>2, RuntimeFieldsInPlace DEF get_variable
    <3>3. get_variable(n, size) \in Answer
      BY <3>1, <3>2 DEF Variable, Answer
    <3>4. get_variable(n, size) # nullptr
      BY <3>3, NullAssumption
    <3>5. store[n] = [attributes |-> store[n].attributes, length |-> store[n].length]
          /\ store[n].length \in Int /\ size \in Int
      BY <3>1, RuntimeAssumption DEF Variable
    <3>6. /\ get_variable(n, size).attributes = store[n].attributes
          /\ get_variable(n, size).length = store[n].length
      BY <3>2
    <3>7. get_variable(n, size).copied = (store[n].length <= size)
      <4> DEFINE fits == store[n].length <= size
      <4>1. \A r, a, l, c : r = [attributes |-> a, length |-> l, copied |-> c] => r.copied = c
        OBVIOUS
      <4>2. get_variable(n, size) =
              [attributes |-> store[n].attributes, length |-> store[n].length, copied |-> fits]
        BY <3>2
      <4> HIDE DEF fits
      <4>3. get_variable(n, size).copied = fits
        BY <4>1, <4>2
      <4> QED BY <4>3 DEF fits
    <3>8. (store[n].length <= size) = (size >= store[n].length)
      BY <3>5
    <3>9. written[n] = [attributes |-> get_variable(n, size).attributes,
                        length |-> get_variable(n, size).length]
      BY <3>1, <3>5, <3>6
    <3>10. get_variable(n, size).copied <=> size >= written[n].length
      BY <3>1, <3>7, <3>8, Zenon
    <3> QED BY <3>4, <3>9, <3>10
  <2> QED BY <2>1, <2>2
<1> QED BY <1>1, <1>2 DEF WritesKept

\* The client reads back what it was told it has written, across refused writes,
\* appends, the end of the boot services, resets and losses of power.
THEOREM WritesReadBack == RuntimeSpec => []WritesKept
BY RuntimeInit_Agree, LedgersStep, AgreeReadsBack, PTL DEF RuntimeSpec

-----------------------------------------------------------------------------
(* The enumeration.  Inductive is: every set of variables has a first one  *)
(* in the order, and the names the enumeration has returned are those up   *)
(* to its cursor, as far as nobody has written them meanwhile.             *)

WellOrdered ==
  /\ order \subseteq Existing \X Existing
  /\ \A m, n \in Existing : <<m, n>> \in order <=> m # n /\ <<n, m>> \notin order
  /\ \A S \in SUBSET Existing :
       S # {} => \E m \in S : \A other \in S \ {m} : <<m, other>> \in order

CursorTyped ==
  /\ cursor \in Names \cup {start, done, nullptr}
  /\ again \subseteq seen
  /\ seen \subseteq Names
  /\ touched \subseteq Names
  /\ lost \in BOOLEAN

Reached(n) == cursor = done \/ n = cursor \/ <<n, cursor>> \in order

ReturnedSoFar ==
  cursor # nullptr /\ ~lost =>
    /\ cursor \in Names => store[cursor] # nullptr
    /\ \A n \in Names \ touched : Visible(n) =>
         IF Reached(n) THEN n \in seen /\ n \notin again ELSE n \notin seen

EnumerationInv == LedgersAgree /\ WellOrdered /\ CursorTyped /\ ReturnedSoFar

\* A relation in which every set has a first element is transitive.
LEMMA OrderTransitive ==
  ASSUME WellOrdered, NEW l, NEW m, NEW n, <<l, m>> \in order, <<m, n>> \in order
  PROVE  <<l, n>> \in order
<1>1. l \in Existing /\ m \in Existing /\ n \in Existing
  BY DEF WellOrdered
<1> DEFINE S == {l, m, n}
<1>2. PICK first \in S : \A other \in S \ {first} : <<first, other>> \in order
  <2>1. S \in SUBSET Existing /\ S # {}
    BY <1>1
  <2> HIDE DEF S
  <2> QED BY <2>1 DEF WellOrdered
<1>3. l # m /\ m # n /\ <<m, l>> \notin order /\ <<n, m>> \notin order
  BY <1>1 DEF WellOrdered
<1> QED BY <1>2, <1>3

\* get_next_variable_name finds the first visible variable behind the cursor.
LEMMA FollowingIsNext ==
  ASSUME WellOrdered, NEW c \in Names \cup {start}, c # start => Visible(c)
  PROVE  \/ /\ Following(c) = done
            /\ \A n \in Names : Visible(n) => c # start /\ <<c, n>> \notin order
         \/ /\ Following(c) \in Names /\ Visible(Following(c))
            /\ c = start \/ <<c, Following(c)>> \in order
            /\ \A n \in Names : Visible(n) /\ (c = start \/ <<c, n>> \in order) =>
                 n = Following(c) \/ <<Following(c), n>> \in order
<1> DEFINE rest == {m \in Names : Visible(m) /\ (c = start \/ <<c, m>> \in order)}
           first == CHOOSE m \in rest : \A other \in rest \ {m} : <<m, other>> \in order
<1>1. Following(c) = IF rest = {} THEN done ELSE first
  BY DEF Following
<1>2. CASE rest = {}
  BY <1>1, <1>2
<1>3. CASE rest # {}
  <2>1. rest \in SUBSET Existing
    BY DEF Existing, Visible
  <2>2. \E m \in rest : \A other \in rest \ {m} : <<m, other>> \in order
    BY <1>3, <2>1 DEF WellOrdered
  <2> DEFINE IsFirst(m) == \A other \in rest \ {m} : <<m, other>> \in order
  <2>3. first \in rest /\ IsFirst(first)
    BY <2>2
  <2> QED BY <1>1, <1>3, <2>3
<1> QED BY <1>2, <1>3

\* A variable that is not there cannot be read, nor be before another one.
LEMMA OrderExists ==
  ASSUME WellOrdered, NEW m, NEW n, <<m, n>> \in order
  PROVE  m \in Names /\ n \in Names /\ m # n /\ <<n, m>> \notin order
BY DEF WellOrdered, Existing

LEMMA get_next_variable_nameStep ==
  ASSUME EnumerationInv, get_next_variable_name
  PROVE  EnumerationInv'
<1> USE DEF EnumerationInv
<1>1. /\ cursor \in Names \cup {start} /\ cursor' = Following(cursor)
      /\ seen' = seen \cup ({cursor'} \cap Names)
      /\ again' = again \cup ({cursor'} \cap seen)
      /\ UNCHANGED <<store, order, alarm, phase, written, asked, touched, lost>>
  BY RuntimeFieldsInPlace DEF get_next_variable_name, CursorTyped
<1>2. LedgersAgree' /\ WellOrdered'
  BY <1>1 DEF LedgersAgree, WellOrdered, Existing
<1>3. CASE cursor # start /\ ~Visible(cursor)
  <2>1. cursor' = nullptr
    BY <1>1, <1>3 DEF Following
  <2> QED BY <1>1, <1>2, <2>1 DEF CursorTyped, ReturnedSoFar
<1>4. CASE cursor # start => Visible(cursor)
  <2>1. \A n \in Names : Visible(n)' <=> Visible(n)
    BY <1>1 DEF Visible
  <2>2. CASE /\ cursor' = done
             /\ \A n \in Names : Visible(n) => cursor # start /\ <<cursor, n>> \notin order
    <3>1. seen' = seen /\ again' = again
      BY <1>1, <2>2, CursorAssumption DEF CursorTyped
    <3>2. CursorTyped'
      BY <1>1, <2>2, <3>1 DEF CursorTyped
    <3>3. ASSUME NEW n \in Names, Visible(n) PROVE Reached(n)
      <4>1. cursor # start /\ <<cursor, n>> \notin order
        BY <2>2, <3>3
      <4>2. cursor \in Existing /\ n \in Existing
        BY <1>1, <1>4, <3>3, <4>1 DEF Existing, Visible
      <4> QED BY <4>1, <4>2 DEF WellOrdered, Reached
    <3>4. ReturnedSoFar'
      BY <1>1, <2>1, <2>2, <3>1, <3>3, CursorAssumption DEF ReturnedSoFar, Reached
    <3> QED BY <1>2, <3>2, <3>4
  <2>3. ASSUME NEW m \in Names, cursor' = m, Visible(m),
               cursor = start \/ <<cursor, m>> \in order,
               \A n \in Names : Visible(n) /\ (cursor = start \/ <<cursor, n>> \in order) =>
                 n = m \/ <<m, n>> \in order
        PROVE  EnumerationInv'
    <3>1. CursorTyped'
      BY <1>1, <2>3 DEF CursorTyped
    <3>2. \A n \in Names : n # m => (n \in seen' <=> n \in seen) /\ (n \in again' <=> n \in again)
      BY <1>1, <2>3
    <3>3. m \in seen' /\ (m \notin seen => m \notin again')
      BY <1>1, <2>3 DEF CursorTyped
    <3>4. cursor # done /\ cursor # nullptr /\ m # done /\ m # start
      BY <1>1, CursorAssumption
    <3>5. ASSUME NEW n \in Names \ touched, Visible(n), ~lost
          PROVE  IF n = m \/ <<n, m>> \in order THEN n \in seen' /\ n \notin again' ELSE n \notin seen'
      <4>0. IF Reached(n) THEN n \in seen /\ n \notin again ELSE n \notin seen
        BY <3>4, <3>5 DEF ReturnedSoFar
      <4>1. CASE n = m
        <5>1. ~Reached(m)
          BY <2>3, <3>4, OrderExists, CursorAssumption DEF Reached
        <5> QED BY <3>3, <4>0, <4>1, <5>1
      <4>2. CASE n # m /\ (cursor = start \/ <<cursor, n>> \in order)
        <5>1. <<m, n>> \in order /\ <<n, m>> \notin order
          BY <2>3, <3>5, <4>2, OrderExists
        <5>2. ~Reached(n)
          BY <3>4, <4>2, OrderExists, CursorAssumption DEF Reached
        <5> QED BY <3>2, <4>0, <4>2, <5>1, <5>2
      <4>3. CASE n # m /\ cursor # start /\ <<cursor, n>> \notin order
        <5>1. cursor \in Existing /\ n \in Existing
          BY <1>1, <1>4, <3>5, <4>3 DEF Existing, Visible
        <5>2. n = cursor \/ <<n, cursor>> \in order
          BY <4>3, <5>1 DEF WellOrdered
        <5>3. <<n, m>> \in order
          BY <2>3, <4>3, <5>2, OrderTransitive
        <5> QED BY <3>2, <4>0, <4>3, <5>2, <5>3 DEF Reached
      <4> QED BY <4>1, <4>2, <4>3
    <3>6. ReturnedSoFar'
      BY <1>1, <2>1, <2>3, <3>4, <3>5 DEF ReturnedSoFar, Reached, Visible
    <3> QED BY <1>2, <3>1, <3>6
  <2> QED BY <1>1, <1>4, <2>2, <2>3, FollowingIsNext
<1> QED BY <1>3, <1>4

\* Writing a variable leaves the order of the others as it is.
LEMMA OrderWritten ==
  ASSUME EnumerationInv, NEW n \in Names, NEW attributes, NEW size,
         Accepts(n, attributes, size), set_variable_(n, attributes, size)
  PROVE  /\ WellOrdered'
         /\ \A l, m \in Names \ {n} : <<l, m>> \in order' <=> <<l, m>> \in order
         /\ \A m \in Names \ {n} : store'[m] = store[m]
<1> USE DEF EnumerationInv
<1> DEFINE new == Result(store[n], attributes, size)
<1>1. /\ store' = [store EXCEPT ![n] = new]
      /\ order' \in IF new = nullptr THEN {Without(n)}
                    ELSE {MovedBehind(n)} \cup IF store[n] = nullptr THEN {} ELSE {order}
  BY DEF set_variable_
<1> HIDE DEF new
<1>2. /\ \A m \in Names \ {n} : store'[m] = store[m]
      /\ store'[n] = new
  BY <1>1 DEF LedgersAgree
<1>3. \A m \in Names \ {n} : m \in Existing' <=> m \in Existing
  BY <1>2 DEF Existing
<1>4. CASE new = nullptr
  <2>1. order' = {pair \in order : pair[1] # n /\ pair[2] # n}
    BY <1>1, <1>4 DEF Without
  <2>2. Existing' = Existing \ {n}
    BY <1>2, <1>4 DEF Existing
  <2>3. \A l, m : <<l, m>> \in order' <=> <<l, m>> \in order /\ l # n /\ m # n
    BY <2>1
  <2>4. order' \subseteq Existing' \X Existing'
    BY <2>1, <2>2 DEF WellOrdered
  <2>5. \A S \in SUBSET Existing' :
          S # {} => \E m \in S : \A other \in S \ {m} : <<m, other>> \in order'
    BY <2>2, <2>3 DEF WellOrdered
  <2> QED BY <1>2, <2>2, <2>3, <2>4, <2>5 DEF WellOrdered
<1>5. CASE new # nullptr /\ order' = order /\ store[n] # nullptr
  <2>1. Existing' = Existing
    BY <1>2, <1>3, <1>5 DEF Existing
  <2> QED BY <1>2, <1>5, <2>1 DEF WellOrdered
<1>6. CASE new # nullptr /\ order' = MovedBehind(n)
  <2>1. Existing' = Existing \cup {n}
    BY <1>2, <1>6 DEF Existing
  <2> DEFINE appended == {<<m, n>> : m \in Existing \ {n}}
  <2>2. \A l, m : <<l, m>> \in order' <=>
          \/ <<l, m>> \in order /\ l # n /\ m # n
          \/ m = n /\ l \in Existing \ {n}
    <3>1. \A l, m : <<l, m>> \in Without(n) <=> <<l, m>> \in order /\ l # n /\ m # n
      BY DEF Without
    <3>2. \A l, m : <<l, m>> \in appended <=> m = n /\ l \in Existing \ {n}
      OBVIOUS
    <3>3. order' = Without(n) \cup appended
      BY <1>6 DEF MovedBehind
    <3> HIDE DEF appended
    <3> QED BY <3>1, <3>2, <3>3, Zenon
  <2>3. order' \subseteq Existing' \X Existing'
    <3>1. Without(n) \subseteq Existing' \X Existing'
      BY <2>1 DEF WellOrdered, Without
    <3>2. appended \subseteq Existing' \X Existing'
      BY <2>1
    <3>3. order' = Without(n) \cup appended
      BY <1>6 DEF MovedBehind
    <3> QED BY <3>1, <3>2, <3>3
  <2>4. ASSUME NEW l \in Existing', NEW m \in Existing'
        PROVE  <<l, m>> \in order' <=> l # m /\ <<m, l>> \notin order'
    <3> HIDE DEF appended
    <3>1. CASE l # n /\ m # n
      <4>1. l \in Existing /\ m \in Existing
        BY <2>1, <2>4, <3>1
      <4>2. /\ <<l, m>> \in order' <=> <<l, m>> \in order
            /\ <<m, l>> \in order' <=> <<m, l>> \in order
        BY <2>2, <3>1
      <4>3. <<l, m>> \in order <=> l # m /\ <<m, l>> \notin order
        BY <4>1 DEF WellOrdered
      <4> QED BY <4>2, <4>3
    <3>2. CASE l = n /\ m = n
      BY <2>2, <3>2
    <3>3. CASE l # n /\ m = n
      BY <2>1, <2>2, <2>4, <3>3
    <3>4. CASE l = n /\ m # n
      BY <2>1, <2>2, <2>4, <3>4
    <3> QED BY <3>1, <3>2, <3>3, <3>4
  <2>5. ASSUME NEW S \in SUBSET Existing', S # {}
        PROVE  \E m \in S : \A other \in S \ {m} : <<m, other>> \in order'
    <3>1. CASE S \ {n} = {}
      BY <2>5, <3>1
    <3>2. CASE S \ {n} # {}
      <4> DEFINE T == S \ {n}
      <4>1. T \in SUBSET Existing /\ T # {} /\ T \subseteq S
        BY <2>1, <3>2
      <4>2. PICK m \in T : \A other \in T \ {m} : <<m, other>> \in order
        <5> HIDE DEF T
        <5> QED BY <4>1 DEF WellOrdered
      <4>3. ASSUME NEW other \in S \ {m} PROVE <<m, other>> \in order'
        BY <2>2, <4>1, <4>2
      <4> QED BY <4>1, <4>2, <4>3
    <3> QED BY <3>1, <3>2
  <2> QED BY <1>2, <2>2, <2>3, <2>4, <2>5 DEF WellOrdered
<1> QED BY <1>1, <1>4, <1>5, <1>6

LEMMA set_variableEnumeration ==
  ASSUME EnumerationInv, NEW n \in Names, NEW attributes, NEW size,
         set_variable(n, attributes, size)
  PROVE  EnumerationInv'
<1> USE DEF EnumerationInv
<1>1. /\ set_variable_(n, attributes, size)
      /\ UNCHANGED <<phase, cursor, seen, again>>
      /\ lost' = (lost \/ (n = cursor /\ Accepts(n, attributes, size)))
  BY RuntimeFieldsInPlace DEF set_variable
<1>2. LedgersAgree'
  BY set_variableStep
<1>3. cursor # nullptr => touched' = IF Accepts(n, attributes, size) THEN touched \cup {n} ELSE touched
  BY DEF set_variable
<1>4. CursorTyped'
  <2>1. touched' \subseteq Names
    BY <1>3 DEF set_variable, CursorTyped
  <2> QED BY <1>1, <2>1 DEF CursorTyped
<1>5. CASE ~Accepts(n, attributes, size)
  <2>1. UNCHANGED <<store, order>> /\ (lost' <=> lost)
    BY <1>1, <1>5 DEF set_variable_
  <2>2. WellOrdered'
    BY <2>1 DEF WellOrdered, Existing
  <2>3. ReturnedSoFar'
    BY <1>1, <1>3, <1>5, <2>1 DEF ReturnedSoFar, Visible, Reached
  <2> QED BY <1>2, <1>4, <2>2, <2>3
<1>6. CASE Accepts(n, attributes, size)
  <2>1. /\ WellOrdered'
        /\ \A l, m \in Names \ {n} : <<l, m>> \in order' <=> <<l, m>> \in order
        /\ \A m \in Names \ {n} : store'[m] = store[m]
    BY <1>1, <1>6, OrderWritten
  <2>2. ReturnedSoFar'
    <3> SUFFICES ASSUME cursor' # nullptr, ~lost'
                 PROVE  /\ cursor' \in Names => store'[cursor'] # nullptr
                        /\ \A m \in Names \ touched' : Visible(m)' =>
                             IF Reached(m)' THEN m \in seen' /\ m \notin again' ELSE m \notin seen'
      BY DEF ReturnedSoFar
    <3>1. ~lost /\ n # cursor /\ cursor # nullptr /\ touched' = touched \cup {n}
      BY <1>1, <1>3, <1>6
    <3>2. cursor \in Names => store'[cursor'] # nullptr
      BY <1>1, <2>1, <3>1 DEF ReturnedSoFar
    <3>3. ASSUME NEW m \in Names \ touched', Visible(m)'
          PROVE  IF Reached(m)' THEN m \in seen' /\ m \notin again' ELSE m \notin seen'
      <4>1. m \in Names \ touched /\ m # n /\ Visible(m)
        BY <1>1, <2>1, <3>1, <3>3 DEF Visible
      <4>2. <<m, cursor>> \in order' <=> <<m, cursor>> \in order
        <5>1. CASE cursor \in Names
          BY <2>1, <3>1, <4>1, <5>1
        <5>2. CASE cursor \notin Names
          BY <2>1, <5>2 DEF WellOrdered, Existing
        <5> QED BY <5>1, <5>2
      <4>3. Reached(m)' <=> Reached(m)
        BY <1>1, <4>2 DEF Reached
      <4> QED BY <1>1, <3>1, <4>1, <4>3 DEF ReturnedSoFar
    <3> QED BY <1>1, <3>2, <3>3
  <2> QED BY <1>2, <1>4, <2>1, <2>2
<1> QED BY <1>5, <1>6

\* After a restart there is no enumeration, and what survives is ordered as before.
LEMMA RestartEnumeration ==
  ASSUME EnumerationInv, Restart, Forgets
  PROVE  EnumerationInv'
<1> USE DEF EnumerationInv
<1>1. LedgersAgree'
  BY RestartStep
<1>2. CursorTyped' /\ ReturnedSoFar'
  BY DEF Forgets, CursorTyped, ReturnedSoFar
<1>3. /\ Existing' = {n \in Existing : NonVolatile(store[n])}
      /\ \A m, n \in Existing' : <<m, n>> \in order' <=> <<m, n>> \in order
  <2>1. \A n \in Names : store'[n] = IF NonVolatile(store[n]) THEN store[n] ELSE nullptr
    BY DEF Restart, Survivors
  <2>2. Existing' = {n \in Existing : NonVolatile(store[n])}
    BY <2>1 DEF Existing, NonVolatile
  <2>3. order' = {pair \in order : NonVolatile(store[pair[1]]) /\ NonVolatile(store[pair[2]])}
    BY DEF Restart
  <2>4. ASSUME NEW m \in Existing', NEW n \in Existing'
        PROVE  <<m, n>> \in order' <=> <<m, n>> \in order
    BY <2>2, <2>3
  <2> QED BY <2>2, <2>4
<1>4. order' \subseteq Existing' \X Existing'
  BY <1>3 DEF Restart, WellOrdered
<1>5. WellOrdered'
  <2>1. \A S \in SUBSET Existing' :
          S # {} => \E m \in S : \A other \in S \ {m} : <<m, other>> \in order'
    <3> SUFFICES ASSUME NEW S \in SUBSET Existing', S # {}
                 PROVE  \E m \in S : \A other \in S \ {m} : <<m, other>> \in order'
      OBVIOUS
    <3>1. PICK m \in S : \A other \in S \ {m} : <<m, other>> \in order
      BY <1>3 DEF WellOrdered
    <3> QED BY <1>3, <3>1
  <2> QED BY <1>3, <1>4, <2>1 DEF WellOrdered
<1> QED BY <1>1, <1>2, <1>5

LEMMA RuntimeInit_Enumeration == RuntimeInit => EnumerationInv
<1> SUFFICES ASSUME RuntimeInit PROVE EnumerationInv
  OBVIOUS
<1>1. Existing = {}
  BY DEF RuntimeInit, Existing
<1>2. WellOrdered
  BY <1>1 DEF RuntimeInit, WellOrdered
<1>3. CursorTyped /\ ReturnedSoFar
  BY DEF RuntimeInit, NoEnumeration, CursorTyped, ReturnedSoFar
<1> QED BY <1>2, <1>3, RuntimeInit_Agree DEF EnumerationInv

LEMMA EnumerationStep == EnumerationInv /\ [RuntimeNext]_runtime_vars => EnumerationInv'
<1> SUFFICES ASSUME EnumerationInv, [RuntimeNext]_runtime_vars PROVE EnumerationInv'
  OBVIOUS
<1>0. LedgersAgree'
  BY LedgersStep DEF EnumerationInv
<1>1. ASSUME NEW n \in Names, NEW attributes \in Written, NEW size \in 0 .. MaxLength,
             set_variable(n, attributes, size)
      PROVE  EnumerationInv'
  BY <1>1, set_variableEnumeration
<1>2. ASSUME UNCHANGED <<store, order, phase, enumeration>> PROVE EnumerationInv'
  BY <1>0, <1>2 DEF EnumerationInv, WellOrdered, Existing, CursorTyped, ReturnedSoFar, Visible,
     Reached, enumeration
<1>3. CASE reset_system \/ PowerLoss
  BY <1>3, RestartEnumeration, RuntimeFieldsInPlace DEF reset_system, PowerLoss
<1>4. CASE begin_enumeration
  <2>1. WellOrdered'
    BY <1>4 DEF begin_enumeration, EnumerationInv, WellOrdered, Existing
  <2>2. CursorTyped'
    BY <1>4 DEF begin_enumeration, CursorTyped
  <2>3. \A n \in Names : ~Reached(n)'
    BY <1>4, CursorAssumption DEF begin_enumeration, Reached, EnumerationInv, WellOrdered, Existing
  <2>4. ReturnedSoFar'
    BY <1>4, <2>3, CursorAssumption DEF begin_enumeration, ReturnedSoFar
  <2> QED BY <1>0, <2>1, <2>2, <2>4 DEF EnumerationInv
<1>5. CASE get_next_variable_name
  BY <1>5, get_next_variable_nameStep
<1>6. CASE ExitBoot
  <2>1. \A n \in Names : Visible(n)' => Visible(n)
    BY <1>6 DEF ExitBoot, Visible
  <2>2. UNCHANGED <<store, order, enumeration>>
    BY <1>6 DEF ExitBoot
  <2>3. WellOrdered' /\ CursorTyped'
    BY <2>2 DEF EnumerationInv, WellOrdered, Existing, CursorTyped, enumeration
  <2>4. ReturnedSoFar'
    BY <2>1, <2>2 DEF EnumerationInv, ReturnedSoFar, Reached, enumeration
  <2> QED BY <1>0, <2>3, <2>4 DEF EnumerationInv
<1>7. CASE set_virtual_address_map \/ \E time \in Times \cup {nullptr} : set_wakeup_time(time)
  BY <1>2, <1>7 DEF set_virtual_address_map, set_wakeup_time
<1>8. CASE UNCHANGED runtime_vars
  BY <1>2, <1>8 DEF runtime_vars
<1> QED BY <1>1, <1>3, <1>4, <1>5, <1>6, <1>7, <1>8 DEF RuntimeNext

\* The invariant of the enumeration holds always.
THEOREM EnumerationInvariance == RuntimeSpec => []EnumerationInv
BY RuntimeInit_Enumeration, EnumerationStep, PTL DEF RuntimeSpec

\* get_next_variable_name, called until it finds no more, has returned every variable that
\* nobody wrote meanwhile exactly once, whatever happened to the others.
THEOREM EnumerationIsExact == RuntimeSpec => []EnumerationExact
<1>1. EnumerationInv => EnumerationExact
  BY CursorAssumption DEF EnumerationInv, ReturnedSoFar, Reached, EnumerationExact
<1> QED BY <1>1, EnumerationInvariance, PTL

-----------------------------------------------------------------------------
(* Device paths.  A class is as long as its members are together, which is *)
(* no longer than the node it is taken for; length() leads from node to    *)
(* node because where a node ends is a running sum of lengths.  What is a  *)
(* sum of any number of terms is proved by the least counterexample.       *)

\* Every set of naturals has a least element: of the intervals up to its elements one is
\* contained in the others.
LEMMA NatLeast == ASSUME NEW T \in SUBSET Nat, T # {} PROVE \E m \in T : \A n \in T : m <= n
<1> DEFINE Family == {0 .. n : n \in T}
<1>1. Family # {} /\ Family \subseteq FiniteSubsetsOf(Nat)
  <2>1. ASSUME NEW n \in T PROVE 0 .. n \in FiniteSubsetsOf(Nat)
    <3>1. IsFiniteSet(0 .. n)
      BY FS_Interval
    <3>2. 0 .. n \in SUBSET Nat
      OBVIOUS
    <3> QED BY <3>1, <3>2 DEF FiniteSubsetsOf
  <2> QED BY <2>1
<1> HIDE DEF Family
<1>3. PICK F \in Family : \A G \in Family : ~ (<<G, F>> \in StrictSubsetOrdering(Nat))
  BY <1>1, WFMin, FS_StrictSubsetOrderingWellFounded
<1>4. PICK m \in T : F = 0 .. m
  BY <1>3 DEF Family
<1>5. ASSUME NEW n \in T, n < m PROVE FALSE
  <2>1. 0 .. n \in Family /\ 0 .. n \in SUBSET Nat /\ 0 .. m \in SUBSET Nat
    BY DEF Family
  <2>2. 0 .. n \subseteq 0 .. m /\ m \in 0 .. m /\ m \notin 0 .. n
    BY <1>5
  <2>3. <<0 .. n, 0 .. m>> \in StrictSubsetOrdering(Nat)
    BY <2>1, <2>2 DEF StrictSubsetOrdering
  <2> QED BY <1>3, <1>4, <2>1, <2>3
<1> QED BY <1>5

\* The sums of the first terms of a function exist, for any number of terms: there is no
\* least number for which they do not.
LEMMA RunningSum ==
  ASSUME NEW n \in Nat, NEW term
  PROVE  \E sum : sum = [i \in 0 .. n |-> IF i = 0 THEN 0 ELSE sum[i - 1] + term[i]]
<1> DEFINE Sums(m) == \E sum : sum = [i \in 0 .. m |-> IF i = 0 THEN 0 ELSE sum[i - 1] + term[i]]
           T == {m \in Nat : ~Sums(m)}
<1>1. Sums(0)
  <2>1. [i \in 0 .. 0 |-> 0] = [i \in 0 .. 0 |-> IF i = 0 THEN 0 ELSE [j \in 0 .. 0 |-> 0][i - 1] + term[i]]
    OBVIOUS
  <2> QED BY <2>1
<1>2. ASSUME NEW m \in Nat, Sums(m) PROVE Sums(m + 1)
  <2>1. PICK sum : sum = [i \in 0 .. m |-> IF i = 0 THEN 0 ELSE sum[i - 1] + term[i]]
    BY <1>2
  <2> DEFINE next == [i \in 0 .. m + 1 |-> IF i = m + 1 THEN sum[m] + term[i] ELSE sum[i]]
  <2>2. next = [i \in 0 .. m + 1 |-> IF i = 0 THEN 0 ELSE next[i - 1] + term[i]]
    <3>1. ASSUME NEW i \in 0 .. m + 1 PROVE next[i] = IF i = 0 THEN 0 ELSE next[i - 1] + term[i]
      <4>1. CASE i = m + 1
        BY <4>1
      <4>2. CASE i \in 0 .. m
        <5>1. next[i] = sum[i]
          BY <4>2
        <5>2. sum[i] = IF i = 0 THEN 0 ELSE sum[i - 1] + term[i]
          BY <2>1, <4>2
        <5>3. i # 0 => next[i - 1] = sum[i - 1]
          BY <4>2
        <5> QED BY <5>1, <5>2, <5>3
      <4> QED BY <4>1, <4>2
    <3> QED BY <3>1
  <2> HIDE DEF next
  <2> QED BY <2>2
<1> HIDE DEF Sums
<1>3. T = {}
  <2> SUFFICES ASSUME T # {} PROVE FALSE
    OBVIOUS
  <2>1. PICK m \in T : \A k \in T : m <= k
    BY NatLeast
  <2>2. m # 0 /\ m - 1 \in Nat /\ m - 1 \notin T
    BY <1>1, <2>1
  <2>3. Sums(m - 1)
    BY <2>2
  <2>4. Sums((m - 1) + 1)
    BY <1>2, <2>2, <2>3
  <2> QED BY <2>1, <2>4
<1>4. Sums(n)
  BY <1>3
<1> QED BY <1>4 DEF Sums


\* Every part lies behind the part before it.
LEMMA EndsStep ==
  ASSUME NEW sizes, Len(sizes) \in Nat
  PROVE  /\ Ends(sizes)[0] = 0
         /\ \A i \in 1 .. Len(sizes) : Ends(sizes)[i] = Ends(sizes)[i - 1] + sizes[i]
<1> DEFINE end == Ends(sizes)
<1>1. end = [i \in 0 .. Len(sizes) |-> IF i = 0 THEN 0 ELSE end[i - 1] + sizes[i]]
  BY RunningSum DEF Ends
<1> HIDE DEF end
<1>2. end[0] = 0 /\ \A i \in 1 .. Len(sizes) : end[i] = end[i - 1] + sizes[i]
  BY <1>1
<1> QED BY <1>2 DEF end

\* One member more makes it longer by that member.
LEMMA ExtentAppend ==
  ASSUME NEW sizes \in Seq(Int), NEW size \in Int
  PROVE  Extent(Append(sizes, size)) = Extent(sizes) + size
<1> DEFINE longer == Append(sizes, size)
           T == {i \in 0 .. Len(sizes) : Ends(longer)[i] # Ends(sizes)[i]}
<1>1. /\ Len(sizes) \in Nat /\ Len(longer) = Len(sizes) + 1
      /\ longer[Len(longer)] = size
      /\ \A i \in 1 .. Len(sizes) : longer[i] = sizes[i]
  OBVIOUS
<1> HIDE DEF longer
<1>2. /\ Ends(sizes)[0] = 0
      /\ \A i \in 1 .. Len(sizes) : Ends(sizes)[i] = Ends(sizes)[i - 1] + sizes[i]
  BY <1>1, EndsStep
<1>3. /\ Ends(longer)[0] = 0
      /\ \A i \in 1 .. Len(longer) : Ends(longer)[i] = Ends(longer)[i - 1] + longer[i]
  BY <1>1, EndsStep
<1>4. T = {}
  <2> SUFFICES ASSUME T # {} PROVE FALSE
    OBVIOUS
  <2>1. PICK i \in T : \A j \in T : i <= j
    <3>1. T \in SUBSET Nat
      BY <1>1
    <3> QED BY <3>1, NatLeast
  <2>2. i \in 1 .. Len(sizes) /\ i - 1 \notin T
    BY <1>1, <1>2, <1>3, <2>1
  <2>3. Ends(longer)[i - 1] = Ends(sizes)[i - 1]
    BY <1>1, <2>2
  <2>4. Ends(longer)[i] = Ends(sizes)[i]
    BY <1>1, <1>2, <1>3, <2>2, <2>3
  <2> QED BY <2>1, <2>4
<1>5. Ends(longer)[Len(sizes)] = Ends(sizes)[Len(sizes)]
  BY <1>1, <1>4
<1>6. Ends(longer)[Len(longer)] = Ends(longer)[Len(longer) - 1] + size
  BY <1>1, <1>3
<1>7. Len(longer) - 1 = Len(sizes)
  BY <1>1
<1> QED BY <1>5, <1>6, <1>7 DEF Extent, longer

\* So a class is as long as its members are together.
LEMMA Extent0 == Extent(<<>>) = 0
BY EndsStep DEF Extent

LEMMA Extent1 ==
  ASSUME NEW a \in Int
  PROVE  Extent(<<a>>) = a
<1>1. <<>> \in Seq(Int) /\ <<a>> = Append(<<>>, a)
  OBVIOUS
<1>2. Extent(Append(<<>>, a)) = Extent(<<>>) + a
  BY <1>1, ExtentAppend
<1>3. Extent(<<>>) = 0
  BY Extent0
<1>4. Extent(<<a>>) = Extent(<<>>) + a
  BY <1>1, <1>2, Zenon
<1> QED BY <1>3, <1>4

LEMMA Extent2 ==
  ASSUME NEW a \in Int, NEW b \in Int
  PROVE  Extent(<<a, b>>) = a + b
<1>1. <<a>> \in Seq(Int) /\ <<a, b>> = Append(<<a>>, b)
  OBVIOUS
<1>2. Extent(Append(<<a>>, b)) = Extent(<<a>>) + b
  BY <1>1, ExtentAppend
<1>3. Extent(<<a>>) = a
  BY Extent1
<1>4. Extent(<<a, b>>) = Extent(<<a>>) + b
  BY <1>1, <1>2, Zenon
<1> QED BY <1>3, <1>4

LEMMA Extent3 ==
  ASSUME NEW a \in Int, NEW b \in Int, NEW c \in Int
  PROVE  Extent(<<a, b, c>>) = a + b + c
<1>1. <<a, b>> \in Seq(Int) /\ <<a, b, c>> = Append(<<a, b>>, c)
  OBVIOUS
<1>2. Extent(Append(<<a, b>>, c)) = Extent(<<a, b>>) + c
  BY <1>1, ExtentAppend
<1>3. Extent(<<a, b>>) = a + b
  BY Extent2
<1>4. Extent(<<a, b, c>>) = Extent(<<a, b>>) + c
  BY <1>1, <1>2, Zenon
<1> QED BY <1>3, <1>4

LEMMA Extent4 ==
  ASSUME NEW a \in Int, NEW b \in Int, NEW c \in Int, NEW d \in Int
  PROVE  Extent(<<a, b, c, d>>) = a + b + c + d
<1>1. <<a, b, c>> \in Seq(Int) /\ <<a, b, c, d>> = Append(<<a, b, c>>, d)
  OBVIOUS
<1>2. Extent(Append(<<a, b, c>>, d)) = Extent(<<a, b, c>>) + d
  BY <1>1, ExtentAppend
<1>3. Extent(<<a, b, c>>) = a + b + c
  BY Extent3
<1>4. Extent(<<a, b, c, d>>) = Extent(<<a, b, c>>) + d
  BY <1>1, <1>2, Zenon
<1> QED BY <1>3, <1>4

LEMMA Extent5 ==
  ASSUME NEW a \in Int, NEW b \in Int, NEW c \in Int, NEW d \in Int, NEW e \in Int
  PROVE  Extent(<<a, b, c, d, e>>) = a + b + c + d + e
<1>1. <<a, b, c, d>> \in Seq(Int) /\ <<a, b, c, d, e>> = Append(<<a, b, c, d>>, e)
  OBVIOUS
<1>2. Extent(Append(<<a, b, c, d>>, e)) = Extent(<<a, b, c, d>>) + e
  BY <1>1, ExtentAppend
<1>3. Extent(<<a, b, c, d>>) = a + b + c + d
  BY Extent4
<1>4. Extent(<<a, b, c, d, e>>) = Extent(<<a, b, c, d>>) + e
  BY <1>1, <1>2, Zenon
<1> QED BY <1>3, <1>4

\* The members of DevicePathProtocol, which every class begins with.
LEMMA HeaderExtent == Extent(Header) = 4
BY Extent3 DEF Header

\* The three classes with more members.
LEMMA ExtentHardDrive == Extent(<<4, 8, 8, 16, 1, 1>>) = 38
<1> DEFINE five == <<4, 8, 8, 16, 1>>
           six == Append(five, 1)
<1>1. Extent(five) = 37
  BY Extent5
<1>2. <<4, 8, 8, 16, 1, 1>> = six /\ five \in Seq(Int)
  OBVIOUS
<1> HIDE DEF five
<1>3. six \in Seq(Int) /\ Extent(six) = Extent(five) + 1
  BY <1>2, ExtentAppend
<1> HIDE DEF six
<1>4. Extent(six) = 38
  BY <1>1, <1>3
<1> QED BY <1>2, <1>4, Zenon

LEMMA ExtentIPV4 == Extent(<<4, 4, 2, 2, 2, 1, 4, 4>>) = 23
<1> DEFINE five == <<4, 4, 2, 2, 2>>
           six == Append(five, 1)
           seven == Append(six, 4)
           eight == Append(seven, 4)
<1>1. Extent(five) = 14
  BY Extent5
<1>2. <<4, 4, 2, 2, 2, 1, 4, 4>> = eight /\ five \in Seq(Int)
  OBVIOUS
<1> HIDE DEF five
<1>3. six \in Seq(Int) /\ Extent(six) = Extent(five) + 1
  BY <1>2, ExtentAppend
<1> HIDE DEF six
<1>4. seven \in Seq(Int) /\ Extent(seven) = Extent(six) + 4
  BY <1>3, ExtentAppend
<1> HIDE DEF seven
<1>5. eight \in Seq(Int) /\ Extent(eight) = Extent(seven) + 4
  BY <1>4, ExtentAppend
<1> HIDE DEF eight
<1>6. Extent(eight) = 23
  BY <1>1, <1>3, <1>4, <1>5
<1> QED BY <1>2, <1>6, Zenon

LEMMA ExtentIPV6 == Extent(<<16, 16, 2, 2, 2, 1, 1, 16>>) = 56
<1> DEFINE five == <<16, 16, 2, 2, 2>>
           six == Append(five, 1)
           seven == Append(six, 1)
           eight == Append(seven, 16)
<1>1. Extent(five) = 38
  BY Extent5
<1>2. <<16, 16, 2, 2, 2, 1, 1, 16>> = eight /\ five \in Seq(Int)
  OBVIOUS
<1> HIDE DEF five
<1>3. six \in Seq(Int) /\ Extent(six) = Extent(five) + 1
  BY <1>2, ExtentAppend
<1> HIDE DEF six
<1>4. seven \in Seq(Int) /\ Extent(seven) = Extent(six) + 1
  BY <1>3, ExtentAppend
<1> HIDE DEF seven
<1>5. eight \in Seq(Int) /\ Extent(eight) = Extent(seven) + 16
  BY <1>4, ExtentAppend
<1> HIDE DEF eight
<1>6. Extent(eight) = 56
  BY <1>1, <1>3, <1>4, <1>5
<1> QED BY <1>2, <1>6, Zenon

\* A class that a node of this type is taken for is no longer than the node.
Fits(type) ==
  \A name \in DOMAIN Nodes[type], class \in DOMAIN SubTypes[type] \ {"BMC", "SASEx"} :
    SubTypes[type][class] = Nodes[type][name][1] =>
      Nodes[type][name][2] \in Int /\ SizeOf(type, class) \in 0 .. Nodes[type][name][2]

LEMMA HardwareFits == Fits("Hardware")
<1>1. /\ SizeOf("Hardware", "PCCARD") = 5 /\ SizeOf("Hardware", "Vendor") = 20
      /\ SizeOf("Hardware", "Contoller") = 8
  BY HeaderExtent, Extent1 DEF SizeOf, Layouts, Hardware, Controllers
<1>2. SizeOf("Hardware", "PCI") = 6
  BY HeaderExtent, Extent2 DEF SizeOf, Layouts, Hardware, Controllers
<1>3. SizeOf("Hardware", "MemoryMapped") = 24
  BY HeaderExtent, Extent3 DEF SizeOf, Layouts, Hardware, Controllers
<1> QED BY <1>1, <1>2, <1>3 DEF Fits, Nodes, SubTypes

LEMMA ACPIFits == Fits("ACPI")
<1>1. /\ SizeOf("ACPI", "_ADR") = 8 /\ SizeOf("ACPI", "NVDIMM") = 8
  BY HeaderExtent, Extent1 DEF SizeOf, Layouts, ACPI
<1>2. SizeOf("ACPI", "ACPI") = 12
  BY HeaderExtent, Extent2 DEF SizeOf, Layouts, ACPI
<1>3. SizeOf("ACPI", "ExpandedACPI") = 16
  BY HeaderExtent, Extent3 DEF SizeOf, Layouts, ACPI
<1> QED BY <1>1, <1>2, <1>3 DEF Fits, Nodes, SubTypes

LEMMA MediaFits == Fits("Media")
<1>1. /\ SizeOf("Media", "FilePath") = 4 /\ SizeOf("Media", "PIWGFirmwareFile") = 4
  BY HeaderExtent, Extent0 DEF SizeOf, Layouts, Media
<1>2. /\ SizeOf("Media", "Vendor") = 20 /\ SizeOf("Media", "MediaProtocol") = 20
  BY HeaderExtent, Extent1 DEF SizeOf, Layouts, Media
<1>3. SizeOf("Media", "CdRom") = 24
  <2>1. Extent(<<4, 8, 8>>) = 20
    BY Extent3
  <2> QED BY <2>1, HeaderExtent DEF SizeOf, Layouts, Media
<1>4. SizeOf("Media", "RAMDisk") = 38
  <2>1. Extent(<<8, 8, 16, 2>>) = 34
    BY Extent4
  <2> QED BY <2>1, HeaderExtent DEF SizeOf, Layouts, Media
<1>5. SizeOf("Media", "HardDrive") = 42
  BY HeaderExtent, ExtentHardDrive DEF SizeOf, Layouts, Media
<1> QED BY <1>1, <1>2, <1>3, <1>4, <1>5 DEF Fits, Nodes, SubTypes

LEMMA BIOSFits == Fits("BIOSBootSpecification")
<1>1. SizeOf("BIOSBootSpecification", "V1_01") = 8
  BY HeaderExtent, Extent2 DEF SizeOf, Layouts, BIOSBootSpecification
<1> QED BY <1>1 DEF Fits, Nodes, SubTypes

LEMMA MessagingLayouts ==
  /\ \A class \in DOMAIN StorageAndBuses : Messaging[class] = StorageAndBuses[class]
  /\ \A class \in DOMAIN NetworkAndVendor : Messaging[class] = NetworkAndVendor[class]
  /\ \A class \in DOMAIN AttachedAndServices : Messaging[class] = AttachedAndServices[class]
BY DEF Messaging, StorageAndBuses, NetworkAndVendor, AttachedAndServices

LEMMA StorageFits ==
  \A name \in DOMAIN Nodes["Messaging"], class \in DOMAIN StorageAndBuses \cap DOMAIN SubTypes["Messaging"] :
    SubTypes["Messaging"][class] = Nodes["Messaging"][name][1] =>
      /\ Nodes["Messaging"][name][2] \in Int
      /\ SizeOf("Messaging", class) \in 0 .. Nodes["Messaging"][name][2]
<1>1. SizeOf("Messaging", "DeviceLogicalUnit") = 5
  BY HeaderExtent, MessagingLayouts, Extent1 DEF SizeOf, Layouts, StorageAndBuses
<1>2. /\ SizeOf("Messaging", "SCSI") = 8 /\ SizeOf("Messaging", "Firewire") = 16
      /\ SizeOf("Messaging", "USB") = 6
  BY HeaderExtent, MessagingLayouts, Extent2 DEF SizeOf, Layouts, StorageAndBuses
<1>3. /\ SizeOf("Messaging", "ATAPI") = 8 /\ SizeOf("Messaging", "FibreChannel") = 24
      /\ SizeOf("Messaging", "FibreChannelEx") = 24 /\ SizeOf("Messaging", "SATA") = 10
      /\ SizeOf("Messaging", "USB_WWID") = 10
  BY HeaderExtent, MessagingLayouts, Extent3 DEF SizeOf, Layouts, StorageAndBuses
<1>4. SizeOf("Messaging", "USBClass") = 11
  <2>1. Extent(<<2, 2, 1, 1, 1>>) = 7
    BY Extent5
  <2> QED BY <2>1, HeaderExtent, MessagingLayouts DEF SizeOf, Layouts, StorageAndBuses
<1> QED BY <1>1, <1>2, <1>3, <1>4 DEF Nodes, SubTypes, StorageAndBuses

LEMMA NetworkFits ==
  \A name \in DOMAIN Nodes["Messaging"], class \in DOMAIN NetworkAndVendor \cap DOMAIN SubTypes["Messaging"] :
    SubTypes["Messaging"][class] = Nodes["Messaging"][name][1] =>
      /\ Nodes["Messaging"][name][2] \in Int
      /\ SizeOf("Messaging", class) \in 0 .. Nodes["Messaging"][name][2]
<1>1. /\ SizeOf("Messaging", "I2O") = 8 /\ SizeOf("Messaging", "VLAN") = 6
      /\ SizeOf("Messaging", "Vendor") = 20
  BY HeaderExtent, MessagingLayouts, Extent1 DEF SizeOf, Layouts, NetworkAndVendor
<1>2. SizeOf("Messaging", "MacAddress") = 37
  BY HeaderExtent, MessagingLayouts, Extent2 DEF SizeOf, Layouts, NetworkAndVendor
<1>3. /\ SizeOf("Messaging", "InfiniBand") = 48 /\ SizeOf("Messaging", "UART") = 19
  <2>1. Extent(<<4, 16, 8, 8, 8>>) = 44
    BY Extent5
  <2>2. Extent(<<4, 8, 1, 1, 1>>) = 15
    BY Extent5
  <2> QED BY <2>1, <2>2, HeaderExtent, MessagingLayouts DEF SizeOf, Layouts, NetworkAndVendor
<1>4. SizeOf("Messaging", "IPV4") = 27
  BY HeaderExtent, MessagingLayouts, ExtentIPV4 DEF SizeOf, Layouts, NetworkAndVendor
<1>5. SizeOf("Messaging", "IPV6") = 60
  BY HeaderExtent, MessagingLayouts, ExtentIPV6 DEF SizeOf, Layouts, NetworkAndVendor
<1> QED BY <1>1, <1>2, <1>3, <1>4, <1>5 DEF Nodes, SubTypes, NetworkAndVendor

LEMMA AttachedFits ==
  \A name \in DOMAIN Nodes["Messaging"],
     class \in (DOMAIN AttachedAndServices \cap DOMAIN SubTypes["Messaging"]) \ {"SASEx"} :
    SubTypes["Messaging"][class] = Nodes["Messaging"][name][1] =>
      /\ Nodes["Messaging"][name][2] \in Int
      /\ SizeOf("Messaging", class) \in 0 .. Nodes["Messaging"][name][2]
<1>1. SizeOf("Messaging", "URI") = 4
  BY HeaderExtent, MessagingLayouts, Extent0 DEF SizeOf, Layouts, AttachedAndServices
<1>2. /\ SizeOf("Messaging", "SD") = 5 /\ SizeOf("Messaging", "Bluetooth") = 10
      /\ SizeOf("Messaging", "WiFi") = 36 /\ SizeOf("Messaging", "eMMC") = 5
      /\ SizeOf("Messaging", "DNS") = 5 /\ SizeOf("Messaging", "NVDIMM") = 20
  BY HeaderExtent, MessagingLayouts, Extent1 DEF SizeOf, Layouts, AttachedAndServices
<1>3. /\ SizeOf("Messaging", "NVMExpress") = 16 /\ SizeOf("Messaging", "UFS") = 6
      /\ SizeOf("Messaging", "BluetoothLE") = 11 /\ SizeOf("Messaging", "RESTService") = 6
      /\ SizeOf("Messaging", "NVMEoF") = 21
  BY HeaderExtent, MessagingLayouts, Extent2 DEF SizeOf, Layouts, AttachedAndServices
<1>4. SizeOf("Messaging", "iSCSI") = 18
  <2>1. Extent(<<2, 2, 8, 2>>) = 14
    BY Extent4
  <2> QED BY <2>1, HeaderExtent, MessagingLayouts DEF SizeOf, Layouts, AttachedAndServices
<1> QED BY <1>1, <1>2, <1>3, <1>4 DEF Nodes, SubTypes, AttachedAndServices

LEMMA MessagingFits == Fits("Messaging")
<1>1. DOMAIN SubTypes["Messaging"] \subseteq
        DOMAIN StorageAndBuses \cup DOMAIN NetworkAndVendor \cup DOMAIN AttachedAndServices
  BY DEF SubTypes, StorageAndBuses, NetworkAndVendor, AttachedAndServices
<1> QED BY <1>1, StorageFits, NetworkFits, AttachedFits DEF Fits


\* The walk: inductive is that it is at the beginning of one of the nodes of a path.
PathInv ==
  /\ \E n \in 0 .. MaxNodes : \E nodes \in [1 .. n -> Built] : path = Append(nodes, End)
  /\ Here # {}

\* A path is nodes of the firmware and the end behind them.
LEMMA PathNodes ==
  ASSUME NEW n \in 0 .. MaxNodes, NEW nodes \in [1 .. n -> Built], path = Append(nodes, End)
  PROVE  /\ n \in Nat /\ DOMAIN path = 1 .. n + 1
         /\ path[n + 1] = End /\ \A i \in 1 .. n : path[i] \in Built
         /\ DOMAIN Lengths = 1 .. n + 1 /\ Len(Lengths) = n + 1
         /\ \A i \in 1 .. n + 1 : Lengths[i] = path[i].length
<1>1. n \in Nat
  BY PathAssumption
<1>2. nodes \in Seq(Built \cup {End}) /\ Len(nodes) = n
  BY <1>1
<1>3. /\ path \in Seq(Built \cup {End}) /\ Len(path) = n + 1
      /\ \A i \in 1 .. n : path[i] = nodes[i]
      /\ path[n + 1] = End
  BY <1>1, <1>2, AppendProperties
<1>4. DOMAIN path = 1 .. n + 1 /\ path[n + 1] = End /\ \A i \in 1 .. n : path[i] \in Built
  BY <1>1, <1>3
<1>5. Lengths = [i \in 1 .. n + 1 |-> path[i].length]
  BY <1>4 DEF Lengths
<1>6. Len(Lengths) = n + 1
  BY <1>1, <1>5
<1> QED BY <1>1, <1>4, <1>5, <1>6

LEMMA PathInit_Inv == PathInit => PathInv
<1> SUFFICES ASSUME PathInit PROVE PathInv
  OBVIOUS
<1>1. PICK n \in 0 .. MaxNodes : \E nodes \in [1 .. n -> Built] : path = Append(nodes, End)
  BY DEF PathInit
<1>2. /\ n \in Nat /\ DOMAIN path = 1 .. n + 1 /\ Len(Lengths) = n + 1
  BY <1>1, PathNodes
<1>3. Ends(Lengths)[0] = 0
  BY <1>2, EndsStep
<1>4. 1 \in Here
  BY <1>2, <1>3 DEF Here, PathInit
<1> QED BY <1>1, <1>4 DEF PathInv

\* length() leads from one node to the next.
LEMMA PathStep == PathInv /\ [PathNext]_path_vars => PathInv'
<1> SUFFICES ASSUME PathInv, [PathNext]_path_vars PROVE PathInv'
  OBVIOUS
<1>1. CASE UNCHANGED path_vars
  BY <1>1 DEF path_vars, PathInv, Here, Lengths
<1>2. CASE PathNext
  <2>1. PICK i \in Here : path[i].type # "EndOfHardware" /\ at' = at + path[i].length /\ path' = path
    BY <1>2 DEF PathNext
  <2>2. PICK n \in 0 .. MaxNodes : \E nodes \in [1 .. n -> Built] : path = Append(nodes, End)
    BY DEF PathInv
  <2>3. /\ n \in Nat /\ DOMAIN path = 1 .. n + 1 /\ Len(Lengths) = n + 1
        /\ path[n + 1] = End /\ \A j \in 1 .. n + 1 : Lengths[j] = path[j].length
    BY <2>2, PathNodes
  <2>4. i \in 1 .. n + 1 /\ Ends(Lengths)[i - 1] = at
    BY <2>1, <2>3 DEF Here
  <2>5. i # n + 1
    BY <2>1, <2>3 DEF End
  <2>6. Ends(Lengths)[i] = Ends(Lengths)[i - 1] + Lengths[i]
    BY <2>3, <2>4, EndsStep
  <2>7. Ends(Lengths)[(i + 1) - 1] = at'
    <3>1. (i + 1) - 1 = i
      BY <2>3, <2>4
    <3> QED BY <2>1, <2>3, <2>4, <2>6, <3>1
  <2>8. Lengths' = Lengths
    BY <2>1 DEF Lengths
  <2>9. i + 1 \in Here'
    BY <2>1, <2>3, <2>4, <2>5, <2>7, <2>8 DEF Here
  <2> QED BY <2>1, <2>2, <2>9 DEF PathInv
<1> QED BY <1>1, <1>2

\* What a node of the firmware is taken for fits in it, but for the two exceptions.
LEMMA TakenFits ==
  ASSUME NEW node \in Built, NEW class \in Taken(node) \ {"BMC", "SASEx"}
  PROVE  SizeOf(node.type, class) <= node.length
<1>1. PICK type \in DOMAIN Nodes : \E name \in DOMAIN Nodes[type], extra \in Extras :
        node = Node(type, name, extra)
  BY DEF Built
<1>0. PICK name \in DOMAIN Nodes[type], extra \in Extras : node = Node(type, name, extra)
  BY <1>1
<1>2. /\ node.type = type /\ node.subtype = Nodes[type][name][1]
      /\ node.length = Nodes[type][name][2] + extra
  BY <1>0 DEF Node
<1>3. class \in DOMAIN SubTypes[type] \ {"BMC", "SASEx"} /\ SubTypes[type][class] = node.subtype
  BY <1>2 DEF Taken
<1>4. type \in {"Hardware", "ACPI", "Messaging", "Media", "BIOSBootSpecification"}
  BY DEF Nodes
<1>5. Fits(type)
  BY <1>4, HardwareFits, ACPIFits, MessagingFits, MediaFits, BIOSFits
<1>6. Nodes[type][name][2] \in Int /\ SizeOf(type, class) \in 0 .. Nodes[type][name][2]
  BY <1>2, <1>3, <1>5 DEF Fits
<1>7. extra \in Nat
  BY PathAssumption
<1> QED BY <1>2, <1>6, <1>7

\* A walk over any path of the firmware, of any length and with data of any length behind
\* its nodes, reads each node within its bounds if the client does not test for a BMC.
THEOREM WalkReadsInNode ==
  ASSUME "BMC" \in Shadowed
  PROVE  PathSpec => []ReadsInNode
<1>1. PathInv => ReadsInNode
  <2> SUFFICES ASSUME PathInv PROVE ReadsInNode
    OBVIOUS
  <2>1. PICK i \in Here : TRUE
    BY DEF PathInv
  <2>2. PICK n \in 0 .. MaxNodes : \E nodes \in [1 .. n -> Built] : path = Append(nodes, End)
    BY DEF PathInv
  <2>3. i \in 1 .. n + 1 /\ n \in Nat /\ path[n + 1] = End /\ \A j \in 1 .. n : path[j] \in Built
    BY <2>1, <2>2, PathNodes DEF Here
  <2>4. path[i].type # "EndOfHardware" => path[i] \in Built
    BY <2>3 DEF End
  <2>5. "BMC" \notin Taken(path[i])
    BY DEF Taken
  <2>6. ASSUME path[i].type # "EndOfHardware", NEW class \in Taken(path[i]) \ {"SASEx"}
        PROVE  SizeOf(path[i].type, class) <= path[i].length
    BY <2>4, <2>5, <2>6, TakenFits
  <2> QED BY <2>1, <2>6 DEF ReadsInNode
<1> QED BY <1>1, PathInit_Inv, PathStep, PTL DEF PathSpec

\* The condition is needed: a client that tests for a BMC first takes the node of a
\* controller for one, whose class reads five bytes behind the node.
THEOREM ContollerReadTooFar ==
  ASSUME "BMC" \notin Shadowed, 0 \in Extras, MaxNodes # 0,
         path = <<Node("Hardware", "Contoller", 0), End>>, at = 0
  PROVE  PathInit /\ ~ReadsInNode
<1> DEFINE node == Node("Hardware", "Contoller", 0)
           nodes == <<node>>
<1>1. node \in Built
  <2>1. "Hardware" \in DOMAIN Nodes /\ "Contoller" \in DOMAIN Nodes["Hardware"]
    BY DEF Nodes
  <2>2. \A type \in DOMAIN Nodes : \A name \in DOMAIN Nodes[type], extra \in Extras :
          Node(type, name, extra) \in Built
    BY DEF Built
  <2> QED BY <2>1, <2>2
<1>2. node = [type |-> "Hardware", name |-> "Contoller", subtype |-> 5, length |-> 8]
  BY DEF Node, Nodes
<1>3. path = <<node, End>>
  OBVIOUS
<1> HIDE DEF node
<1>4. PathInit
  <2>1. 1 \in 0 .. MaxNodes
    BY PathAssumption
  <2>2. nodes \in [1 .. 1 -> Built] /\ path = Append(nodes, End)
    BY <1>1, <1>3
  <2> HIDE DEF nodes
  <2> QED BY <2>1, <2>2 DEF PathInit
<1>5. /\ DOMAIN path = 1 .. 2 /\ Len(Lengths) = 2
      /\ path[1] = node /\ Lengths[1] = 8
  BY <1>2, <1>3 DEF Lengths
<1>6. Ends(Lengths)[0] = 0 /\ Ends(Lengths)[1] = 8
  BY <1>5, EndsStep
<1>7. Here = {1}
  <2>1. \A i \in 1 .. 2 : Ends(Lengths)[i - 1] = 0 <=> i = 1
    BY <1>6
  <2> QED BY <1>5, <2>1 DEF Here
<1>8. "BMC" \in Taken(node)
  BY <1>2 DEF Taken, SubTypes
<1>9. SizeOf("Hardware", "BMC") = 13
  BY HeaderExtent, Extent2 DEF SizeOf, Layouts, Hardware, Controllers
<1>10. path[1].type = "Hardware" /\ path[1].length = 8 /\ "BMC" \in Taken(path[1])
  BY <1>2, <1>5, <1>8
<1>11. ~ReadsInNode
  BY <1>7, <1>9, <1>10 DEF ReadsInNode
<1> QED BY <1>4, <1>11

-----------------------------------------------------------------------------
(* The types of the runtime services, and of the four parts together.      *)

RestTyped ==
  /\ alarm \in Times \cup {nullptr}
  /\ phase \in {"boot", "runtime"}
  /\ virtual \in BOOLEAN

LEMMA RestTypedStep == RestTyped /\ [RuntimeNext]_runtime_vars => RestTyped'
<1> SUFFICES ASSUME RestTyped, [RuntimeNext]_runtime_vars PROVE RestTyped'
  OBVIOUS
<1>1. ASSUME NEW n \in Names, NEW attributes \in Written, NEW size \in 0 .. MaxLength,
             set_variable(n, attributes, size)
      PROVE  RestTyped'
  BY <1>1 DEF set_variable, RestTyped
<1>2. ASSUME NEW time \in Times \cup {nullptr}, set_wakeup_time(time) PROVE RestTyped'
  BY <1>2, RuntimeFieldsInPlace DEF set_wakeup_time, RestTyped
<1>3. CASE reset_system \/ PowerLoss
  BY <1>3, RuntimeFieldsInPlace DEF reset_system, PowerLoss, Restart, RestTyped
<1>4. CASE begin_enumeration \/ get_next_variable_name
  BY <1>4 DEF begin_enumeration, get_next_variable_name, RestTyped
<1>5. CASE set_virtual_address_map
  BY <1>5, RuntimeFieldsInPlace DEF set_virtual_address_map, RestTyped
<1>6. CASE ExitBoot
  BY <1>6 DEF ExitBoot, RestTyped
<1>7. CASE UNCHANGED runtime_vars
  BY <1>7 DEF runtime_vars, RestTyped
<1> QED BY <1>1, <1>2, <1>3, <1>4, <1>5, <1>6, <1>7 DEF RuntimeNext

\* Appends and refused writes leave every variable within the room of the store, and the
\* order is one of the variables there are, whatever a reset or a deletion takes away.
THEOREM RuntimeTyped == RuntimeSpec => []RuntimeTypeOK
<1>1. RuntimeInit => RestTyped
  BY DEF RuntimeInit, RestTyped
<1>2. EnumerationInv /\ RestTyped => RuntimeTypeOK
  BY DEF EnumerationInv, LedgersAgree, WellOrdered, CursorTyped, RestTyped, RuntimeTypeOK
<1> QED BY <1>1, <1>2, RestTypedStep, EnumerationInvariance, PTL DEF RuntimeSpec

\* Each part behaves in the composition as it does alone.
LEMMA PartsAlone == Spec => ProtocolsSpec /\ RuntimeSpec /\ FileSpec /\ PathSpec
<1>1. Init => ProtocolsInit /\ RuntimeInit /\ FileInit
  BY DEF Init
<1>2. Init => PathInit
  <2>1. 0 \in 0 .. MaxNodes
    BY PathAssumption
  <2>2. <<>> \in [1 .. 0 -> Built]
    OBVIOUS
  <2>3. <<End>> = Append(<<>>, End)
    OBVIOUS
  <2>4. Init => at = 0 /\ (path = <<End>> \/ PathInit)
    BY DEF Init, PathInit
  <2> QED BY <2>1, <2>2, <2>3, <2>4 DEF PathInit
<1>3. [Next]_vars => [ProtocolsNext]_protocol_vars
  BY DEF Next, vars, ProtocolServices, Runtime, Files, Paths
<1>4. [Next]_vars => [RuntimeNext]_runtime_vars
  BY DEF Next, vars, ProtocolServices, Runtime, Files, Paths
<1>5. [Next]_vars => [FileNext]_file_vars
  BY DEF Next, vars, ProtocolServices, Runtime, Files, Paths
<1>6. [Next]_vars => [PathNext]_path_vars
  BY DEF Next, vars, ProtocolServices, Runtime, Files, Paths
<1> QED BY <1>1, <1>2, <1>3, <1>4, <1>5, <1>6, PTL DEF Spec, ProtocolsSpec, RuntimeSpec, FileSpec, PathSpec

\* The state of the four parts has its types, for any number of handles, images,
\* variables and files.
THEOREM ServicesTyped == Spec => []ServicesTypeOK
<1>1. FileTyped => FileTypeOK
  BY DEF FileTyped
<1>2. ProtocolsTypeOK /\ RuntimeTypeOK /\ FileTypeOK <=> ServicesTypeOK
  BY DEF ServicesTypeOK
<1> QED BY <1>1, <1>2, PartsAlone, TypeCorrect, RuntimeTyped, FilesTyped, PTL

\* What is proved of each part alone holds of the four together, as they are checked.
THEOREM ServicesHold ==
  ASSUME "BMC" \in Shadowed
  PROVE  Spec => [](/\ ExclusiveAlone /\ OpensAsHeld /\ SweepLeavesNone
                    /\ WritesKept /\ EnumerationExact /\ ClosedSurvives /\ ReadsInNode)
BY PartsAlone, HolderIsAlone, ListIsWhatIsHeld, DevicesAreDriven, WritesReadBack, EnumerationIsExact,
   ClosedIsDurable, WalkReadsInNode, PTL

=============================================================================
