---------------------------- MODULE FileProtocol ----------------------------
(***************************************************************************)
(* The files of file.hpp and file_system.hpp: handles with a position each *)
(* on files whose contents the file system keeps in memory and writes to   *)
(* the disk when it likes.  FileProtocol has a field for the flush but no  *)
(* method, so close is all a client has to make its writes durable.        *)
(***************************************************************************)
EXTENDS Integers, Sequences

CONSTANTS FileNames,   \* names of files
          FileHandles, \* the FileProtocol objects that can be open
          Bytes,       \* what a byte can be
          VolumeSize,  \* the bytes a file can have before the volume is full
          absent,      \* the contents of no file
          closed       \* no state of a handle

ASSUME VolumeAssumption == VolumeSize \in Nat

VARIABLES
  cache,    \* the contents of each file as the file system sees it
  disk,     \* and as they are on the disk
  handle,   \* [file, mode, position] of each open handle
  since     \* the contents of each file at its last close and ever since

file_vars == <<cache, disk, handle, since>>

Contents == (UNION {[1 .. n -> Bytes] : n \in 0 .. VolumeSize}) \cup {absent}
ASSUME AbsentAssumption == \A n \in 0 .. VolumeSize : absent \notin [1 .. n -> Bytes]
FileOpenMode == {"Read", "Write", "Create"}

\* The enumerators are no flags: a client casts to combine them.
OpenModes == {{"Read"}, {"Read", "Write"}, {"Read", "Write", "Create"}}

FileTypeOK ==
  /\ cache \in [FileNames -> Contents]
  /\ disk \in [FileNames -> Contents]
  /\ handle \in [FileHandles -> [file : FileNames, mode : OpenModes,
                                 position : 0 .. VolumeSize] \cup {closed}]
  /\ since \in [FileNames -> SUBSET Contents]

FileInit ==
  /\ cache = [f \in FileNames |-> absent]
  /\ disk = cache
  /\ handle = [h \in FileHandles |-> closed]
  /\ since = [f \in FileNames |-> {absent}]

-----------------------------------------------------------------------------
\* Mutant: close_ and delete_ stand in the other order.
FileFieldsSwapped ==
  <<"revision_", "open_", "delete_", "close_", "read_", "write_", "get_position_",
    "set_position_", "get_info_", "set_info_", "flush_">>

FileFields ==
  <<"revision_", "open_", "close_", "delete_", "read_", "write_", "get_position_",
    "set_position_", "get_info_", "set_info_", "flush_">>

FileServices ==
  <<"Revision", "Open", "Close", "Delete", "Read", "Write", "GetPosition",
    "SetPosition", "GetInfo", "SetInfo", "Flush">>

FileBehind(field) == FileServices[CHOOSE i \in DOMAIN FileFields : FileFields[i] = field]

-----------------------------------------------------------------------------
\* The file system.

IsOpen(h) == handle[h] # closed
FileOf(h) == handle[h].file
Alone(h) == \A g \in FileHandles \ {h} : IsOpen(g) => FileOf(g) # FileOf(h)
Least(m, n) == IF m < n THEN m ELSE n

\* A write at a position, which only the room of the volume cuts short.
Overwritten(contents, position, data) ==
  LET room == Least(Len(data), VolumeSize - position)
      end == position + room
  IN [i \in 1 .. (IF end > Len(contents) THEN end ELSE Len(contents)) |->
        IF i > position /\ i <= end THEN data[i - position] ELSE contents[i]]

\* Every change of a file is one the next crash may or may not undo.
Becomes(f, contents) ==
  /\ cache' = [cache EXCEPT ![f] = contents]
  /\ since' = [since EXCEPT ![f] = @ \cup {contents}]

Moves(h, position) == handle' = [handle EXCEPT ![h].position = position]
Closes(h) == handle' = [handle EXCEPT ![h] = closed]

\* Close writes the file back; delete closes the handle whatever it returns.
FileSystem(service, h) ==
  CASE service = "Close" ->
         /\ disk' = [disk EXCEPT ![FileOf(h)] = cache[FileOf(h)]]
         /\ Closes(h)
         /\ UNCHANGED cache
    [] service = "Delete" ->
         LET gone == Alone(h) /\ "Write" \in handle[h].mode IN
         /\ cache' = IF gone THEN [cache EXCEPT ![FileOf(h)] = absent] ELSE cache
         /\ disk' = IF gone THEN [disk EXCEPT ![FileOf(h)] = absent] ELSE disk
         /\ Closes(h)

WriteBack(f) ==
  /\ disk' = [disk EXCEPT ![f] = cache[f]]
  /\ UNCHANGED <<cache, handle, since>>

Crash ==
  /\ cache' = disk
  /\ handle' = [h \in FileHandles |-> closed]
  /\ since' = [f \in FileNames |-> {disk[f]}]
  /\ UNCHANGED disk

-----------------------------------------------------------------------------
\* The methods, through a handle that is open (or of the root, for open).

open(h, f, mode) ==
  /\ ~IsOpen(h)
  /\ cache[f] # absent \/ "Create" \in mode
  /\ handle' = [handle EXCEPT ![h] = [file |-> f, mode |-> mode, position |-> 0]]
  /\ IF cache[f] = absent THEN Becomes(f, <<>>) ELSE UNCHANGED <<cache, since>>
  /\ UNCHANGED disk

close(h) ==
  /\ IsOpen(h)
  /\ FileSystem(FileBehind("close_"), h)
  /\ since' = [since EXCEPT ![FileOf(h)] = {cache[FileOf(h)]}]

\* With WarnDeleteFailure the file is still there, but the handle is not.
delete_file(h) ==
  /\ IsOpen(h)
  /\ FileSystem(FileBehind("delete_"), h)
  /\ since' = IF Alone(h) /\ "Write" \in handle[h].mode
              THEN [since EXCEPT ![FileOf(h)] = {absent}] ELSE since

read(h, buffer_size) ==
  /\ IsOpen(h)
  /\ handle[h].position <= Len(cache[FileOf(h)])
  /\ Moves(h, Least(handle[h].position + buffer_size, Len(cache[FileOf(h)])))
  /\ UNCHANGED <<cache, disk, since>>

write(h, buffer) ==
  /\ IsOpen(h)
  /\ "Write" \in handle[h].mode
  /\ handle[h].position <= Len(cache[FileOf(h)])
  /\ Becomes(FileOf(h), Overwritten(cache[FileOf(h)], handle[h].position, buffer))
  /\ Moves(h, Least(handle[h].position + Len(buffer), VolumeSize))
  /\ UNCHANGED disk

set_position(h, position) ==
  /\ IsOpen(h)
  /\ Moves(h, position)
  /\ UNCHANGED <<cache, disk, since>>

\* The part of a FileInfo that changes what is read: its file_size_.
set_info(h, file_size) ==
  /\ IsOpen(h)
  /\ "Write" \in handle[h].mode
  /\ file_size <= Len(cache[FileOf(h)])
  /\ Becomes(FileOf(h), SubSeq(cache[FileOf(h)], 1, file_size))
  /\ UNCHANGED <<disk, handle>>

FileNext ==
  \/ \E h \in FileHandles :
       \/ \E f \in FileNames, mode \in OpenModes : open(h, f, mode)
       \/ close(h) \/ delete_file(h)
       \/ \E n \in 0 .. VolumeSize : read(h, n) \/ set_position(h, n) \/ set_info(h, n)
       \/ \E byte \in Bytes : write(h, <<byte>>) \/ write(h, <<byte, byte>>)
  \/ \E f \in FileNames : WriteBack(f)
  \/ Crash

FileSpec == FileInit /\ [][FileNext]_file_vars

-----------------------------------------------------------------------------
\* What was in a file when a handle on it was last closed is on the disk, or something
\* written to it later is: a crash at any moment, with handles of others open
\* and positioned anywhere, leaves no older contents and brings no deleted
\* file back.
ClosedSurvives == \A f \in FileNames : disk[f] \in since[f]

=============================================================================
