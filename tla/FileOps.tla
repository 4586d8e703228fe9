------------------------------- MODULE FileOps -------------------------------
(***************************************************************************)
(* The files of one layer: what each patched file function does to the      *)
(* replacement directory, to the descriptors and to the caller's bytes, and *)
(* what the application is told.  fsLayerMutex is held from the call to the  *)
(* answer, so calls do not interleave; a transfer is a loop of read() or     *)
(* write() calls that may move fewer bytes than asked, or fail half-way.     *)
(***************************************************************************)
EXTENDS Naturals, Sequences, FiniteSets, ErrorCodes, Storage

CONSTANTS
  File,         \* handles an application may hold
  Name,         \* names in the replacement directory
  Mode,         \* mode strings of an open; "x" is one the wrapper does not know
  Kinds,        \* kinds of layers plugins add
  Disks,        \* contents of the replacement directory to start with
  Size, Count,  \* element sizes and counts of a transfer
  Word,         \* 2^32: size * count is a uint32_t
  Positions,    \* positions an application seeks to
  MaxLen,       \* the storage holds files of this many bytes
  MaxPos,       \* bound on positions
  MaxFd,        \* descriptors of the process
  Nil

ASSUME FileOpsAssumption ==
  /\ Kinds \subseteq {"replace", "merge", "save"}
  /\ Mode \subseteq Reads \cup Writes \cup {"x"}
  /\ Size \subseteq Nat /\ Count \subseteq Nat /\ Positions \subseteq 0 .. MaxPos
  /\ Word \in Nat \ {0} /\ MaxLen \in Nat /\ MaxPos \in Nat /\ MaxFd \in Nat
  /\ MaxLen <= MaxPos /\ IsFiniteSet(File)

ASSUME DisksAssumption ==
  /\ Disks \subseteq [Name -> [type : {"none", "dir", "file"}, data : Seq(Nat)]]
  /\ \A d \in Disks, n \in Name :
       Len(d[n].data) <= MaxLen /\ (d[n].type # "file" => d[n].data = <<>>)

ASSUME NilAssumption ==
  /\ Nil \notin Name /\ Nil \notin [name : Name, pos : Nat]
  /\ Nil \notin [name : Name, read : BOOLEAN, write : BOOLEAN, append : BOOLEAN, pos : Nat]

VARIABLES
  kind,         \* "replace", "merge", "save", or "none" when the layer is gone
  marked,       \* names hidden by a .deleted_ file
  disk,         \* [Name -> entry]
  file,         \* [File -> Nil or [name, read, write, append, pos]]: openFiles
  descriptors,  \* descriptors open in the process
  dropped,      \* history: those whose layer was removed while they were open
  transfer,     \* the loop in progress, or Nil
  reply         \* what the application was told last, or Nil when it goes on

vars == <<kind, marked, disk, file, descriptors, dropped, transfer, reply>>
layer == <<kind, marked>>

pIsWriteable == kind = "save"
fallbackOnError == kind = "merge"

Idle == transfer = Nil /\ reply = Nil
OpenFiles == {f \in File : file[f] # Nil}
Data(f) == disk[file[f].name].data

-----------------------------------------------------------------------------
(* What the application is told: by whom, and with which word.  For a transfer *)
(* also the bytes that were moved, from where, and what the file held before.  *)
NoBytes == [api |-> "none", size |-> 0, count |-> 0, buf |-> <<>>, from |-> 0, prior |-> <<>>]

Told(op, f, by, w, fault, t) ==
  [op |-> op, f |-> f, by |-> by, code |-> w, fault |-> fault, bytes |-> t]

PathOps == {"OpenFile", "GetStat", "MakeDir", "Remove", "Rename"}

(* The console has its own files, but never a handle of a layer.               *)
RealAnswers(op) == IF op \in PathOps THEN {OK, Error("NOT_FOUND")}
                   ELSE {Error("INVALID_FILEHANDLE")}

(* The tail of doForLayer and of the wrapper: the word goes to the             *)
(* application, or the request goes to the real function.                     *)
Answer(op, f, w, fault, t) ==
  reply' \in IF w = FORCE_PARENT_LAYER \/ FallsBack(w, fallbackOnError)
             THEN {Told(op, f, "console", c, fault, t) : c \in RealAnswers(op)}
             ELSE {Told(op, f, "layer", Masked(w), fault, t)}

Deliver(op, f, w)  == Answer(op, f, w, FALSE, NoBytes)
Fail(op, f, e)     == Answer(op, f, Error(e), TRUE, NoBytes)  \* the storage failed

(* The application takes its answer and goes on.                               *)
Receive == reply # Nil /\ reply' = Nil
           /\ UNCHANGED <<layer, disk, file, descriptors, dropped, transfer>>

Still == UNCHANGED <<layer, disk, file, descriptors, dropped, transfer>>

(* memalign fails, or an argument is null: the wrapper itself answers.         *)
ShimRefused(op) ==
  /\ Idle /\ Still
  /\ \E e \in {"OUT_OF_RESOURCES", "INVALID_BUFFER", "INVALID_PARAM"} :
       reply' = Told(op, Nil, "wrapper", Error(e), FALSE, NoBytes)

(* A path that no layer covers, or a handle that none of them knows.           *)
OutsideLayer(op) == Idle /\ op \in PathOps /\ Still /\ Deliver(op, Nil, FORCE_PARENT_LAYER)
UnknownHandle(op, f) == /\ Idle /\ op \notin PathOps /\ file[f] = Nil
                        /\ Still /\ Deliver(op, f, FORCE_PARENT_LAYER)

-----------------------------------------------------------------------------
(* FSOpenFileWrapper.                                                         *)

AllowsEveryMode(mode) == mode # "x"   \* mutant: pIsWriteable is not asked
IsFileModeAllowed(mode) == mode = "r" \/ (pIsWriteable /\ mode \in Writes)

OpenErrorForgetsDirs(errno) ==   \* mutant: EISDIR has no case
  CASE errno = "ENOENT"  -> "NOT_FOUND"
    [] errno = "EACCES"  -> "PERMISSION_ERROR"
    [] errno = "EMFILE"  -> "MAX_FILES"
    [] OTHER             -> "MEDIA_ERROR"
OpenError(errno) ==
  CASE errno = "ENOENT"  -> "NOT_FOUND"
    [] errno = "EACCES"  -> "PERMISSION_ERROR"
    [] errno = "EEXIST"  -> "ALREADY_EXISTS"
    [] errno = "EISDIR"  -> "NOT_FILE"
    [] errno = "ENOTDIR" -> "NOT_DIR"
    [] errno = "EMFILE"  -> "MAX_FILES"
    [] OTHER             -> "MEDIA_ERROR"

Hidden(n) == kind = "merge" /\ n \in marked

(* Why open() may refuse; EIO stands for every other failure of the storage.   *)
OpenErrno(n, mode) ==
  {"EACCES", "EIO"}
  \cup (IF disk[n].type = "none" /\ mode \notin Creates THEN {"ENOENT"} ELSE {})
  \cup (IF disk[n].type = "dir" THEN {"EISDIR"} ELSE {})
  \cup (IF descriptors >= MaxFd THEN {"EMFILE"} ELSE {})

CanOpen(n, mode) == /\ disk[n].type = "file" \/ (disk[n].type = "none" /\ mode \in Creates)
                    /\ descriptors < MaxFd

AllocFailsAndLeaks(f, n, mode) ==   \* mutant: the descriptor is not closed
  /\ descriptors' = descriptors + 1 /\ UNCHANGED file
  /\ Deliver("OpenFile", f, Error("MAX_FILES"))
AllocFails(f, n, mode) ==
  /\ UNCHANGED <<descriptors, file>>
  /\ Deliver("OpenFile", f, Error("MAX_FILES"))

Opens(f, n, mode) ==
  /\ descriptors' = descriptors + 1
  /\ file' = [file EXCEPT ![f] = [name |-> n, read |-> mode \in Reads,
                                  write |-> mode \in Writes,
                                  append |-> mode \in Appends, pos |-> 0]]
  /\ Deliver("OpenFile", f, OK)

FSAOpenFile(f, n, mode) ==
  /\ Idle /\ kind # "none" /\ file[f] = Nil
  /\ \/ Hidden(n) /\ Still /\ Deliver("OpenFile", f, NoFallback("NOT_FOUND"))
     \/ ~Hidden(n) /\ ~IsFileModeAllowed(mode) /\ Still
        /\ Deliver("OpenFile", f, Error("ACCESS_ERROR"))
     \/ /\ ~Hidden(n) /\ IsFileModeAllowed(mode) /\ Still
        /\ \E e \in OpenErrno(n, mode) :
             Answer("OpenFile", f, Error(OpenError(e)), e = "EIO", NoBytes)
     \/ /\ ~Hidden(n) /\ IsFileModeAllowed(mode) /\ CanOpen(n, mode)
        /\ disk' = [disk EXCEPT ![n] = Opened(disk[n], mode)]
        /\ AllocFails(f, n, mode) \/ Opens(f, n, mode)
        /\ UNCHANGED <<layer, dropped, transfer>>

ClosedOnSuccess(f) ==   \* mutant: the handle stays when close() fails
  /\ Idle /\ file[f] # Nil /\ descriptors' = descriptors - 1
  /\ \/ Deliver("CloseFile", f, OK) /\ file' = [file EXCEPT ![f] = Nil]
     \/ Fail("CloseFile", f, "MEDIA_ERROR") /\ UNCHANGED file
  /\ UNCHANGED <<layer, disk, dropped, transfer>>
(* The handle goes whatever close() says.                                      *)
FSACloseFile(f) ==
  /\ Idle /\ file[f] # Nil
  /\ file' = [file EXCEPT ![f] = Nil] /\ descriptors' = descriptors - 1
  /\ Deliver("CloseFile", f, OK) \/ Fail("CloseFile", f, "MEDIA_ERROR")
  /\ UNCHANGED <<layer, disk, dropped, transfer>>

-----------------------------------------------------------------------------
(* readIntoBuffer and writeFromBuffer.  size * count is a uint32_t.            *)

Product(size, count) == (size * count) % Word

Started(api, size, count, from, prior) ==
  [api |-> api, size |-> size, count |-> count, buf |-> <<>>, from |-> from, prior |-> prior]

Begin(op, f, t, pos0) ==
  transfer' = [op |-> op, f |-> f, bytes |-> t, pos0 |-> pos0,
               left |-> Product(t.size, t.count)]

(* FSReadFileGeneric and FSWriteFileGeneric refuse what does not fit 32 bits,   *)
(* with fsClientHandleFatalError; the FSA functions pass it on.                *)
TooLarge(api, size, count) == api = "FS" /\ size * count >= Word

RefuseTransfer(op, f, api, size, count) ==
  /\ Idle /\ TooLarge(api, size, count) /\ Still
  /\ reply' = Told(op, f, "fatal", Error("INVALID_PARAM"), FALSE,
                   Started(api, size, count, 0, <<>>))

MoveTo(f, pos) == file' = [file EXCEPT ![f].pos = pos]

(* FSReadFileWrapper at position p: nothing to do, a null buffer, or a loop.    *)
StartRead(api, f, size, count, p) ==
  LET t == Started(api, size, count, p, Data(f)) IN
  \/ /\ Product(size, count) = 0
     /\ Answer("ReadFile", f, OK, FALSE, t) /\ UNCHANGED transfer
  \/ /\ Product(size, count) # 0
     /\ Deliver("ReadFile", f, Error("INVALID_BUFFER")) /\ UNCHANGED transfer
  \/ /\ Product(size, count) # 0
     /\ Begin("ReadFile", f, t, p) /\ UNCHANGED reply

FSAReadFile(api, f, size, count) ==
  /\ Idle /\ file[f] # Nil /\ ~TooLarge(api, size, count)
  /\ StartRead(api, f, size, count, file[f].pos)
  /\ UNCHANGED <<layer, disk, file, descriptors, dropped>>

(* The position is set first, and stays when the read fails.                   *)
FSAReadFileWithPos(api, f, size, count, pos) ==
  /\ Idle /\ file[f] # Nil /\ ~TooLarge(api, size, count)
  /\ \/ MoveTo(f, pos) /\ StartRead(api, f, size, count, pos)
     \/ Fail("ReadFile", f, "MEDIA_ERROR") /\ UNCHANGED <<file, transfer>>
  /\ UNCHANGED <<layer, disk, descriptors, dropped>>

(* Where a write puts the next byte, and whether the storage has room for it.   *)
At(f)   == IF file[f].append THEN Len(Data(f)) ELSE file[f].pos
Full(f) == At(f) >= MaxLen

(* A write is not checked for a null buffer, nor for a size of zero.           *)
FSAWriteFile(api, f, size, count) ==
  /\ Idle /\ file[f] # Nil /\ ~TooLarge(api, size, count)
  /\ IF ~pIsWriteable
     THEN Deliver("WriteFile", f, Error("ACCESS_ERROR")) /\ UNCHANGED transfer
     ELSE /\ Begin("WriteFile", f,
                   Started(api, size, count, At(f), Data(f)), file[f].pos)
          /\ UNCHANGED reply
  /\ UNCHANGED <<layer, disk, file, descriptors, dropped>>

(* FSWriteFileWithPosWrapper is not overridden, and other flags have no case:   *)
(* the request goes on to the console with the layer's handle.                *)
Unsupported(op, f) ==
  /\ Idle /\ file[f] # Nil /\ op \in {"WriteFileWithPos", "OtherFlags"}
  /\ Still /\ Deliver(op, f, FORCE_PARENT_LAYER)

-----------------------------------------------------------------------------
(* The loop.                                                                  *)

EndTransfer(w, fault) == /\ transfer' = Nil
                         /\ Answer(transfer.op, transfer.f, w, fault, transfer.bytes)

BufferNotAdvanced(bytes) ==   \* mutant: newBuffer stays where it is
  transfer' = [transfer EXCEPT !.bytes.buf =
                 bytes \o SubSeq(@, Len(bytes) + 1, Len(@)),
                               !.left = @ - Len(bytes)]
Advance(bytes) ==
  transfer' = [transfer EXCEPT !.bytes.buf = @ \o bytes, !.left = @ - Len(bytes)]

(* Whole elements; dividing by a size of zero gives any number.                *)
Elements(t) == IF t.size = 0 THEN UNION {Results(n) : n \in 0 .. Word - 1}
               ELSE Results(Len(t.buf) \div t.size)

ReadError(f) == IF file[f].read THEN "MEDIA_ERROR" ELSE "ACCESS_ERROR"   \* EBADF

(* One read(): some bytes, none at the end of the file, or -1.                 *)
OneReadOnly(f, rest) ==   \* mutant: a short read ends the loop
  transfer.left = 0 \/ rest = 0 \/ transfer.bytes.buf # <<>>
ReadIsOver(f, rest) == transfer.left = 0 \/ rest = 0

ReadSome ==
  /\ transfer # Nil /\ transfer.op = "ReadFile"
  /\ LET f == transfer.f
         pos == file[f].pos
         rest == IF Len(Data(f)) > pos THEN Len(Data(f)) - pos ELSE 0 IN
     \/ /\ file[f].read /\ ReadIsOver(f, rest)
        /\ \E w \in Elements(transfer.bytes) : EndTransfer(w, FALSE)
        /\ UNCHANGED file
     \/ \E k \in 1 .. rest :
          /\ file[f].read /\ ~ReadIsOver(f, rest) /\ k <= transfer.left
          /\ Advance(SubSeq(Data(f), pos + 1, pos + k))
          /\ MoveTo(f, pos + k) /\ UNCHANGED reply
     \/ /\ transfer.left > 0
        /\ EndTransfer(Error(ReadError(f)), file[f].read)
        /\ UNCHANGED file
  /\ UNCHANGED <<layer, disk, descriptors, dropped>>

(* One write() of the next bytes of the caller, which are 1, 2, 3 ...: some of  *)
(* them, none when the storage is full, or -1.                                *)
FromTheStart(done, k) == [i \in 1 .. k |-> i]   \* mutant: ptr stays where it is
NextBytes(done, k) == [i \in 1 .. k |-> done + i]

WriteSome ==
  /\ transfer # Nil /\ transfer.op = "WriteFile"
  /\ LET f == transfer.f
         at == At(f) IN
     \/ /\ transfer.left = 0 \/ (file[f].write /\ Full(f))
        /\ \E w \in Elements(transfer.bytes) : EndTransfer(w, FALSE)
        /\ UNCHANGED <<disk, file>>
     \/ \E k \in 1 .. transfer.left :
          /\ file[f].write /\ at + k <= MaxLen
          /\ LET bytes == NextBytes(Len(transfer.bytes.buf), k) IN
               /\ disk' = [disk EXCEPT ![file[f].name].data = Overlay(@, at, bytes)]
               /\ Advance(bytes)
          /\ MoveTo(f, at + k) /\ UNCHANGED reply
     \/ /\ transfer.left > 0                                  \* EBADF, ENOSPC
        /\ ~file[f].write \/ Full(f)
        /\ EndTransfer(Error("MEDIA_ERROR"), FALSE)
        /\ UNCHANGED <<disk, file>>
     \/ /\ transfer.left > 0                                  \* EIO and others
        /\ \E e \in {"FILE_TOO_BIG", "ACCESS_ERROR", "MEDIA_ERROR"} :
             EndTransfer(Error(e), TRUE)
        /\ UNCHANGED <<disk, file>>
  /\ UNCHANGED <<layer, descriptors, dropped>>

-----------------------------------------------------------------------------
(* Positions.                                                                 *)

FSASetPosFile(f, pos) ==
  /\ Idle /\ file[f] # Nil
  /\ \/ MoveTo(f, pos) /\ Deliver("SetPosFile", f, OK)
     \/ Fail("SetPosFile", f, "MEDIA_ERROR") /\ UNCHANGED file
  /\ UNCHANGED <<layer, disk, descriptors, dropped, transfer>>

(* FSGetPosFileWrapper, FSGetStatFileWrapper: lseek and fstat change nothing.  *)
Query(op, f) ==
  /\ Idle /\ file[f] # Nil /\ op \in {"GetPosFile", "GetStatFile"}
  /\ Deliver(op, f, OK) \/ Fail(op, f, "MEDIA_ERROR")
  /\ Still

(* lseek to the end; when the position was another, it is to be restored with   *)
(* SEEK_CUR, which adds it to the end.                                        *)
StaysAtEnd(f, end) == {end}   \* the third lseek fails
SeekCurFromEnd(f, end) == {end + file[f].pos}
RestoredToStart(f, end) == StaysAtEnd(f, end) \cup {0}   \* mutant: another mistake
Restored(f, end) == StaysAtEnd(f, end) \cup SeekCurFromEnd(f, end)

FSAIsEof(f) ==
  /\ Idle /\ file[f] # Nil
  /\ LET end == Len(Data(f)) IN
     \/ file[f].pos = end /\ Deliver("IsEof", f, Error("END_OF_FILE")) /\ UNCHANGED file
     \/ /\ file[f].pos # end /\ Deliver("IsEof", f, OK)
        /\ \E p \in Restored(f, end) : p <= MaxPos /\ MoveTo(f, p)
     \/ Fail("IsEof", f, "MEDIA_ERROR") /\ (UNCHANGED file \/ MoveTo(f, end))
  /\ UNCHANGED <<layer, disk, descriptors, dropped, transfer>>

FSATruncateFile(f) ==
  /\ Idle /\ file[f] # Nil
  /\ \/ ~pIsWriteable /\ Deliver("TruncateFile", f, Error("ACCESS_ERROR")) /\ UNCHANGED disk
     \/ /\ pIsWriteable /\ file[f].write /\ file[f].pos <= MaxLen
        /\ disk' = [disk EXCEPT ![file[f].name].data = Resized(@, file[f].pos)]
        /\ Deliver("TruncateFile", f, OK)
     \/ /\ pIsWriteable /\ ~(file[f].write /\ file[f].pos <= MaxLen)
        /\ Deliver("TruncateFile", f, Error("MEDIA_ERROR")) /\ UNCHANGED disk
     \/ pIsWriteable /\ Fail("TruncateFile", f, "MEDIA_ERROR") /\ UNCHANGED disk
  /\ UNCHANGED <<layer, file, descriptors, dropped, transfer>>

FSAFlushFile(f) ==
  /\ Idle /\ file[f] # Nil /\ Still
  /\ \/ ~pIsWriteable /\ Deliver("FlushFile", f, Error("ACCESS_ERROR"))
     \/ pIsWriteable /\ Deliver("FlushFile", f, OK)
     \/ /\ pIsWriteable
        /\ \E e \in {"INVALID_FILEHANDLE", "MEDIA_ERROR"} : Fail("FlushFile", f, e)

-----------------------------------------------------------------------------
(* Names.  The storage does not remove or rename an open file.                 *)

InUse(n) == \E f \in OpenFiles : file[f].name = n

PathError(errno) ==
  CASE errno = "EACCES"  -> "ACCESS_ERROR"
    [] errno = "ENOTDIR" -> "NOT_DIR"
    [] errno = "EISDIR"  -> "NOT_FILE"
    [] errno = "EPERM"   -> "PERMISSION_ERROR"
    [] OTHER             -> "MEDIA_ERROR"

MakeDirError(errno) ==
  CASE errno = "EACCES"  -> "PERMISSION_ERROR"
    [] errno = "EEXIST"  -> "ALREADY_EXISTS"
    [] errno = "ENOTDIR" -> "NOT_DIR"
    [] errno = "ENOENT"  -> "NOT_FOUND"
    [] OTHER             -> "MEDIA_ERROR"

Missing(n) == IF disk[n].type = "none" THEN {"ENOENT"} ELSE {}
Present(n) == IF disk[n].type = "none" THEN {} ELSE {"EEXIST"}

(* The three functions that change names: a layer that is not writeable         *)
(* refuses, the storage refuses, or the change is made.                       *)
ChangeNames(op, errnos, ErrorOf(_), possible, newDisk) ==
  /\ Idle /\ kind # "none"
  /\ \/ ~pIsWriteable /\ Deliver(op, Nil, Error("PERMISSION_ERROR")) /\ UNCHANGED disk
     \/ /\ pIsWriteable /\ UNCHANGED disk
        /\ \E e \in errnos \cup {"EACCES", "EIO"} :
             Answer(op, Nil, Error(ErrorOf(e)), e = "EIO", NoBytes)
     \/ pIsWriteable /\ possible /\ disk' = newDisk /\ Deliver(op, Nil, OK)
  /\ UNCHANGED <<layer, file, descriptors, dropped, transfer>>

FSARemove(n) ==
  ChangeNames("Remove", Missing(n) \cup {"EPERM"}, PathError, Missing(n) = {} /\ ~InUse(n),
              [disk EXCEPT ![n] = Nothing])

FSARename(n, m) ==
  /\ n # m
  /\ ChangeNames("Rename", Missing(n) \cup Present(m) \cup {"EPERM"}, PathError,
                 Missing(n) = {} /\ Present(m) = {} /\ ~InUse(n),
                 [disk EXCEPT ![m] = disk[n], ![n] = Nothing])

FSAMakeDir(n) ==
  ChangeNames("MakeDir", Present(n), MakeDirError, Present(n) = {},
              [disk EXCEPT ![n] = Directory])

(* Every failure of stat() is reported as a missing name.                      *)
FSAGetStat(n) ==
  /\ Idle /\ kind # "none" /\ Still
  /\ \/ Hidden(n) /\ Deliver("GetStat", Nil, NoFallback("NOT_FOUND"))
     \/ ~Hidden(n) /\ disk[n].type # "none" /\ Deliver("GetStat", Nil, OK)
     \/ ~Hidden(n) /\ Answer("GetStat", Nil, Error("NOT_FOUND"),
                             disk[n].type # "none", NoBytes)

-----------------------------------------------------------------------------
(* CRRemoveFSLayer: openFiles is cleared, no descriptor is closed.              *)
RemoveFSLayer ==
  /\ Idle /\ kind # "none"
  /\ kind' = "none" /\ marked' = {}
  /\ file' = [f \in File |-> Nil]
  /\ dropped' = dropped + Cardinality(OpenFiles)
  /\ UNCHANGED <<disk, descriptors, transfer, reply>>

AddFSLayer(k) ==
  /\ Idle /\ kind = "none"
  /\ kind' = k /\ marked' \in SUBSET (IF k = "merge" THEN Name ELSE {})
  /\ UNCHANGED <<disk, file, descriptors, dropped, transfer, reply>>

-----------------------------------------------------------------------------
Init ==
  /\ kind = "none" /\ marked = {}
  /\ disk \in Disks
  /\ file = [f \in File |-> Nil] /\ descriptors = 0 /\ dropped = 0
  /\ transfer = Nil /\ reply = Nil

HandleOps == {"CloseFile", "GetStatFile", "ReadFile", "SetPosFile", "GetPosFile", "IsEof",
              "TruncateFile", "WriteFile", "FlushFile", "WriteFileWithPos", "OtherFlags"}
APIs == {"FSA", "FS"}

OnFile(f) ==
  \/ \E n \in Name, mode \in Mode : FSAOpenFile(f, n, mode)
  \/ FSACloseFile(f) \/ FSAIsEof(f) \/ FSATruncateFile(f) \/ FSAFlushFile(f)
  \/ \E pos \in Positions : FSASetPosFile(f, pos)
  \/ \E op \in HandleOps : Query(op, f) \/ Unsupported(op, f) \/ UnknownHandle(op, f)
  \/ \E api \in APIs, size \in Size, count \in Count :
       \/ FSAReadFile(api, f, size, count) \/ FSAWriteFile(api, f, size, count)
       \/ \E op \in {"ReadFile", "WriteFile"} : RefuseTransfer(op, f, api, size, count)
       \/ \E pos \in Positions : FSAReadFileWithPos(api, f, size, count, pos)

OnPath ==
  \/ \E n \in Name : \/ FSARemove(n) \/ FSAMakeDir(n) \/ FSAGetStat(n)
                     \/ \E m \in Name : FSARename(n, m)
  \/ \E op \in PathOps : OutsideLayer(op)

Next == \/ \E f \in File : OnFile(f)
        \/ OnPath \/ ReadSome \/ WriteSome \/ Receive
        \/ \E op \in PathOps \cup HandleOps : ShimRefused(op)
        \/ RemoveFSLayer \/ \E k \in Kinds : AddFSLayer(k)

Spec == Init /\ [][Next]_vars

-----------------------------------------------------------------------------
(* The types: positions and lengths inside their bounds, one call at a time.    *)
Entry == [type : {"none", "dir", "file"}, data : Seq(Nat)]
Bytes == [api : APIs \cup {"none"}, size : Nat, count : Nat, buf : Seq(Nat), from : Nat, prior : Seq(Nat)]
Replies == [op : PathOps \cup HandleOps, f : File \cup {Nil},
            by : {"layer", "console", "wrapper", "fatal"}, code : FSError, fault : BOOLEAN, bytes : Bytes]
Transfer == [op : {"ReadFile", "WriteFile"}, f : File, bytes : Bytes, left : Nat,
             pos0 : 0 .. MaxPos]
ASSUME RecordsAssumption == Nil \notin Replies /\ Nil \notin Transfer

TypeOK ==
  /\ kind \in Kinds \cup {"none"} /\ marked \subseteq Name
  /\ disk \in [Name -> Entry]
  /\ \A n \in Name : Len(disk[n].data) <= MaxLen
  /\ file \in [File -> {Nil} \cup [name : Name, read : BOOLEAN, write : BOOLEAN,
                                   append : BOOLEAN, pos : 0 .. MaxPos]]
  /\ \A f \in OpenFiles : disk[file[f].name].type = "file"
  /\ descriptors \in 0 .. MaxFd /\ dropped \in 0 .. MaxFd
  /\ transfer # Nil => transfer \in Transfer /\ transfer.f \in OpenFiles /\ reply = Nil
  /\ reply # Nil => reply \in Replies

(* Only a save layer changes its replacement directory, whatever the mode, the  *)
(* handle or the path of a call.                                              *)
WriteProtected == [][disk' # disk => kind = "save"]_vars

(* Every descriptor of the process belongs to a handle of the layer, or was     *)
(* left behind when its layer was removed: no failing open, failing close or    *)
(* other error loses one.                                                     *)
DescriptorsAccounted == descriptors = Cardinality(OpenFiles) + dropped

(* A read, however often read() was short and whether it failed in the end,     *)
(* has put into the buffer the bytes of the file from the position on, in       *)
(* their places and not more than asked for.                                  *)
Done(op) == reply # Nil /\ reply.op = op /\ reply.by = "layer"
ReadsWhatIsThere ==
  Done("ReadFile") =>
    LET t == reply.bytes IN
    /\ Len(t.buf) <= t.size * t.count
    /\ t.buf = SubSeq(t.prior, t.from + 1, t.from + Len(t.buf))

(* A read that reports fewer elements than asked for, and no error, has met the *)
(* end of the file, unless an FSA caller's size * count does not fit 32 bits.   *)
ShortReadIsTheEnd ==
  Done("ReadFile") /\ reply.code.extra = "none" =>
    LET t == reply.bytes IN
    \/ t.size = 0
    \/ /\ reply.code.count = Len(t.buf) \div t.size
       /\ \/ reply.code.count = t.count
          \/ file[reply.f].pos >= Len(Data(reply.f))
          \/ t.api = "FSA" /\ t.size * t.count >= Word

(* A write, however often write() was short and whatever the answer, has put a   *)
(* prefix of the caller's bytes at its place and left the rest of the file.     *)
WritesWhatWasGiven ==
  Done("WriteFile") /\ reply.bytes # NoBytes =>
    LET t == reply.bytes IN
    /\ Len(t.buf) <= t.size * t.count
    /\ Data(reply.f) = Overlay(t.prior, t.from, [i \in 1 .. Len(t.buf) |-> i])
    /\ t.size > 0 /\ reply.code.extra = "none" =>
         reply.code.count = Len(t.buf) \div t.size

(* The number of elements a transfer returns is a uint32_t; from 2^31 on it is   *)
(* read as an error, or as one of the words that layers use among themselves.   *)
TakenForError(op, t) ==
  /\ op \in {"ReadFile", "WriteFile"} /\ t # NoBytes
  /\ IF t.size = 0 THEN op = "WriteFile" ELSE Len(t.buf) \div t.size >= Sign

(* The application is told what happened.  It never sees a word that layers use  *)
(* among themselves; no failure of the storage is told as a success, however     *)
(* late in a transfer it comes; and a transfer is told as an error only when the *)
(* storage failed or was full, the file was not open for it, or the number of    *)
(* elements was taken for one.                                                *)
AnswerIsHonest ==
  reply # Nil =>
    /\ reply.code.extra \in {"none", "error"}
    /\ reply.by = "layer" /\ reply.fault => reply.code.extra = "error"
    /\ reply.by = "layer" /\ reply.code.extra = "error" /\ reply.bytes # NoBytes =>
         \/ reply.fault \/ TakenForError(reply.op, reply.bytes)
         \/ reply.op = "ReadFile" /\ ~file[reply.f].read
         \/ reply.op = "WriteFile" /\ (~file[reply.f].write \/ Full(reply.f))

(* A call with an open handle of a layer reaches the console, which does not     *)
(* know the handle, only when the command has no case in the layers, when the    *)
(* storage of a merging layer failed or the layer refused a change, or when the  *)
(* number it returned was taken for an error or for FS_ERROR_FORCE_PARENT_LAYER. *)
HandleStaysHome ==
  reply # Nil /\ reply.by = "console" /\ reply.op \in HandleOps /\ file[reply.f] # Nil =>
    \/ reply.op \in {"WriteFileWithPos", "OtherFlags"}
    \/ TakenForError(reply.op, reply.bytes)
    \/ /\ kind = "merge"
       /\ \/ reply.fault \/ reply.op \in {"WriteFile", "TruncateFile", "FlushFile"}
          \/ reply.op = "ReadFile" /\ reply.bytes = NoBytes          \* a null buffer

(* An FS call that asks for every error to be told turns into a fatal error      *)
(* because the storage failed, the caller's arguments were wrong, a change could  *)
(* not be made, or a number was taken for an error; opening, asking and reading  *)
(* do not, and the way of the answer as an IOSError changes nothing.            *)
ToldToFS(r) == IF r.by = "fatal" THEN "FATAL_ERROR"
               ELSE processFSError(__FSAShimDecodeIosErrorToFsaStatus(ToIOS(r.code)), {})
FatalHasACause ==
  reply # Nil /\ reply.by \in {"layer", "fatal"} /\ ToldToFS(reply) = "FATAL_ERROR" =>
    \/ reply.fault \/ TakenForError(reply.op, reply.bytes)
    \/ reply.code.name = "INVALID_BUFFER"
    \/ reply.by = "fatal" /\ reply.bytes.size * reply.bytes.count >= Word
    \/ reply.op \in {"Remove", "Rename", "WriteFile", "TruncateFile"}

(* The calls of one layer behave like atomic operations on files.  While a      *)
(* transfer runs, the file and the position are those from before it.           *)
Content ==
  IF transfer = Nil THEN disk
  ELSE [disk EXCEPT ![file[transfer.f].name].data = transfer.bytes.prior]
Open ==
  [f \in File |->
     IF file[f] = Nil THEN Nil
     ELSE [name |-> file[f].name,
           pos |-> IF transfer # Nil /\ transfer.f = f THEN transfer.pos0 ELSE file[f].pos]]

Answered == IF reply = Nil THEN Nil ELSE reply.op

Reference == INSTANCE ReferenceFile WITH content <- Content, open <- Open, done <- Answered
ImplementsReference == Reference!Spec
=============================================================================
