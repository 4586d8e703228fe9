---------------------- MODULE FileOps_application_proofs ----------------------
(***************************************************************************)
(* What an application sees of a layer's files, for any files, names and     *)
(* modes, any sizes and counts, and however often read() and write() are     *)
(* short: who answers it and with what, and that the files are those of       *)
(* ReferenceFile, where every call takes effect in one step and every other   *)
(* step changes nothing that it could see.                                  *)
(***************************************************************************)
EXTENDS FileOps_proofs

(* The places of a running transfer, as the reference has to know them: where   *)
(* it began, how far it has come, and that a read has not left the file.       *)
PlaceOK ==
  transfer # Nil =>
    LET t == transfer.bytes
        n == Len(t.buf)
        f == transfer.f IN
    /\ transfer.op = "ReadFile" =>
         t.from = transfer.pos0 /\ (n > 0 => t.from + n <= Len(t.prior))
    /\ transfer.op = "WriteFile" =>
         /\ t.from = IF file[f].append THEN Len(t.prior) ELSE transfer.pos0
         /\ file[f].pos = IF n = 0 THEN transfer.pos0 ELSE t.from + n

-----------------------------------------------------------------------------
(* What the reference sees.                                                    *)

Handle(g) == IF g = Nil THEN Nil ELSE [name |-> g.name, pos |-> g.pos]

ReferenceStep == Reference!Next \/ UNCHANGED <<Content, Open, Answered>>

(* The reference writes its storage as FileOps does.                           *)
LEMMA SameStorage ==
  /\ Reference!Nothing = Nothing /\ Reference!Directory = Directory
  /\ \A bytes : Reference!FileOf(bytes) = FileOf(bytes)
  /\ \A data, n : Reference!Resized(data, n) = Resized(data, n)
  /\ \A data, at, bytes : Reference!Overlay(data, at, bytes) = Overlay(data, at, bytes)
BY DEF Reference!Nothing, Nothing, Reference!Directory, Directory, Reference!FileOf, FileOf,
       Reference!Resized, Resized, Reference!Overlay, Overlay

(* Between transfers the reference's files and positions are the layer's.      *)
LEMMA Calm ==
  /\ transfer = Nil => Content = disk /\ Open = [f \in File |-> Handle(file[f])]
  /\ transfer' = Nil => Content' = disk' /\ Open' = [f \in File |-> Handle(file'[f])]
BY DEF Content, Open, Handle

(* A step outside transfers that leaves files and handles is one the reference does not see.*)
LEMMA Unseen ==
  ASSUME transfer = Nil, transfer' = Nil, UNCHANGED <<disk, file>>
  PROVE  ReferenceStep
BY Calm DEF ReferenceStep, Reference!Next, Reference!Unchanged

(* The word that the reference is told names the call.                         *)
LEMMA Tells ==
  ASSUME NEW op \in AllOps, NEW f \in File \cup {Nil}, NEW w \in Words,
         NEW fault \in BOOLEAN, NEW t \in Bytes, Answer(op, f, w, fault, t)
  PROVE  Answered' = op
<1>1. reply' \in Replies /\ reply'.op = op
  BY AnswerFacts
<1> QED
  BY <1>1, RecordsAssumption DEF Answered

(* An open handle is one for the reference too, with a name and a bounded position.*)
LEMMA HandleIsThere ==
  ASSUME IInv, NEW f \in OpenFiles
  PROVE  /\ Handle(file[f]) = [name |-> file[f].name, pos |-> file[f].pos]
         /\ Handle(file[f]) # Nil /\ file[f].name \in Name /\ file[f].pos \in Nat
         /\ file[f].pos \in 0 .. MaxPos
<1>1. file[f] # Nil /\ file[f].name \in Name /\ file[f].pos \in 0 .. MaxPos
  BY HandleFacts DEF Handles
<1>2. file[f].pos \in Nat
  BY <1>1, FileOpsAssumption
<1>3. [name |-> file[f].name, pos |-> file[f].pos] \in [name : Name, pos : Nat]
  BY <1>1, <1>2
<1> QED
  BY <1>1, <1>2, <1>3, NilAssumption DEF Handle

(* Outside a transfer the reference sees the handles as they are.               *)
LEMMA SeenHandle ==
  ASSUME IInv, transfer = Nil, NEW f \in OpenFiles
  PROVE  /\ f \in File /\ Open[f] # Nil
         /\ Open[f].name = file[f].name /\ Open[f].pos = file[f].pos
<1>1. f \in File /\ Open[f] = Handle(file[f])
  BY Calm DEF OpenFiles
<1>2. /\ Handle(file[f]) = [name |-> file[f].name, pos |-> file[f].pos]
      /\ Handle(file[f]) # Nil
  BY HandleIsThere
<1>3. Open[f] = [name |-> file[f].name, pos |-> file[f].pos] /\ Open[f] # Nil
  BY <1>1, <1>2
<1> QED
  BY <1>1, <1>3

(* A handle that moves outside a transfer moves in the reference.               *)
LEMMA SeenMove ==
  ASSUME IInv, transfer = Nil, NEW f \in OpenFiles, NEW pos \in 0 .. MaxPos,
         MoveTo(f, pos), Open' = [g \in File |-> Handle(file'[g])]
  PROVE  Reference!MoveTo(f, pos)
<1>1. /\ Open = [g \in File |-> Handle(file[g])] /\ Open' = [g \in File |-> Handle(file'[g])]
      /\ f \in File /\ Open[f] # Nil
  BY Calm, SeenHandle
<1>2. file \in [File -> {Nil} \cup Handles] /\ file[f] \in Handles /\ file[f] # Nil
  BY HandleFacts DEF IInv, FileOK
<1>3. /\ \A g \in File : g # f => file'[g] = file[g]
      /\ file'[f] = [file[f] EXCEPT !.pos = pos]
  <2>1. file' = [file EXCEPT ![f] = [file[f] EXCEPT !.pos = pos]]
    BY DEF MoveTo
  <2> QED
    BY <1>1, <1>2, <2>1
<1>4. file'[f] \in Handles /\ file'[f].name = file[f].name /\ file'[f].pos = pos
  BY <1>2, <1>3 DEF Handles
<1>5. Handle(file'[f]) = [name |-> file[f].name, pos |-> pos]
  BY <1>4, NotNil DEF Handle
<1>6. Handle(file[f]) = [name |-> file[f].name, pos |-> file[f].pos]
  BY HandleIsThere
<1>7. [Handle(file[f]) EXCEPT !.pos = pos] = Handle(file'[f])
  BY <1>5, <1>6
<1>8. Open' = [Open EXCEPT ![f].pos = pos]
  BY <1>1, <1>3, <1>7
<1> QED
  BY <1>1, <1>8 DEF Reference!MoveTo
-----------------------------------------------------------------------------
(* The calls that run to their end in one step.                                *)

LEMMA QuietRefines ==
  ASSUME IInv,
         \/ \E op \in PathOps : OutsideLayer(op)
         \/ \E op \in AllOps : ShimRefused(op)
         \/ \E f \in File, op \in HandleOps :
              Query(op, f) \/ Unsupported(op, f) \/ UnknownHandle(op, f)
         \/ \E f \in File : FSAFlushFile(f)
         \/ \E n \in Name : FSAGetStat(n)
         \/ \E f \in File, api \in APIs, size \in Size, count \in Count,
               op \in {"ReadFile", "WriteFile"} : RefuseTransfer(op, f, api, size, count)
         \/ Receive
         \/ \E k \in Kinds : AddFSLayer(k)
  PROVE  ReferenceStep
<1>1. transfer = Nil /\ transfer' = transfer /\ UNCHANGED <<disk, file>>
  <2>1. CASE Receive
    BY <2>1 DEF Receive, IInv, TransferOK
  <2>2. CASE \/ \E op \in PathOps : OutsideLayer(op)
             \/ \E op \in AllOps : ShimRefused(op)
             \/ \E f \in File, op \in HandleOps :
                  Query(op, f) \/ Unsupported(op, f) \/ UnknownHandle(op, f)
             \/ \E f \in File : FSAFlushFile(f)
             \/ \E n \in Name : FSAGetStat(n)
    BY <2>2 DEF OutsideLayer, ShimRefused, Query, Unsupported, UnknownHandle, FSAFlushFile,
                FSAGetStat, Still, Idle
  <2>3. CASE \E f \in File, api \in APIs, size \in Size, count \in Count,
               op \in {"ReadFile", "WriteFile"} : RefuseTransfer(op, f, api, size, count)
    BY <2>3 DEF RefuseTransfer, Still, Idle
  <2>4. CASE \E k \in Kinds : AddFSLayer(k)
    BY <2>4 DEF AddFSLayer, Idle
  <2> QED
    BY <2>1, <2>2, <2>3, <2>4
<1> QED
  BY <1>1, Unseen

(* setPosFile is the reference's.                                              *)
LEMMA SeekRefines ==
  ASSUME IInv, NEW f \in File, NEW pos \in Positions, FSASetPosFile(f, pos)
  PROVE  ReferenceStep
<1>1. transfer = Nil /\ transfer' = Nil /\ f \in OpenFiles /\ disk' = disk
      /\ pos \in 0 .. MaxPos
  BY FileOpsAssumption DEF FSASetPosFile, Idle, OpenFiles
<1>2. CASE UNCHANGED file
  BY <1>1, <1>2, Unseen
<1>3. CASE MoveTo(f, pos) /\ Deliver("SetPosFile", f, OK)
  <2>1. Answered' = "SetPosFile"
    <3>1. "SetPosFile" \in AllOps
      BY DEF AllOps, HandleOps
    <3> QED
      BY <1>3, <3>1, Tells, WordFacts, NoBytesFacts DEF Deliver
  <2>2. Reference!MoveTo(f, pos) /\ Content' = Content
    BY <1>1, <1>3, SeenMove, Calm
  <2> QED
    BY <2>1, <2>2 DEF ReferenceStep, Reference!Next, Reference!Seek
<1> QED
  BY <1>2, <1>3 DEF FSASetPosFile

(* isEof moves to the end and back by SEEK_CUR; the reference sees where it is left.*)
LEMMA EofRefines ==
  ASSUME IInv, NEW f \in File, FSAIsEof(f)
  PROVE  ReferenceStep
<1> DEFINE end == Len(Data(f))
<1>1. transfer = Nil /\ transfer' = Nil /\ f \in OpenFiles /\ disk' = disk
  BY DEF FSAIsEof, Idle, OpenFiles
<1>2. CASE UNCHANGED file
  BY <1>1, <1>2, Unseen
<1>3. /\ end \in Nat /\ end \in 0 .. MaxPos /\ file[f].pos \in Nat
  <2>1. Data(f) \in Seq(Nat) /\ end <= MaxLen /\ end \in Nat /\ file[f].pos \in Nat
    BY <1>1, HandleFacts, HandleIsThere, LenProperties
  <2> HIDE DEF end
  <2> QED
    BY <2>1, FileOpsAssumption
<1>4. ASSUME NEW p \in {end, end + file[f].pos}, p <= MaxPos, MoveTo(f, p),
             Answered' = "IsEof"
      PROVE  ReferenceStep
  <2>1. p \in 0 .. MaxPos
    BY <1>3, <1>4
  <2>2. Reference!MoveTo(f, p) /\ Content' = Content
    BY <1>1, <1>4, <2>1, SeenMove, Calm
  <2>3. end = Len(Reference!Bytes(f)) /\ Open[f] # Nil /\ file[f].pos = Open[f].pos
    BY <1>1, Calm, SeenHandle DEF Reference!Bytes, Data
  <2>4. Reference!EofQuery(f)
    BY <1>4, <2>2, <2>3 DEF Reference!EofQuery
  <2> QED
    BY <2>4 DEF ReferenceStep, Reference!Next
<1>5. "IsEof" \in AllOps
  BY DEF AllOps, HandleOps
<1>6. CASE /\ Deliver("IsEof", f, OK)
           /\ \E p \in Restored(f, end) : p <= MaxPos /\ MoveTo(f, p)
  <2>1. Answered' = "IsEof"
    BY <1>5, <1>6, Tells, WordFacts, NoBytesFacts DEF Deliver
  <2> QED
    BY <1>4, <1>6, <2>1 DEF Restored, StaysAtEnd, SeekCurFromEnd
<1>7. CASE Fail("IsEof", f, "MEDIA_ERROR") /\ MoveTo(f, end)
  <2>1. Answered' = "IsEof"
    BY <1>5, <1>7, Tells, WordFacts, NoBytesFacts, ErrorNames DEF Fail
  <2> QED
    BY <1>3, <1>4, <1>7, <2>1
<1> QED
  BY <1>2, <1>6, <1>7 DEF FSAIsEof

(* Closing frees the handle, also when close() fails.                          *)
LEMMA CloseRefines ==
  ASSUME IInv, NEW f \in File, FSACloseFile(f)
  PROVE  ReferenceStep
<1>1. transfer = Nil /\ transfer' = Nil /\ f \in OpenFiles /\ disk' = disk
      /\ file' = [file EXCEPT ![f] = Nil]
  BY DEF FSACloseFile, Idle, OpenFiles
<1>2. Answered' = "CloseFile"
  <2>1. "CloseFile" \in AllOps
    BY DEF AllOps, HandleOps
  <2> QED
    BY <2>1, Tells, WordFacts, NoBytesFacts, ErrorNames DEF FSACloseFile, Deliver, Fail
<1>3. Open' = [Open EXCEPT ![f] = Nil]
  <2>1. file' \in [File -> {Nil} \cup Handles] /\ Handle(Nil) = Nil
    BY <1>1 DEF IInv, FileOK, Handle
  <2>2. file'[f] = Nil /\ \A g \in File : g # f => file'[g] = file[g]
    BY <1>1 DEF IInv, FileOK
  <2> QED
    BY <1>1, <2>1, <2>2, Calm
<1>4. Open[f] # Nil /\ Content' = Content
  BY <1>1, SeenHandle, Calm
<1> QED
  BY <1>2, <1>3, <1>4 DEF ReferenceStep, Reference!Next, Reference!Close

(* With its layer every handle is gone.                                        *)
LEMMA RemoveLayerRefines ==
  ASSUME IInv, RemoveFSLayer
  PROVE  ReferenceStep
<1>1. transfer = Nil /\ transfer' = Nil /\ UNCHANGED <<disk, reply>>
      /\ file' = [f \in File |-> Nil]
  BY DEF RemoveFSLayer, Idle
<1>2. Open' = [f \in File |-> Nil]
  BY <1>1, Calm DEF Handle
<1>3. UNCHANGED <<Content, Answered>>
  BY <1>1, Calm DEF Answered
<1> QED
  BY <1>2, <1>3 DEF ReferenceStep, Reference!Next, Reference!CloseAll
-----------------------------------------------------------------------------
(* Opens and changes of the storage.                                           *)

LEMMA OpenRefines ==
  ASSUME IInv, NEW f \in File, NEW n \in Name, NEW mode \in Mode, FSAOpenFile(f, n, mode)
  PROVE  ReferenceStep
<1>1. transfer = Nil /\ transfer' = Nil /\ file[f] = Nil /\ "OpenFile" \in AllOps
  BY DEF FSAOpenFile, Idle, Still, AllOps, PathOps
<1>2. CASE Still
  BY <1>1, <1>2, Unseen DEF Still
<1>3. CASE /\ CanOpen(n, mode) /\ disk' = [disk EXCEPT ![n] = Opened(disk[n], mode)]
           /\ AllocFails(f, n, mode) \/ Opens(f, n, mode)
  <2>1. disk' \in {disk, [disk EXCEPT ![n] = FileOf(<<>>)]} /\ disk'[n].type = "file"
    <3>1. Opened(disk[n], mode) \in {disk[n], FileOf(<<>>)}
      BY DEF Opened
    <3>2. disk'[n].type = "file"
      BY <1>3, OpenedFacts
    <3> QED
      BY <1>3, <3>1, <3>2, DiskFacts
  <2>2. Content' \in {Content, [Content EXCEPT ![n] = FileOf(<<>>)]}
        /\ Content'[n].type = "file"
    BY <1>1, <2>1, Calm
  <2>3. Answered' = "OpenFile"
    BY <1>1, <1>3, Tells, WordFacts, NoBytesFacts, ErrorNames DEF AllocFails, Opens, Deliver
  <2>4. CASE AllocFails(f, n, mode)
    <3>1. Open' = Open
      BY <1>1, <2>4, Calm DEF AllocFails
    <3> QED
      BY <2>2, <2>3, <3>1, SameStorage
         DEF ReferenceStep, Reference!Next, Reference!Reset, Reference!Unchanged
  <2>5. CASE Opens(f, n, mode)
    <3> DEFINE new == [name |-> n, read |-> mode \in Reads, write |-> mode \in Writes,
                       append |-> mode \in Appends, pos |-> 0]
    <3>1. new \in Handles /\ new.name = n /\ new.pos = 0
      BY FileOpsAssumption DEF Handles
    <3>2. file' = [file EXCEPT ![f] = new]
      BY <2>5 DEF Opens
    <3> HIDE DEF new
    <3>3. Handle(new) = [name |-> n, pos |-> 0] /\ Handle(Nil) = Nil
      BY <3>1, NotNil DEF Handle
    <3>4. file'[f] = new /\ \A g \in File : g # f => file'[g] = file[g]
      BY <3>2 DEF IInv, FileOK
    <3>5. Open' = [Open EXCEPT ![f] = [name |-> n, pos |-> 0]] /\ Open[f] = Nil
      BY <1>1, <3>3, <3>4, Calm
    <3> QED
      BY <2>2, <2>3, <3>5, SameStorage DEF ReferenceStep, Reference!Next, Reference!Open
  <2> QED
    BY <1>3, <2>4, <2>5
<1> QED
  BY <1>2, <1>3 DEF FSAOpenFile

(* ftruncate cuts or grows the file of the handle to the position.             *)
LEMMA TruncateRefines ==
  ASSUME IInv, NEW f \in File, FSATruncateFile(f)
  PROVE  ReferenceStep
<1>1. transfer = Nil /\ transfer' = Nil /\ f \in OpenFiles /\ file' = file
      /\ "TruncateFile" \in AllOps
  BY DEF FSATruncateFile, Idle, OpenFiles, AllOps, HandleOps
<1>2. CASE UNCHANGED disk
  BY <1>1, <1>2, Unseen
<1>3. CASE /\ Deliver("TruncateFile", f, OK)
           /\ disk' = [disk EXCEPT ![file[f].name].data = Resized(@, file[f].pos)]
  <2>1. Answered' = "TruncateFile"
    BY <1>1, <1>3, Tells, WordFacts, NoBytesFacts DEF Deliver
  <2>2. Open' = Open /\ Open[f] # Nil /\ Open[f].name = file[f].name
        /\ Open[f].pos = file[f].pos
    BY <1>1, SeenHandle, Calm
  <2>3. Content' = [Content EXCEPT ![Open[f].name].data = Resized(@, Open[f].pos)]
    BY <1>1, <1>3, <2>2, Calm
  <2> QED
    BY <2>1, <2>2, <2>3, SameStorage DEF ReferenceStep, Reference!Next, Reference!Truncate
<1> QED
  BY <1>2, <1>3 DEF FSATruncateFile

(* A name that is not in use has no handle in the reference.                   *)
LEMMA SeenUse ==
  ASSUME IInv, transfer = Nil, NEW n \in Name, ~InUse(n)
  PROVE  Reference!NotOpen(n)
<1> SUFFICES ASSUME NEW f \in File, Open[f] # Nil PROVE Open[f].name # n
  BY DEF Reference!NotOpen
<1>1. f \in OpenFiles
  BY Calm DEF Handle, OpenFiles
<1> QED
  BY <1>1, SeenHandle DEF InUse

(* Names change only where no handle is open, and no handle changes.           *)
LEMMA NamesRefine ==
  ASSUME IInv,
         \/ \E n \in Name : FSARemove(n) \/ FSAMakeDir(n)
         \/ \E n, m \in Name : FSARename(n, m)
  PROVE  ReferenceStep
<1>1. transfer = Nil /\ transfer' = Nil /\ file' = file
  BY DEF FSARemove, FSAMakeDir, FSARename, ChangeNames, Idle
<1>2. Content = disk /\ Content' = disk' /\ Open' = Open
  BY <1>1, Calm
<1>3. CASE UNCHANGED disk
  BY <1>1, <1>3, Unseen
<1>4. \A op \in {"Remove", "MakeDir", "Rename"} : Deliver(op, Nil, OK) => Answered' = op
  <2> SUFFICES ASSUME NEW op \in {"Remove", "MakeDir", "Rename"}, Deliver(op, Nil, OK)
               PROVE  Answered' = op
    OBVIOUS
  <2>1. op \in AllOps
    BY DEF AllOps, PathOps
  <2> QED
    BY <2>1, Tells, WordFacts, NoBytesFacts DEF Deliver
<1>5. ASSUME NEW n \in Name, FSARemove(n), disk' # disk PROVE ReferenceStep
  <2>1. /\ ~InUse(n) /\ disk' = [disk EXCEPT ![n] = Nothing] /\ Answered' = "Remove"
    BY <1>4, <1>5 DEF FSARemove, ChangeNames
  <2> QED
    BY <1>1, <1>2, <2>1, SeenUse, SameStorage DEF ReferenceStep, Reference!Next, Reference!Remove
<1>6. ASSUME NEW n \in Name, FSAMakeDir(n), disk' # disk PROVE ReferenceStep
  <2>1. /\ Present(n) = {} /\ disk' = [disk EXCEPT ![n] = Directory] /\ Answered' = "MakeDir"
    BY <1>4, <1>6 DEF FSAMakeDir, ChangeNames
  <2>2. disk[n].type = "none"
    BY <2>1 DEF Present
  <2> QED
    BY <1>1, <1>2, <2>1, <2>2, SameStorage DEF ReferenceStep, Reference!Next, Reference!MakeDir
<1>7. ASSUME NEW n \in Name, NEW m \in Name, FSARename(n, m), disk' # disk
      PROVE  ReferenceStep
  <2>1. /\ ~InUse(n) /\ Present(m) = {} /\ Answered' = "Rename"
        /\ disk' = [disk EXCEPT ![m] = disk[n], ![n] = Nothing]
    BY <1>4, <1>7 DEF FSARename, ChangeNames
  <2>2. disk[m].type = "none"
    BY <2>1 DEF Present
  <2>3. Reference!Rename(n, m)
    BY <1>1, <1>2, <2>1, <2>2, SeenUse, SameStorage DEF Reference!Rename
  <2> QED
    BY <1>2, <2>3 DEF ReferenceStep, Reference!Next
<1> QED
  BY <1>3, <1>5, <1>6, <1>7

-----------------------------------------------------------------------------
(* Transfers: the position is taken when a loop begins; the bytes and the new   *)
(* position are seen when it ends.                                             *)

(* While a loop runs, the reference sees its file and its position as they were. *)
LEMMA Running ==
  ASSUME IInv, transfer # Nil
  PROVE  /\ Content = [disk EXCEPT ![file[transfer.f].name].data = transfer.bytes.prior]
         /\ Open = [g \in File |->
                      IF g = transfer.f
                      THEN [name |-> file[g].name, pos |-> transfer.pos0]
                      ELSE Handle(file[g])]
         /\ Answered = Nil /\ transfer.pos0 \in Nat
<1>1. /\ transfer.f \in OpenFiles /\ reply = Nil /\ transfer.pos0 \in 0 .. MaxPos
  BY LoopFacts DEF Transfer
<1>2. transfer.pos0 \in Nat
  BY <1>1, FileOpsAssumption
<1> QED
  BY <1>1, <1>2 DEF Content, Open, Handle, Answered, OpenFiles

(* A loop that begins at the position of the handle is not seen.               *)
LEMMA BeginUnseen ==
  ASSUME IInv, Idle, NEW f \in OpenFiles, NEW op, NEW t, NEW p, Begin(op, f, t, p),
         t.prior = Data(f), UNCHANGED <<disk, reply>>,
         file' \in [File -> {Nil} \cup Handles], OpenFiles' = OpenFiles,
         \A g \in File : g # f => file'[g] = file[g],
         file'[f].name = file[f].name, file'[f].pos = p
  PROVE  /\ Content' = Content /\ Answered' = Answered
         /\ Open' = [g \in File |-> Handle(file'[g])]
<1>1. /\ transfer = Nil /\ transfer'.f = f /\ transfer'.bytes = t /\ transfer'.pos0 = p
  BY DEF Idle, Begin
<1>2. Content = disk
  BY <1>1, Calm
<1>3. [disk EXCEPT ![file[f].name].data = Data(f)] = disk
  <2>1. disk \in [Name -> Entry] /\ file[f].name \in Name
    BY DiskFacts
  <2>2. [disk[file[f].name] EXCEPT !.data = Data(f)] = disk[file[f].name]
    BY <2>1 DEF Entry, Data
  <2> QED
    BY <2>1, <2>2
<1>4. Content' = disk
  BY <1>1, <1>3 DEF Content
<1>5. Open' = [g \in File |-> Handle(file'[g])]
  BY <1>1 DEF Open, Handle, OpenFiles
<1> QED
  BY <1>2, <1>4, <1>5 DEF Answered

(* A read that starts a loop is a stutter; one that answers at once changes nothing.*)
LEMMA ReadFileRefines ==
  ASSUME IInv, NEW f \in File, NEW api \in APIs, NEW size \in Size, NEW count \in Count,
         FSAReadFile(api, f, size, count)
  PROVE  ReferenceStep
<1> DEFINE t == Started(api, size, count, file[f].pos, Data(f))
<1>1. Idle /\ transfer = Nil /\ f \in OpenFiles /\ UNCHANGED <<disk, file>>
  BY DEF FSAReadFile, Idle, OpenFiles
<1>2. CASE UNCHANGED transfer
  BY <1>1, <1>2, Unseen
<1>3. CASE Begin("ReadFile", f, t, file[f].pos) /\ UNCHANGED reply
  <2>1. t.prior = Data(f) /\ OpenFiles' = OpenFiles
    BY <1>1 DEF Started, OpenFiles
  <2>2. file' \in [File -> {Nil} \cup Handles]
    BY <1>1 DEF IInv, FileOK
  <2> HIDE DEF t
  <2>3. /\ Content' = Content /\ Answered' = Answered
        /\ Open' = [g \in File |-> Handle(file'[g])]
    BY <1>1, <1>3, <2>1, <2>2, BeginUnseen
  <2>4. Open' = Open
    BY <1>1, <2>3, Calm
  <2> QED
    BY <2>3, <2>4 DEF ReferenceStep
<1> QED
  BY <1>2, <1>3 DEF FSAReadFile, StartRead

(* So does a write.                                                            *)
LEMMA WriteFileRefines ==
  ASSUME IInv, NEW f \in File, NEW api \in APIs, NEW size \in Size, NEW count \in Count,
         FSAWriteFile(api, f, size, count)
  PROVE  ReferenceStep
<1> DEFINE t == Started(api, size, count, At(f), Data(f))
<1>1. Idle /\ transfer = Nil /\ f \in OpenFiles /\ UNCHANGED <<disk, file>>
  BY DEF FSAWriteFile, Idle, OpenFiles
<1>2. CASE UNCHANGED transfer
  BY <1>1, <1>2, Unseen
<1>3. CASE Begin("WriteFile", f, t, file[f].pos) /\ UNCHANGED reply
  <2>1. t.prior = Data(f) /\ OpenFiles' = OpenFiles
    BY <1>1 DEF Started, OpenFiles
  <2>2. file' \in [File -> {Nil} \cup Handles]
    BY <1>1 DEF IInv, FileOK
  <2> HIDE DEF t
  <2>3. /\ Content' = Content /\ Answered' = Answered
        /\ Open' = [g \in File |-> Handle(file'[g])]
    BY <1>1, <1>3, <2>1, <2>2, BeginUnseen
  <2>4. Open' = Open
    BY <1>1, <2>3, Calm
  <2> QED
    BY <2>3, <2>4 DEF ReferenceStep
<1> QED
  BY <1>2, <1>3 DEF FSAWriteFile, At

(* A read that names a position takes it at once, whether it goes on or not.     *)
LEMMA ReadFileWithPosRefines ==
  ASSUME IInv, NEW f \in File, NEW api \in APIs, NEW size \in Size, NEW count \in Count,
         NEW pos \in Positions, FSAReadFileWithPos(api, f, size, count, pos)
  PROVE  ReferenceStep
<1> DEFINE t == Started(api, size, count, pos, Data(f))
<1>1. /\ Idle /\ transfer = Nil /\ f \in OpenFiles /\ disk' = disk
      /\ pos \in 0 .. MaxPos /\ pos \in Nat /\ size \in Nat /\ count \in Nat
  BY FileOpsAssumption DEF FSAReadFileWithPos, Idle, OpenFiles
<1>2. CASE UNCHANGED <<file, transfer>>
  BY <1>1, <1>2, Unseen
<1>3. CASE MoveTo(f, pos) /\ StartRead(api, f, size, count, pos)
  <2>1. t \in Bytes /\ t.prior = Data(f)
    BY <1>1, HandleFacts, StartedType DEF Started
  <2>2. /\ Content' = Content /\ Answered' \in {"ReadFile", Nil}
        /\ Open' = [g \in File |-> Handle(file'[g])]
    <3>1. CASE UNCHANGED transfer /\ Answer("ReadFile", f, OK, FALSE, t)
      BY <1>1, <2>1, <3>1, Calm, Tells, OpNames, WordFacts
    <3>2. CASE UNCHANGED transfer /\ Deliver("ReadFile", f, Error("INVALID_BUFFER"))
      BY <1>1, <3>2, Calm, Tells, OpNames, WordFacts, ErrorNames, NoBytesFacts DEF Deliver
    <3>3. CASE Begin("ReadFile", f, t, pos) /\ UNCHANGED reply
      <4>1. /\ file' \in [File -> {Nil} \cup Handles] /\ OpenFiles' = OpenFiles
            /\ file'[f].name = file[f].name /\ file'[f].pos = pos
        BY <1>1, <1>3, MoveFacts
      <4>2. \A g \in File : g # f => file'[g] = file[g]
        BY <1>3 DEF MoveTo, IInv, FileOK
      <4>3. Answered = Nil
        BY <1>1 DEF Idle, Answered
      <4> HIDE DEF t
      <4> QED
        BY <1>1, <2>1, <3>3, <4>1, <4>2, <4>3, BeginUnseen
    <3> QED
      BY <1>3, <3>1, <3>2, <3>3 DEF StartRead
  <2>3. Reference!MoveTo(f, pos)
    BY <1>1, <1>3, <2>2, SeenMove
  <2> QED
    BY <2>2, <2>3 DEF ReferenceStep, Reference!Next, Reference!Seek
<1> QED
  BY <1>2, <1>3 DEF FSAReadFileWithPos

(* What a loop keeps while it goes on.                                         *)
LEMMA AdvanceFacts ==
  ASSUME IInv, transfer # Nil, NEW more \in Seq(Nat), Len(more) <= transfer.left,
         Advance(more)
  PROVE  /\ transfer' # Nil /\ transfer'.op = transfer.op /\ transfer'.f = transfer.f
         /\ transfer'.pos0 = transfer.pos0
         /\ transfer'.bytes.from = transfer.bytes.from
         /\ transfer'.bytes.prior = transfer.bytes.prior
         /\ Len(transfer'.bytes.buf) = Len(transfer.bytes.buf) + Len(more)
         /\ transfer'.left = transfer.left - Len(more)
         /\ transfer'.bytes.api = transfer.bytes.api
         /\ transfer'.bytes.size = transfer.bytes.size
         /\ transfer'.bytes.count = transfer.bytes.count
<1> DEFINE t == transfer.bytes
           new == [t EXCEPT !.buf = t.buf \o more]
<1>1. /\ transfer \in Transfer /\ t \in Bytes /\ t.buf \in Seq(Nat) /\ transfer.left \in Nat
      /\ Len(more) \in Nat
  BY LoopFacts, LenProperties
<1>2. t.buf \o more \in Seq(Nat) /\ Len(t.buf \o more) = Len(t.buf) + Len(more)
  BY <1>1, ConcatProperties
<1>3. /\ new \in Bytes /\ new.buf = t.buf \o more /\ new.from = t.from
      /\ new.prior = t.prior /\ new.api = t.api /\ new.size = t.size /\ new.count = t.count
  BY <1>1, <1>2 DEF Bytes
<1>4. transfer.left - Len(more) \in Nat
  BY <1>1
<1>5. transfer' = [transfer EXCEPT !.bytes.buf = t.buf \o more, !.left = @ - Len(more)]
  BY DEF Advance
<1>6. transfer' = [op |-> transfer.op, f |-> transfer.f, bytes |-> new,
                   left |-> transfer.left - Len(more), pos0 |-> transfer.pos0]
  BY <1>1, <1>5 DEF Transfer
<1>7. transfer' \in Transfer
  BY <1>1, <1>3, <1>4, <1>6 DEF Transfer
<1>8. transfer' # Nil
  BY <1>7, RecordsAssumption
<1> QED
  BY <1>2, <1>3, <1>6, <1>8
(* A loop that goes on is not seen: the bytes it has moved come into sight when  *)
(* it ends.                                                                   *)
LEMMA AdvanceUnseen ==
  ASSUME IInv, transfer # Nil, NEW more \in Seq(Nat), Len(more) <= transfer.left,
         Advance(more), NEW p \in 0 .. MaxPos, MoveTo(transfer.f, p), UNCHANGED reply,
         disk' = disk \/ \E data : disk' = [disk EXCEPT ![file[transfer.f].name].data = data]
  PROVE  ReferenceStep
<1> DEFINE f == transfer.f
           name == file[f].name
<1>1. /\ f \in OpenFiles /\ f \in File /\ reply = Nil /\ name \in Name
      /\ disk \in [Name -> Entry]
  BY LoopFacts, HandleFacts, DiskFacts
<1>2. /\ transfer' # Nil /\ transfer'.f = f /\ transfer'.pos0 = transfer.pos0
      /\ transfer'.bytes.prior = transfer.bytes.prior
  BY AdvanceFacts
<1>3. /\ file'[f].name = name /\ OpenFiles' = OpenFiles
      /\ \A g \in File : g # f => file'[g] = file[g]
  <2>1. file'[f].name = name /\ OpenFiles' = OpenFiles
    BY <1>1, MoveFacts
  <2>2. \A g \in File : g # f => file'[g] = file[g]
    BY <1>1 DEF MoveTo, IInv, FileOK
  <2> QED
    BY <2>1, <2>2
<1>4. Content' = Content
  <2>1. /\ Content = [disk EXCEPT ![name].data = transfer.bytes.prior]
        /\ Content' = [disk' EXCEPT ![name].data = transfer.bytes.prior]
    BY <1>2, <1>3 DEF Content
  <2> HIDE DEF name
  <2>2. CASE disk' = disk
    BY <2>1, <2>2
  <2>3. CASE \E data : disk' = [disk EXCEPT ![name].data = data]
    <3>1. PICK data : disk' = [disk EXCEPT ![name].data = data]
      BY <2>3
    <3>2. [disk'[name] EXCEPT !.data = transfer.bytes.prior]
            = [disk[name] EXCEPT !.data = transfer.bytes.prior]
      BY <1>1, <3>1 DEF Entry
    <3>3. /\ DOMAIN disk' = Name /\ DOMAIN disk = Name
          /\ \A m \in Name : m # name => disk'[m] = disk[m]
      BY <1>1, <3>1
    <3>4. [disk' EXCEPT ![name].data = transfer.bytes.prior]
            = [disk EXCEPT ![name].data = transfer.bytes.prior]
      BY <1>1, <3>1, <3>2, <3>3
    <3> QED
      BY <2>1, <3>4
  <2> QED
    BY <2>2, <2>3 DEF name
<1>5. Open' = Open
  <2>1. \A g \in File : file'[g] = Nil <=> file[g] = Nil
    BY <1>3 DEF OpenFiles
  <2> QED
    BY <1>1, <1>2, <1>3, <2>1 DEF Open
<1> QED
  BY <1>4, <1>5 DEF ReferenceStep, Answered

(* A read ends: its position is behind the bytes it moved.                      *)
LEMMA ReadEnds ==
  ASSUME IInv, PlaceOK, transfer # Nil, transfer.op = "ReadFile", UNCHANGED <<disk, file>>,
         NEW w \in Words, NEW fault \in BOOLEAN, EndTransfer(w, fault)
  PROVE  ReferenceStep
<1> DEFINE f == transfer.f
           t == transfer.bytes
           n == Len(t.buf)
           name == file[f].name
<1>1. /\ f \in OpenFiles /\ f \in File /\ t \in Bytes /\ n \in Nat /\ t.from \in Nat
      /\ t.prior = Data(f) /\ file[f].pos = t.from + n
      /\ t.from = transfer.pos0 /\ (n > 0 => t.from + n <= Len(t.prior))
      /\ transfer' = Nil
  BY LoopFacts, HandleFacts DEF LoopOK, PlaceOK, EndTransfer
<1>2. Answered' = "ReadFile"
  BY <1>1, Tells, OpNames DEF EndTransfer
<1>3. Content = disk /\ Content' = disk
  <2>1. disk \in [Name -> Entry] /\ name \in Name
    BY <1>1, DiskFacts
  <2>2. [disk[name] EXCEPT !.data = t.prior] = disk[name]
    BY <1>1, <2>1 DEF Entry, Data
  <2>3. Content = [disk EXCEPT ![name].data = t.prior]
    BY Running
  <2> HIDE DEF name, t
  <2> QED
    BY <1>1, <2>1, <2>2, <2>3, Calm
<1>4. /\ Open = [g \in File |-> IF g = f THEN [name |-> name, pos |-> t.from]
                                ELSE Handle(file[g])]
      /\ Open' = [g \in File |-> Handle(file[g])]
      /\ Handle(file[f]) = [name |-> name, pos |-> t.from + n]
  <2>1. Handle(file[f]) = [name |-> name, pos |-> file[f].pos]
    BY <1>1, HandleIsThere
  <2> QED
    BY <1>1, <2>1, Running, Calm
<1>5. /\ Open[f] = [name |-> name, pos |-> t.from] /\ Open[f] # Nil
      /\ Open' = [Open EXCEPT ![f].pos = t.from + n]
  <2>1. [name |-> name, pos |-> t.from] \in [name : Name, pos : Nat]
    BY <1>1, HandleIsThere
  <2>2. Open[f] = [name |-> name, pos |-> t.from] /\ Open[f] # Nil
    BY <1>1, <1>4, <2>1, NilAssumption
  <2> HIDE DEF f, n, t, name
  <2> QED
    BY <1>1, <1>4, <2>2
<1>6. CASE n = 0
  <2>1. t.from + n = t.from
    BY <1>1, <1>6
  <2> HIDE DEF f, n, t, name
  <2>2. Open' = Open
    BY <1>1, <1>4, <2>1
  <2> QED
    BY <1>3, <2>2 DEF ReferenceStep, Reference!Next, Reference!Unchanged
<1>7. CASE n > 0
  <2>1. Reference!Bytes(f) = t.prior
    BY <1>1, <1>3, <1>5 DEF Reference!Bytes, Data
  <2>2. Len(t.prior) \in Nat
    BY <1>1, HandleFacts, LenProperties
  <2> DEFINE p == t.from + n
  <2>3. p \in Open[f].pos .. Len(Reference!Bytes(f))
    <3>1. Open[f].pos = t.from
      BY <1>5
    <3> HIDE DEF n, t, f
    <3> QED
      BY <1>1, <1>7, <2>1, <2>2, <3>1
  <2>4. Reference!MoveTo(f, p)
    BY <1>5 DEF Reference!MoveTo
  <2> HIDE DEF p, f
  <2>5. Reference!Read(f)
    BY <1>2, <1>3, <1>5, <2>3, <2>4 DEF Reference!Read
  <2> QED
    BY <1>1, <2>5 DEF ReferenceStep, Reference!Next
<1> QED
  BY <1>1, <1>6, <1>7
(* A write ends: what it put into the file is a prefix of the caller's bytes at  *)
(* the position or at the end, and its position is behind them.                *)
LEMMA WriteEnds ==
  ASSUME IInv, PlaceOK, transfer # Nil, transfer.op = "WriteFile", UNCHANGED <<disk, file>>,
         NEW w \in Words, NEW fault \in BOOLEAN, EndTransfer(w, fault)
  PROVE  ReferenceStep
<1> DEFINE f == transfer.f
           t == transfer.bytes
           n == Len(t.buf)
           name == file[f].name
           p == t.from + n
<1>1. /\ f \in OpenFiles /\ f \in File /\ t \in Bytes /\ n \in Nat /\ t.from \in Nat
      /\ t.prior \in Seq(Nat) /\ t.buf = Numbered(0, n)
      /\ Data(f) = Overlay(t.prior, t.from, t.buf)
      /\ t.from = IF file[f].append THEN Len(t.prior) ELSE transfer.pos0
      /\ file[f].pos = IF n = 0 THEN transfer.pos0 ELSE p
      /\ transfer' = Nil /\ transfer.pos0 \in Nat
  BY LoopFacts, HandleFacts, Running DEF LoopOK, PlaceOK, EndTransfer
<1>2. Answered' = "WriteFile"
  BY <1>1, Tells, OpNames DEF EndTransfer
<1>3. /\ disk \in [Name -> Entry] /\ name \in Name /\ disk[name].data = Data(f)
      /\ Content = [disk EXCEPT ![name].data = t.prior] /\ Content' = disk
  BY <1>1, DiskFacts, Running, Calm DEF Data
<1>4. /\ Open[f] = [name |-> name, pos |-> transfer.pos0] /\ Open[f] # Nil
      /\ Open' = [Open EXCEPT ![f].pos = file[f].pos]
  <2>1. Handle(file[f]) = [name |-> name, pos |-> file[f].pos]
    BY <1>1, HandleIsThere
  <2>2. /\ Open = [g \in File |-> IF g = f THEN [name |-> name, pos |-> transfer.pos0]
                                  ELSE Handle(file[g])]
        /\ Open' = [g \in File |-> Handle(file[g])]
    BY <1>1, Running, Calm
  <2>3. [name |-> name, pos |-> transfer.pos0] \in [name : Name, pos : Nat]
    BY <1>1, <1>3
  <2>4. Open[f] = [name |-> name, pos |-> transfer.pos0] /\ Open[f] # Nil
    BY <1>1, <2>2, <2>3, NilAssumption
  <2> HIDE DEF f, n, t, name, p
  <2> QED
    BY <1>1, <2>1, <2>2, <2>4
<1>5. CASE n = 0
  <2>1. file[f].pos = transfer.pos0
    BY <1>1, <1>5
  <2>2. Data(f) = t.prior
    BY <1>1, <1>5, NumberedFacts DEF Overlay
  <2>3. [disk[name] EXCEPT !.data = t.prior] = disk[name]
    BY <1>3, <2>2 DEF Entry
  <2> HIDE DEF f, n, t, name, p
  <2>4. Content' = Content
    BY <1>3, <2>3
  <2>5. Open' = Open
    <3>1. DOMAIN Open = File /\ Open = [g \in File |-> Open[g]]
      BY DEF Open
    <3>2. [Open[f] EXCEPT !.pos = transfer.pos0] = Open[f]
      BY <1>4
    <3> QED
      BY <1>1, <1>4, <2>1, <3>1, <3>2
  <2> QED
    BY <2>4, <2>5 DEF ReferenceStep, Reference!Next, Reference!Unchanged
<1>6. CASE n > 0
  <2>1. /\ Content[name].data = t.prior /\ Content'[name].data = Data(f)
        /\ Content' = [Content EXCEPT ![name].data = Data(f)]
    <3>1. Content[name] = [disk[name] EXCEPT !.data = t.prior]
          /\ Content[name].data = t.prior
      BY <1>3 DEF Entry
    <3>2. [Content[name] EXCEPT !.data = Data(f)] = disk[name]
      BY <1>3, <3>1 DEF Entry
    <3>3. DOMAIN Content = Name /\ \A m \in Name : m # name => Content[m] = disk[m]
      BY <1>3
    <3> HIDE DEF f, n, t, name, p
    <3> QED
      BY <1>3, <3>1, <3>2, <3>3
  <2>2. /\ Reference!Prefix(p - t.from) = t.buf
    <3>1. p - t.from = n
      BY <1>1
    <3>2. Reference!Prefix(n) = Numbered(0, n)
      <4>1. n \in Nat
        BY <1>1
      <4> HIDE DEF n
      <4>2. \A i \in 1 .. n : 0 + i = i
        BY <4>1
      <4> QED
        BY <4>2 DEF Reference!Prefix, Numbered
    <3> QED
      BY <1>1, <3>1, <3>2
  <2>3. p \in 1 .. Len(Data(f)) /\ p > t.from
    <3>1. Numbered(0, n) \in Seq(Nat) /\ Len(Numbered(0, n)) = n
      <4>1. n \in Nat
        BY <1>1
      <4> HIDE DEF n
      <4> QED
        BY <4>1, NumberedFacts
    <3>2. Len(Data(f)) = Larger(Len(t.prior), t.from + n)
      <4>1. n \in Nat \ {0} /\ t.buf \in Seq(Nat) /\ Len(t.buf) = n
        BY <1>1, <1>6, <3>1
      <4> HIDE DEF n, t
      <4> QED
        BY <1>1, <4>1, OverlayOf
    <3>3. Len(t.prior) \in Nat
      BY <1>1, LenProperties
    <3> HIDE DEF n, t, f
    <3> QED
      BY <1>1, <1>6, <3>2, <3>3 DEF Larger, p
  <2>4. t.from \in {Open[f].pos, Len(Reference!Bytes(f))}
    BY <1>1, <1>4, <2>1 DEF Reference!Bytes
  <2>5. Reference!MoveTo(f, p)
    <3>1. file[f].pos = p
      BY <1>1, <1>6
    <3> HIDE DEF f, p
    <3> QED
      BY <1>4, <3>1 DEF Reference!MoveTo
  <2>6. Content' = [Content EXCEPT ![Open[f].name].data =
                      Reference!Overlay(@, t.from, Reference!Prefix(p - t.from))]
    <3>1. Open[f].name = name
      BY <1>4
    <3>2. Reference!Overlay(Content[name].data, t.from, Reference!Prefix(p - t.from)) = Data(f)
      BY <1>1, <2>1, <2>2, SameStorage
    <3> HIDE DEF f, n, t, name, p
    <3> QED
      BY <2>1, <3>1, <3>2
  <2>7. p \in 1 .. Len(Content'[Open[f].name].data)
    BY <1>4, <2>1, <2>3
  <2> DEFINE at == t.from
  <2> HIDE DEF f, p, at
  <2>8. Reference!Write(f)
    BY <1>2, <1>4, <2>3, <2>4, <2>5, <2>6, <2>7 DEF Reference!Write, at
  <2> QED
    BY <1>1, <2>8 DEF ReferenceStep, Reference!Next
<1> QED
  BY <1>1, <1>5, <1>6

(* A read() in the loop is a stutter, or the end of it the reference's Read.   *)
LEMMA ReadSomeRefines ==
  ASSUME IInv, PlaceOK, ReadSome
  PROVE  ReferenceStep
<1> DEFINE f == transfer.f
           pos == file[f].pos
           rest == IF Len(Data(f)) > pos THEN Len(Data(f)) - pos ELSE 0
<1>1. /\ transfer # Nil /\ transfer.op = "ReadFile" /\ f \in OpenFiles
      /\ disk' = disk /\ transfer.bytes \in Bytes
  BY LoopFacts DEF ReadSome
<1>2. /\ Data(f) \in Seq(Nat) /\ Len(Data(f)) <= MaxLen /\ file[f].read \in BOOLEAN
      /\ pos \in Nat /\ Len(Data(f)) \in Nat
  BY <1>1, HandleFacts, HandleIsThere, LenProperties DEF Handles
<1>3. ASSUME NEW w \in Elements(transfer.bytes), EndTransfer(w, FALSE), UNCHANGED file
      PROVE  ReferenceStep
  BY <1>1, <1>3, ElementsFacts, ReadEnds
<1>4. CASE EndTransfer(Error(ReadError(f)), file[f].read) /\ UNCHANGED file
  BY <1>1, <1>2, <1>4, ErrorNames, WordFacts, ReadEnds
<1>5. ASSUME NEW k \in 1 .. rest, k <= transfer.left, MoveTo(f, pos + k), UNCHANGED reply,
             Advance(SubSeq(Data(f), pos + 1, pos + k))
      PROVE  ReferenceStep
  <2> DEFINE more == SubSeq(Data(f), pos + 1, pos + k)
  <2>1. pos + 0 + k <= Len(Data(f)) /\ k \in Nat \ {0} /\ 0 \in Nat
    BY <1>2
  <2>2. more \in Seq(Nat) /\ Len(more) = k
    <3> DEFINE data == Data(f)
    <3>1. data \in Seq(Nat) /\ pos \in Nat /\ pos + 0 = pos
      BY <1>2
    <3> HIDE DEF data, pos
    <3> QED
      BY <2>1, <3>1, ReadInTwo DEF data
  <2>3. pos + k \in 0 .. MaxPos
    <3> HIDE DEF f, pos
    <3> QED
      BY <1>2, <2>1, FileOpsAssumption
  <2> HIDE DEF more
  <2> QED
    BY <1>1, <1>5, <2>2, <2>3, AdvanceUnseen DEF more
<1> QED
  BY <1>3, <1>4, <1>5 DEF ReadSome

(* A write() in the loop is a stutter, or the end of it the reference's Write. *)
LEMMA WriteSomeRefines ==
  ASSUME IInv, PlaceOK, WriteSome
  PROVE  ReferenceStep
<1> DEFINE f == transfer.f
           at == At(f)
           n == Len(transfer.bytes.buf)
<1>1. /\ transfer # Nil /\ transfer.op = "WriteFile" /\ f \in OpenFiles
      /\ transfer.bytes \in Bytes /\ transfer.left \in Nat /\ n \in Nat
      /\ transfer.bytes.from \in Nat /\ at = transfer.bytes.from + n
  BY LoopFacts DEF WriteSome, LoopOK
<1>2. CASE /\ \E w \in Elements(transfer.bytes) : EndTransfer(w, FALSE)
           /\ UNCHANGED <<disk, file>>
  BY <1>1, <1>2, ElementsFacts, WriteEnds
<1>3. CASE /\ \E e \in {"FILE_TOO_BIG", "ACCESS_ERROR", "MEDIA_ERROR"}, fault \in BOOLEAN :
                EndTransfer(Error(e), fault)
           /\ UNCHANGED <<disk, file>>
  BY <1>1, <1>3, ErrorNames, WordFacts, WriteEnds
<1>4. ASSUME NEW k \in 1 .. transfer.left, at + k <= MaxLen, UNCHANGED reply,
             disk' = [disk EXCEPT ![file[f].name].data = Overlay(@, at, Numbered(n, k))],
             Advance(Numbered(n, k)), MoveTo(f, at + k)
      PROVE  ReferenceStep
  <2> DEFINE more == Numbered(n, k)
  <2>1. k \in Nat /\ k <= transfer.left /\ at \in Nat
    BY <1>1
  <2>2. more \in Seq(Nat) /\ Len(more) = k
    <3>1. n \in Nat
      BY <1>1
    <3> HIDE DEF n
    <3> QED
      BY <2>1, <3>1, NumberedFacts
  <2>3. at + k \in 0 .. MaxPos
    <3> HIDE DEF at
    <3> QED
      BY <1>4, <2>1, FileOpsAssumption
  <2>4. \E data : disk' = [disk EXCEPT ![file[f].name].data = data]
    BY <1>4
  <2>5. Advance(more) /\ MoveTo(f, at + k) /\ UNCHANGED reply
    BY <1>4
  <2> HIDE DEF more, at
  <2> QED
    BY <1>1, <2>1, <2>2, <2>3, <2>4, <2>5, AdvanceUnseen
<1> QED
  BY <1>2, <1>3, <1>4 DEF WriteSome, At, NextBytes, Numbered
-----------------------------------------------------------------------------
(* The places of a transfer.                                                   *)

LEMMA PlaceOfBegin ==
  ASSUME IInv, NEW f \in OpenFiles, NEW op \in {"ReadFile", "WriteFile"}, NEW t, NEW p,
         Begin(op, f, t, p), t.buf = <<>>, file'[f].pos = p,
         op = "ReadFile" => t.from = p,
         op = "WriteFile" => t.from = IF file'[f].append THEN Len(t.prior) ELSE p
  PROVE  PlaceOK'
<1>1. /\ transfer'.op = op /\ transfer'.f = f /\ transfer'.bytes = t /\ transfer'.pos0 = p
      /\ Len(t.buf) = 0 /\ ~(0 > 0)
  BY EmptySeq DEF Begin
<1> QED
  BY <1>1 DEF PlaceOK

(* A read() inside the file stays inside it.                                   *)
LEMMA ReadPlace ==
  ASSUME IInv, PlaceOK, ReadSome
  PROVE  PlaceOK'
<1> DEFINE f == transfer.f
           pos == file[f].pos
           rest == IF Len(Data(f)) > pos THEN Len(Data(f)) - pos ELSE 0
<1>1. /\ transfer # Nil /\ transfer.op = "ReadFile" /\ f \in OpenFiles
      /\ pos = transfer.bytes.from + Len(transfer.bytes.buf)
      /\ transfer.bytes.prior = Data(f) /\ transfer.bytes.from = transfer.pos0
  BY LoopFacts DEF ReadSome, LoopOK, PlaceOK
<1>2. /\ Data(f) \in Seq(Nat) /\ pos \in Nat /\ Len(Data(f)) \in Nat
      /\ transfer.bytes.from \in Nat /\ Len(transfer.bytes.buf) \in Nat
  BY <1>1, LoopFacts, HandleFacts, HandleIsThere, LenProperties
<1>3. CASE transfer' = Nil
  BY <1>3 DEF PlaceOK
<1>4. ASSUME NEW k \in 1 .. rest, k <= transfer.left,
             Advance(SubSeq(Data(f), pos + 1, pos + k))
      PROVE  PlaceOK'
  <2> DEFINE more == SubSeq(Data(f), pos + 1, pos + k)
  <2>1. pos + 0 + k <= Len(Data(f)) /\ k \in Nat \ {0} /\ 0 \in Nat
    BY <1>2
  <2>2. more \in Seq(Nat) /\ Len(more) = k
    <3> DEFINE data == Data(f)
    <3>1. data \in Seq(Nat) /\ pos \in Nat /\ pos + 0 = pos
      BY <1>2
    <3> HIDE DEF data, pos
    <3> QED
      BY <2>1, <3>1, ReadInTwo DEF data
  <2> HIDE DEF more
  <2>3. /\ transfer'.op = "ReadFile" /\ transfer'.pos0 = transfer.pos0
        /\ transfer'.bytes.from = transfer.bytes.from
        /\ transfer'.bytes.prior = transfer.bytes.prior
        /\ Len(transfer'.bytes.buf) = Len(transfer.bytes.buf) + k
    BY <1>1, <1>4, <2>2, AdvanceFacts DEF more
  <2>4. transfer.bytes.from + (Len(transfer.bytes.buf) + k) <= Len(Data(f))
    <3> HIDE DEF f
    <3> QED
      BY <1>1, <1>2, <2>1
  <2> QED
    BY <1>1, <2>3, <2>4 DEF PlaceOK
<1> QED
  BY <1>3, <1>4 DEF ReadSome, EndTransfer

(* A write() leaves the position behind the bytes it wrote.                    *)
LEMMA WritePlace ==
  ASSUME IInv, PlaceOK, WriteSome
  PROVE  PlaceOK'
<1> DEFINE f == transfer.f
           at == At(f)
           n == Len(transfer.bytes.buf)
<1>1. /\ transfer # Nil /\ transfer.op = "WriteFile" /\ f \in OpenFiles
      /\ transfer.left \in Nat /\ n \in Nat /\ transfer.bytes.from \in Nat
      /\ at = transfer.bytes.from + n
      /\ transfer.bytes.from = IF file[f].append THEN Len(transfer.bytes.prior)
                               ELSE transfer.pos0
  BY LoopFacts DEF WriteSome, LoopOK, PlaceOK
<1>2. CASE transfer' = Nil
  BY <1>2 DEF PlaceOK
<1>3. ASSUME NEW k \in 1 .. transfer.left, at + k <= MaxLen,
             Advance(Numbered(n, k)), MoveTo(f, at + k)
      PROVE  PlaceOK'
  <2> DEFINE more == Numbered(n, k)
  <2>1. k \in Nat /\ k <= transfer.left /\ at \in Nat /\ k > 0
    BY <1>1
  <2>2. more \in Seq(Nat) /\ Len(more) = k
    <3>1. n \in Nat
      BY <1>1
    <3> HIDE DEF n
    <3> QED
      BY <2>1, <3>1, NumberedFacts
  <2>3. at + k \in 0 .. MaxPos
    <3> HIDE DEF at
    <3> QED
      BY <1>3, <2>1, FileOpsAssumption
  <2>4. file'[f].pos = at + k /\ file'[f].append = file[f].append
    <3> DEFINE to == at + k
    <3>1. f \in OpenFiles /\ to \in 0 .. MaxPos /\ MoveTo(f, to)
      BY <1>1, <1>3, <2>3
    <3> HIDE DEF f, to
    <3>2. file'[f].pos = to /\ file'[f].append = file[f].append
      BY <3>1, MoveFacts
    <3> QED
      BY <3>2 DEF to
  <2>5. Advance(more)
    BY <1>3
  <2> HIDE DEF more
  <2>6. /\ transfer'.op = "WriteFile" /\ transfer'.pos0 = transfer.pos0 /\ transfer'.f = f
        /\ transfer'.bytes.from = transfer.bytes.from
        /\ transfer'.bytes.prior = transfer.bytes.prior
        /\ Len(transfer'.bytes.buf) = n + k
    BY <1>1, <2>1, <2>2, <2>5, AdvanceFacts
  <2>7. at + k = transfer.bytes.from + (n + k) /\ n + k # 0
    <3>1. n \in Nat /\ transfer.bytes.from \in Nat /\ at = transfer.bytes.from + n
      BY <1>1
    <3> HIDE DEF n, at
    <3> QED
      BY <2>1, <3>1
  <2> HIDE DEF at, n
  <2> QED
    BY <1>1, <2>4, <2>6, <2>7 DEF PlaceOK
<1> QED
  BY <1>2, <1>3 DEF WriteSome, EndTransfer, At, NextBytes, Numbered

(* The calls on a handle that are not transfers.                               *)
CalmOnFile(f) ==
  \/ \E n \in Name, mode \in Mode : FSAOpenFile(f, n, mode)
  \/ FSACloseFile(f) \/ FSAIsEof(f) \/ FSATruncateFile(f) \/ FSAFlushFile(f)
  \/ \E pos \in Positions : FSASetPosFile(f, pos)
  \/ \E op \in HandleOps : Query(op, f) \/ Unsupported(op, f) \/ UnknownHandle(op, f)
  \/ \E api \in APIs, size \in Size, count \in Count :
       \E op \in {"ReadFile", "WriteFile"} : RefuseTransfer(op, f, api, size, count)

(* They, and what does not concern a handle, begin no transfer.                *)
LEMMA CalmSteps ==
  ASSUME IInv,
         \/ OnPath \/ Receive \/ RemoveFSLayer \/ \E f \in File : CalmOnFile(f)
         \/ \E op \in PathOps \cup HandleOps : ShimRefused(op)
         \/ \E k \in Kinds : AddFSLayer(k)
  PROVE  transfer' = Nil
<1>1. CASE Receive
  BY <1>1 DEF Receive, IInv, TransferOK
<1>2. CASE OnPath
  BY <1>2 DEF OnPath, FSARemove, FSAMakeDir, FSAGetStat, FSARename, ChangeNames,
              OutsideLayer, Still, Idle
<1>3. CASE \E f \in File : CalmOnFile(f)
  <2> PICK f \in File : CalmOnFile(f)
    BY <1>3
  <2>1. CASE \E n \in Name, mode \in Mode : FSAOpenFile(f, n, mode)
    BY <2>1 DEF FSAOpenFile, Still, Idle
  <2>2. CASE FSACloseFile(f) \/ FSAIsEof(f) \/ FSATruncateFile(f) \/ FSAFlushFile(f)
    BY <2>2 DEF FSACloseFile, FSAIsEof, FSATruncateFile, FSAFlushFile, Still, Idle
  <2>3. CASE \E pos \in Positions : FSASetPosFile(f, pos)
    BY <2>3 DEF FSASetPosFile, Still, Idle
  <2>4. CASE \E op \in HandleOps : Query(op, f) \/ Unsupported(op, f) \/ UnknownHandle(op, f)
    BY <2>4 DEF Query, Unsupported, UnknownHandle, Still, Idle
  <2>5. CASE \E api \in APIs, size \in Size, count \in Count :
               \E op \in {"ReadFile", "WriteFile"} : RefuseTransfer(op, f, api, size, count)
    BY <2>5 DEF RefuseTransfer, Still, Idle
  <2> QED
    BY <2>1, <2>2, <2>3, <2>4, <2>5 DEF CalmOnFile
<1>4. CASE \/ RemoveFSLayer \/ \E op \in PathOps \cup HandleOps : ShimRefused(op)
           \/ \E k \in Kinds : AddFSLayer(k)
  BY <1>4 DEF ShimRefused, RemoveFSLayer, AddFSLayer, Still, Idle
<1> QED
  BY <1>1, <1>2, <1>3, <1>4

(* No other step moves the position of the file a loop runs on.                *)
LEMMA PlaceStep ==
  ASSUME IInv, PlaceOK, [Next]_vars
  PROVE  PlaceOK'
<1>1. CASE transfer' = Nil
  BY <1>1 DEF PlaceOK
<1>2. ASSUME NEW f \in File, NEW api \in APIs, NEW size \in Size, NEW count \in Count,
             FSAReadFile(api, f, size, count)
      PROVE  PlaceOK'
  <2>1. transfer = Nil /\ f \in OpenFiles /\ file' = file
    BY <1>2 DEF FSAReadFile, Idle, OpenFiles
  <2>2. CASE UNCHANGED transfer
    BY <1>1, <2>1, <2>2
  <2> DEFINE t == Started(api, size, count, file[f].pos, Data(f))
  <2>3. CASE Begin("ReadFile", f, t, file[f].pos)
    <3>1. t.buf = <<>> /\ t.from = file[f].pos
      BY DEF Started
    <3> HIDE DEF t
    <3> QED
      BY <2>1, <2>3, <3>1, PlaceOfBegin
  <2> QED
    BY <1>2, <2>2, <2>3 DEF FSAReadFile, StartRead
<1>3. ASSUME NEW f \in File, NEW api \in APIs, NEW size \in Size, NEW count \in Count,
             FSAWriteFile(api, f, size, count)
      PROVE  PlaceOK'
  <2>1. transfer = Nil /\ f \in OpenFiles /\ file' = file
    BY <1>3 DEF FSAWriteFile, Idle, OpenFiles
  <2>2. CASE UNCHANGED transfer
    BY <1>1, <2>1, <2>2
  <2> DEFINE t == Started(api, size, count, At(f), Data(f))
  <2>3. CASE Begin("WriteFile", f, t, file[f].pos)
    <3>1. /\ t.buf = <<>> /\ t.prior = Data(f)
          /\ t.from = IF file'[f].append THEN Len(t.prior) ELSE file[f].pos
      BY <2>1 DEF Started, At
    <3> HIDE DEF t
    <3> QED
      BY <2>1, <2>3, <3>1, PlaceOfBegin
  <2> QED
    BY <1>3, <2>2, <2>3 DEF FSAWriteFile, At
<1>4. ASSUME NEW f \in File, NEW api \in APIs, NEW size \in Size, NEW count \in Count,
             NEW pos \in Positions, FSAReadFileWithPos(api, f, size, count, pos)
      PROVE  PlaceOK'
  <2>1. transfer = Nil /\ f \in OpenFiles /\ pos \in 0 .. MaxPos
    BY <1>4, FileOpsAssumption DEF FSAReadFileWithPos, Idle, OpenFiles
  <2>2. CASE UNCHANGED transfer
    BY <1>1, <2>1, <2>2
  <2> DEFINE t == Started(api, size, count, pos, Data(f))
  <2>3. CASE MoveTo(f, pos) /\ Begin("ReadFile", f, t, pos)
    <3>1. t.buf = <<>> /\ t.from = pos
      BY DEF Started
    <3>2. file'[f].pos = pos
      BY <2>1, <2>3, MoveFacts
    <3> HIDE DEF t
    <3> QED
      BY <2>1, <2>3, <3>1, <3>2, PlaceOfBegin
  <2> QED
    BY <1>4, <2>2, <2>3 DEF FSAReadFileWithPos, StartRead
<1>5. CASE ReadSome \/ WriteSome
  BY <1>5, ReadPlace, WritePlace
<1>6. CASE UNCHANGED vars
  BY <1>6 DEF vars, PlaceOK
<1>7. CASE \/ OnPath \/ Receive \/ RemoveFSLayer
           \/ \E op \in PathOps \cup HandleOps : ShimRefused(op)
           \/ \E k \in Kinds : AddFSLayer(k)
  BY <1>1, <1>7, CalmSteps
<1>8. ASSUME NEW f \in File, CalmOnFile(f) PROVE PlaceOK'
  BY <1>1, <1>8, CalmSteps
<1> QED
  BY <1>2, <1>3, <1>4, <1>5, <1>6, <1>7, <1>8 DEF Next, OnFile, CalmOnFile

-----------------------------------------------------------------------------
(* Every step is one of the reference or changes nothing that it sees.           *)

LEMMA StepRefines ==
  ASSUME IInv, PlaceOK, [Next]_vars
  PROVE  ReferenceStep
<1>1. ASSUME NEW f \in File, OnFile(f) PROVE ReferenceStep
  BY <1>1, OpenRefines, CloseRefines, EofRefines, TruncateRefines, SeekRefines, QuietRefines,
     ReadFileRefines, WriteFileRefines, ReadFileWithPosRefines DEF OnFile
<1>2. CASE OnPath
  BY <1>2, NamesRefine, QuietRefines DEF OnPath
<1>3. CASE ReadSome \/ WriteSome \/ Receive
  BY <1>3, ReadSomeRefines, WriteSomeRefines, QuietRefines
<1>4. CASE \E op \in PathOps \cup HandleOps : ShimRefused(op)
  BY <1>4, QuietRefines DEF AllOps
<1>5. CASE RemoveFSLayer \/ \E k \in Kinds : AddFSLayer(k)
  BY <1>5, RemoveLayerRefines, QuietRefines
<1>6. CASE UNCHANGED vars
  BY <1>6 DEF vars, ReferenceStep, Content, Open, Answered
<1> QED
  BY <1>1, <1>2, <1>3, <1>4, <1>5, <1>6 DEF Next

(* Every running transfer knows where it began, and a read has not left its file. *)
THEOREM Places == Spec => [](IInv /\ PlaceOK)
<1>1. Init => IInv /\ PlaceOK
  BY InitIInv DEF Init, PlaceOK
<1>2. IInv /\ PlaceOK /\ [Next]_vars => (IInv /\ PlaceOK)'
  BY StepIInv, PlaceStep
<1> QED
  BY <1>1, <1>2, PTL DEF Spec

(* What an application sees of the files of a layer is what ReferenceFile lets it  *)
(* see: loops of short reads and writes, failures half-way and refusals included *)
(* (FSWrapper.cpp, readIntoBuffer and writeFromBuffer).                         *)
THEOREM Refinement == Spec => ImplementsReference
<1>1. Init => Reference!Init
  BY DEF Init, Reference!Init, Open, Answered
<1>2. IInv /\ PlaceOK /\ [Next]_vars => [Reference!Next]_<<Content, Open, Answered>>
  BY StepRefines DEF ReferenceStep
<1> QED
  BY <1>1, <1>2, Places, PTL DEF Spec, ImplementsReference, Reference!Spec
-----------------------------------------------------------------------------
(* Who answers, and why.                                                       *)

(* The words for which processFSError has nothing better than a fatal error.     *)
Grave == {"OK", "unnamed", "MEDIA_ERROR", "INVALID_PARAM", "INVALID_BUFFER", "INVALID_FILEHANDLE",
          "INVALID_CLIENTHANDLE", "OUT_OF_RESOURCES", "BUSY"}

(* A read that word w reports a success of has got what it asked for, or has met   *)
(* the end of the file.                                                       *)
ReadsToTheEnd(f, w, t) ==
  \/ t.size = 0
  \/ /\ w.count = Len(t.buf) \div t.size
     /\ \/ w.count = t.count
        \/ file'[f].pos >= Len(disk'[file'[f].name].data)
        \/ t.api = "FSA" /\ t.size * t.count >= Word

(* A transfer may be told as an error.                                         *)
IsFull(f) ==
  (IF file'[f].append THEN Len(disk'[file'[f].name].data) ELSE file'[f].pos) >= MaxLen
TransferFails(op, f, fault, t) ==
  \/ fault \/ TakenForError(op, t)
  \/ op = "ReadFile" /\ ~file'[f].read
  \/ op = "WriteFile" /\ (~file'[f].write \/ IsFull(f))

(* Word w is a proper end of a call: if it is one for which the console is asked, *)
(* or one that turns into a fatal error, the call has a reason for it; if it is a *)
(* read's success, the read is complete; a failure of the storage is an error,   *)
(* and a transfer is one only if it may be.                                     *)
Excused(op, f, w, fault, t) ==
  /\ op \in HandleOps /\ file'[f] # Nil /\ (w = FORCE_PARENT_LAYER \/ FallsBack(w, kind = "merge"))
       => \/ op \in {"WriteFileWithPos", "OtherFlags"}
          \/ TakenForError(op, t)
          \/ /\ kind = "merge"
             /\ \/ fault \/ op \in {"WriteFile", "TruncateFile", "FlushFile"}
                \/ op = "ReadFile" /\ t = NoBytes
  /\ w.extra # "none" /\ w # FORCE_PARENT_LAYER /\ w.name \in Grave =>
       \/ fault \/ TakenForError(op, t) \/ w.name = "INVALID_BUFFER"
       \/ op \in {"Remove", "Rename", "WriteFile", "TruncateFile"}
  /\ op = "ReadFile" /\ w.extra = "none" => ReadsToTheEnd(f, w, t)
  /\ fault => w.extra # "none"
  /\ w.extra # "none" /\ t # NoBytes => TransferFails(op, f, fault, t)

Answers(op, f, w, fault, t) ==
  /\ op \in AllOps /\ f \in File \cup {Nil} /\ w \in Words /\ fault \in BOOLEAN /\ t \in Bytes
  /\ Answer(op, f, w, fault, t) /\ Excused(op, f, w, fault, t)

(* A step says nothing, or the wrapper refuses, or a call ends properly.         *)
Spoken ==
  /\ kind' = kind \/ reply' = Nil
  /\ \/ reply' = Nil \/ reply'.by = "wrapper"
     \/ reply'.by = "fatal" /\ reply'.bytes.size * reply'.bytes.count >= Word
     \/ \E op, f, w, fault, t : Answers(op, f, w, fault, t)

(* The errors that processFSError makes fatal are errors of a layer, of these names.*)
LEMMA GraveFacts ==
  ASSUME NEW c \in FSError, processFSError(c, {}) = "FATAL_ERROR"
  PROVE  c.extra # "none" /\ c.name \in Grave
<1>1. c.name \in FSErrorName
  BY DEF FSError, Codes
<1>2. c.extra # "none"
  BY DEF processFSError
<1>3. fsaDecodeFsaStatusToFsStatus(c) \in Forced
  BY <1>2 DEF processFSError, Forced
<1> QED
  BY <1>1, <1>2, <1>3 DEF fsaDecodeFsaStatusToFsStatus, Forced, Grave, FSErrorName

(* What Spoken says of a step is enough for the four properties.               *)
LEMMA SpokenIsProper ==
  ASSUME Spoken, ReplyOK'
  PROVE  HandleStaysHome' /\ FatalHasACause' /\ ShortReadIsTheEnd' /\ AnswerIsHonest'
<1> USE DEF ReplyOK, Honest
<1>1. CASE \/ reply' = Nil \/ reply'.by = "wrapper"
           \/ reply'.by = "fatal" /\ reply'.bytes.size * reply'.bytes.count >= Word
  BY <1>1 DEF HandleStaysHome, FatalHasACause, ShortReadIsTheEnd, AnswerIsHonest, Done
<1>2. ASSUME reply' # Nil,
             NEW op, NEW f, NEW w, NEW fault, NEW t, Answers(op, f, w, fault, t)
      PROVE  HandleStaysHome' /\ FatalHasACause' /\ ShortReadIsTheEnd' /\ AnswerIsHonest'
  <2>1. /\ op \in AllOps /\ f \in File \cup {Nil} /\ w \in Words /\ fault \in BOOLEAN
        /\ t \in Bytes /\ Answer(op, f, w, fault, t) /\ Excused(op, f, w, fault, t)
        /\ kind' = kind
    BY <1>2 DEF Answers, Spoken
  <2>2. CASE w = FORCE_PARENT_LAYER \/ FallsBack(w, fallbackOnError)
    <3>1. PICK c \in RealAnswers(op) : reply' = Told(op, f, "console", c, fault, t)
      BY <2>1, <2>2 DEF Answer
    <3>2. /\ reply'.by = "console" /\ reply'.op = op /\ reply'.f = f
          /\ reply'.fault = fault /\ reply'.bytes = t
      BY <3>1 DEF Told
    <3> QED
      BY <1>2, <2>1, <2>2, <3>2 DEF Excused, HandleStaysHome, FatalHasACause, fallbackOnError,
                                    ShortReadIsTheEnd, AnswerIsHonest, Done
  <2>3. CASE ~(w = FORCE_PARENT_LAYER \/ FallsBack(w, fallbackOnError))
    <3>1. reply' = Told(op, f, "layer", Masked(w), fault, t)
      BY <2>1, <2>3 DEF Answer
    <3>2. /\ reply'.by = "layer" /\ reply'.op = op /\ reply'.code = Masked(w)
          /\ reply'.fault = fault /\ reply'.f = f /\ reply'.bytes = t
      BY <3>1 DEF Told
    <3>3. Masked(w) \in FSError
      BY <2>1, HonestMasked
    <3>4. /\ Masked(w).extra = "none" <=> w.extra = "none"
          /\ Masked(w).name = w.name
          /\ w.extra = "none" => Masked(w).count = w.count
      BY <2>1, HonestMasked
    <3>5. ToldToFS(reply)' = "FATAL_ERROR" => w.extra # "none" /\ w.name \in Grave
      BY <3>2, <3>3, <3>4, GraveFacts, RoundTrip DEF ToldToFS
    <3>6. HandleStaysHome' /\ FatalHasACause'
      BY <2>1, <2>3, <3>2, <3>4, <3>5 DEF Excused, HandleStaysHome, FatalHasACause
    <3>6a. AnswerIsHonest'
      <4>1. op = "WriteFile" /\ IsFull(f) => Full(reply.f)'
        BY <3>2 DEF IsFull, Full, At, Data
      <4> QED
        BY <1>2, <2>1, <3>2, <3>4, <4>1 DEF Excused, TransferFails, AnswerIsHonest
    <3>7. ShortReadIsTheEnd'
      <4>1. op = "ReadFile" /\ w.extra = "none" => ReadsToTheEnd(f, w, t)
        BY <2>1 DEF Excused
      <4> QED
        BY <3>2, <3>4, <4>1 DEF ShortReadIsTheEnd, ReadsToTheEnd, Done, Data
    <3> QED
      BY <3>6, <3>6a, <3>7
  <2> QED
    BY <2>2, <2>3
<1> QED
  BY <1>1, <1>2 DEF Spoken

(* The words of which nobody has to ask for a reason.                           *)
LEMMA Plain ==
  ASSUME NEW op \in AllOps, NEW f \in File \cup {Nil}, NEW fault \in BOOLEAN
  PROVE  /\ op # "ReadFile" /\ ~fault => Excused(op, f, OK, fault, NoBytes)
         /\ Excused(op, f, Error("END_OF_FILE"), fault, NoBytes)
         /\ op \in PathOps => Excused(op, f, FORCE_PARENT_LAYER, fault, NoBytes)
         /\ op \in PathOps => Excused(op, f, NoFallback("NOT_FOUND"), fault, NoBytes)
         /\ op \in PathOps =>
              \A e \in FSErrorName \ Grave : Excused(op, f, Error(e), fault, NoBytes)
         /\ fault => \A e : Excused(op, f, Error(e), fault, NoBytes)
         /\ kind # "merge" =>
              \A e \in FSErrorName \ Grave : Excused(op, f, Error(e), fault, NoBytes)
<1>1. op \in PathOps => op \notin HandleOps
  BY DEF PathOps, HandleOps
<1> QED
  BY <1>1 DEF Excused, FallsBack, NotAFailure, OK, Number, Error, NoFallback,
              FORCE_PARENT_LAYER, Grave

(* The calls that answer in one step.                                          *)

LEMMA QuietSpoken ==
  ASSUME IInv,
         \/ \E op \in PathOps : OutsideLayer(op)
         \/ \E op \in AllOps : ShimRefused(op)
         \/ \E f \in File, op \in HandleOps :
              Query(op, f) \/ Unsupported(op, f) \/ UnknownHandle(op, f)
         \/ \E f \in File : FSAFlushFile(f)
         \/ \E n \in Name : FSAGetStat(n)
         \/ \E f \in File, api \in APIs, size \in Size, count \in Count,
               op \in {"ReadFile", "WriteFile"} : RefuseTransfer(op, f, api, size, count)
         \/ Receive \/ RemoveFSLayer \/ \E k \in Kinds : AddFSLayer(k)
  PROVE  Spoken
<1> USE WordFacts, ErrorNames, OpNames, NoBytesFacts
<1>1. CASE Receive \/ RemoveFSLayer \/ \E k \in Kinds : AddFSLayer(k)
  BY <1>1 DEF Receive, RemoveFSLayer, AddFSLayer, Idle, Spoken
<1>2. CASE \/ \E op \in AllOps : ShimRefused(op)
           \/ \E f \in File, api \in APIs, size \in Size, count \in Count,
                 op \in {"ReadFile", "WriteFile"} : RefuseTransfer(op, f, api, size, count)
  BY <1>2 DEF ShimRefused, RefuseTransfer, TooLarge, Started, Told, Spoken, Still, layer
<1>3. ASSUME NEW op \in AllOps, NEW f \in File \cup {Nil}, NEW w \in Words,
             NEW fault \in BOOLEAN, Answer(op, f, w, fault, NoBytes), kind' = kind,
             Excused(op, f, w, fault, NoBytes)
      PROVE  Spoken
  BY <1>3 DEF Spoken, Answers
<1>4. ASSUME NEW op \in PathOps, OutsideLayer(op) PROVE Spoken
  BY <1>3, <1>4, Plain DEF OutsideLayer, Deliver, Still, layer
<1>5. ASSUME NEW f \in File, NEW op \in HandleOps, Query(op, f) PROVE Spoken
  BY <1>3, <1>5, Plain DEF Query, Deliver, Fail, Still, layer
<1>6. ASSUME NEW f \in File, NEW op \in HandleOps, Unsupported(op, f) PROVE Spoken
  <2>1. Excused(op, f, FORCE_PARENT_LAYER, FALSE, NoBytes)
    BY <1>6 DEF Unsupported, Excused, FORCE_PARENT_LAYER, Grave
  <2> QED
    BY <1>3, <1>6, <2>1 DEF Unsupported, Deliver, Still, layer
<1>7. ASSUME NEW f \in File, NEW op \in HandleOps, UnknownHandle(op, f) PROVE Spoken
  <2>1. Excused(op, f, FORCE_PARENT_LAYER, FALSE, NoBytes)
    BY <1>7 DEF UnknownHandle, Excused, FORCE_PARENT_LAYER, Grave, Still
  <2> QED
    BY <1>3, <1>7, <2>1 DEF UnknownHandle, Deliver, Still, layer
<1>8. ASSUME NEW f \in File, FSAFlushFile(f) PROVE Spoken
  <2>1. "FlushFile" \in AllOps /\ kind' = kind
    BY <1>8 DEF AllOps, HandleOps, FSAFlushFile, Still, layer
  <2>2. Excused("FlushFile", f, Error("ACCESS_ERROR"), FALSE, NoBytes)
    BY DEF Excused, Error, Grave, FORCE_PARENT_LAYER, FallsBack
  <2>3. CASE Deliver("FlushFile", f, OK)
    BY <1>3, <2>1, <2>3, Plain DEF Deliver
  <2>4. CASE Deliver("FlushFile", f, Error("ACCESS_ERROR"))
    BY <1>3, <2>1, <2>2, <2>4 DEF Deliver
  <2>5. CASE \E e \in {"INVALID_FILEHANDLE", "MEDIA_ERROR"} : Fail("FlushFile", f, e)
    BY <1>3, <2>1, <2>5, Plain DEF Fail
  <2> QED
    BY <1>8, <2>3, <2>4, <2>5 DEF FSAFlushFile
<1>9. ASSUME NEW n \in Name, FSAGetStat(n) PROVE Spoken
  <2>1. "GetStat" \in PathOps /\ "GetStat" \in AllOps /\ kind' = kind
    BY <1>9 DEF AllOps, PathOps, FSAGetStat, Still, layer
  <2>2. "NOT_FOUND" \in FSErrorName \ Grave
    BY DEF FSErrorName, Grave
  <2> QED
    BY <1>3, <1>9, <2>1, <2>2, Plain DEF FSAGetStat, Deliver
<1> QED
  BY <1>1, <1>2, <1>4, <1>5, <1>6, <1>7, <1>8, <1>9

(* The calls with a handle that answer in one step, and may fail.              *)
LEMMA HandleSpoken ==
  ASSUME IInv, NEW f \in File,
         \/ FSACloseFile(f) \/ FSAIsEof(f) \/ FSATruncateFile(f)
         \/ \E pos \in Positions : FSASetPosFile(f, pos)
  PROVE  Spoken
<1> USE WordFacts, ErrorNames, NoBytesFacts
<1>1. kind' = kind /\ {"CloseFile", "IsEof", "TruncateFile", "SetPosFile"} \subseteq AllOps
  BY DEF FSACloseFile, FSAIsEof, FSATruncateFile, FSASetPosFile, layer, AllOps, HandleOps
<1>2. ASSUME NEW op \in AllOps, NEW w \in Words, NEW fault \in BOOLEAN,
             Answer(op, f, w, fault, NoBytes), Excused(op, f, w, fault, NoBytes)
      PROVE  Spoken
  BY <1>1, <1>2 DEF Spoken, Answers
<1>3. CASE FSACloseFile(f)
  BY <1>1, <1>2, <1>3, Plain DEF FSACloseFile, Deliver, Fail
<1>4. CASE \E pos \in Positions : FSASetPosFile(f, pos)
  BY <1>1, <1>2, <1>4, Plain DEF FSASetPosFile, Deliver, Fail
<1>5. CASE FSAIsEof(f)
  BY <1>1, <1>2, <1>5, Plain DEF FSAIsEof, Deliver, Fail
<1>6. CASE FSATruncateFile(f)
  <2>1. \A w, fault : \/ Excused("TruncateFile", f, w, fault, NoBytes) \/ w = FORCE_PARENT_LAYER
                      \/ fault /\ w.extra = "none"
    BY DEF Excused, FallsBack
  <2>2. Error("ACCESS_ERROR") # FORCE_PARENT_LAYER /\ OK # FORCE_PARENT_LAYER
        /\ Error("MEDIA_ERROR") # FORCE_PARENT_LAYER /\ Error("MEDIA_ERROR").extra = "error"
    BY DEF Error, OK, Number, FORCE_PARENT_LAYER
  <2> QED
    BY <1>1, <1>2, <1>6, <2>1, <2>2 DEF FSATruncateFile, Deliver, Fail
<1> QED
  BY <1>3, <1>4, <1>5, <1>6

(* What the storage may say when a name is opened or changed is not grave, unless  *)
(* the storage failed.                                                        *)
LEMMA StorageErrors ==
  /\ \A n, mode : \A e \in OpenErrno(n, mode) : e = "EIO" \/ OpenError(e) \in FSErrorName \ Grave
  /\ \A n : \A e \in Present(n) \cup {"EACCES", "EIO"} :
              e = "EIO" \/ MakeDirError(e) \in FSErrorName \ Grave
  /\ {"ACCESS_ERROR", "MAX_FILES", "PERMISSION_ERROR", "NOT_FOUND"} \subseteq FSErrorName \ Grave
BY DEF OpenErrno, Present, OpenError, MakeDirError, FSErrorName, Grave

(* The calls with a path.                                                      *)
LEMMA PathSpoken ==
  ASSUME IInv,
         \/ \E f \in File, n \in Name, mode \in Mode : FSAOpenFile(f, n, mode)
         \/ \E n \in Name : FSARemove(n) \/ FSAMakeDir(n)
         \/ \E n, m \in Name : FSARename(n, m)
  PROVE  Spoken
<1> USE WordFacts, ErrorNames, NoBytesFacts
<1>1. kind' = kind
  BY DEF FSAOpenFile, FSARemove, FSAMakeDir, FSARename, ChangeNames, Still, layer
<1>2. /\ {"OpenFile", "Remove", "MakeDir", "Rename"} \subseteq AllOps
      /\ {"OpenFile", "Remove", "MakeDir", "Rename"} \subseteq PathOps
  BY DEF AllOps, PathOps
<1>3. ASSUME NEW op \in {"OpenFile", "Remove", "MakeDir", "Rename"},
             NEW f \in File \cup {Nil}, NEW w \in Words, NEW fault \in BOOLEAN,
             Answer(op, f, w, fault, NoBytes), Excused(op, f, w, fault, NoBytes)
      PROVE  Spoken
  BY <1>1, <1>2, <1>3 DEF Spoken, Answers
<1>4. ASSUME NEW op \in {"Remove", "Rename"}, NEW w, NEW fault \in BOOLEAN, fault => w.extra # "none"
      PROVE  Excused(op, Nil, w, fault, NoBytes)
  <2>1. op \notin HandleOps /\ op # "ReadFile"
    BY DEF HandleOps
  <2> QED
    BY <1>4, <2>1 DEF Excused
<1>5. ASSUME NEW f \in File, NEW n \in Name, NEW mode \in Mode, FSAOpenFile(f, n, mode)
      PROVE  Spoken
  <2>1. ASSUME NEW e \in OpenErrno(n, mode),
               Answer("OpenFile", f, Error(OpenError(e)), e = "EIO", NoBytes)
        PROVE  Spoken
    <3>1. Excused("OpenFile", f, Error(OpenError(e)), e = "EIO", NoBytes)
      <4>1. CASE e = "EIO"
        BY <1>2, <4>1, Plain
      <4>2. CASE e # "EIO"
        BY <1>2, <4>2, StorageErrors, Plain
      <4> QED
        BY <4>1, <4>2
    <3> QED
      BY <1>3, <2>1, <3>1
  <2>2. \A w : w \in {OK, NoFallback("NOT_FOUND"), Error("ACCESS_ERROR"), Error("MAX_FILES")} =>
               Excused("OpenFile", f, w, FALSE, NoBytes) /\ w \in Words
    BY <1>2, Plain, StorageErrors
  <2> QED
    BY <1>3, <1>5, <2>1, <2>2 DEF FSAOpenFile, AllocFails, Opens, Deliver
<1>6. ASSUME NEW n \in Name, FSAMakeDir(n) PROVE Spoken
  <2>1. ASSUME NEW e \in Present(n) \cup {"EACCES", "EIO"},
               Answer("MakeDir", Nil, Error(MakeDirError(e)), e = "EIO", NoBytes)
        PROVE  Spoken
    <3>1. Excused("MakeDir", Nil, Error(MakeDirError(e)), e = "EIO", NoBytes)
      <4>1. CASE e = "EIO"
        BY <1>2, <4>1, Plain
      <4>2. CASE e # "EIO"
        BY <1>2, <4>2, StorageErrors, Plain
      <4> QED
        BY <4>1, <4>2
    <3> QED
      BY <1>3, <2>1, <3>1
  <2>2. \A w : w \in {OK, Error("PERMISSION_ERROR")} =>
               Excused("MakeDir", Nil, w, FALSE, NoBytes) /\ w \in Words
    BY <1>2, Plain, StorageErrors
  <2> QED
    BY <1>3, <1>6, <2>1, <2>2 DEF FSAMakeDir, ChangeNames, Deliver
<1>7. ASSUME NEW op \in {"Remove", "Rename"},
             \/ Deliver(op, Nil, Error("PERMISSION_ERROR")) \/ Deliver(op, Nil, OK)
             \/ \E e : Answer(op, Nil, Error(PathError(e)), e = "EIO", NoBytes)
      PROVE  Spoken
  <2>1. \A e : Error(e).extra = "error"
    BY DEF Error
  <2>2. CASE Deliver(op, Nil, Error("PERMISSION_ERROR")) \/ Deliver(op, Nil, OK)
    <3>1. PICK w \in {OK, Error("PERMISSION_ERROR")} : Answer(op, Nil, w, FALSE, NoBytes)
      BY <2>2 DEF Deliver
    <3>2. w \in Words /\ Excused(op, Nil, w, FALSE, NoBytes)
      BY <1>4, <3>1
    <3> QED
      BY <1>3, <3>1, <3>2
  <2>3. ASSUME NEW e, Answer(op, Nil, Error(PathError(e)), e = "EIO", NoBytes) PROVE Spoken
    <3>1. Excused(op, Nil, Error(PathError(e)), e = "EIO", NoBytes)
      BY <1>4, <2>1
    <3>2. (e = "EIO") \in BOOLEAN
      OBVIOUS
    <3> QED
      BY <1>3, <2>3, <3>1, <3>2
  <2> QED
    BY <1>7, <2>2, <2>3
<1>8. ASSUME NEW n \in Name, FSARemove(n) PROVE Spoken
  BY <1>7, <1>8 DEF FSARemove, ChangeNames
<1>9. ASSUME NEW n \in Name, NEW m \in Name, FSARename(n, m) PROVE Spoken
  BY <1>7, <1>9 DEF FSARename, ChangeNames
<1> QED
  BY <1>5, <1>6, <1>8, <1>9
-----------------------------------------------------------------------------
(* Transfers: what is left is what the product asks for, and only handles of a    *)
(* save layer may be unreadable.                                              *)

Readable == kind # "save" => \A f \in OpenFiles : file[f].read
Counted ==
  transfer # Nil =>
    LET t == transfer.bytes IN
    /\ Len(t.buf) + transfer.left = Product(t.size, t.count)
    /\ ~TooLarge(t.api, t.size, t.count)
    /\ t.api # "none"
    /\ transfer.op = "ReadFile" => t.size # 0
ReplyInv ==
  /\ Readable /\ Counted
  /\ HandleStaysHome /\ FatalHasACause /\ ShortReadIsTheEnd /\ AnswerIsHonest

(* Elements and bytes: what the loops divide and multiply.                     *)
LEMMA Division ==
  ASSUME NEW size \in Nat \ {0}, NEW count \in Nat
  PROVE  /\ (size * count) \div size = count /\ 0 \div size = 0
         /\ size * count = 0 => count = 0
OBVIOUS

(* Below the word's width the product is not reduced.                          *)
LEMMA ProductIs ==
  ASSUME NEW size \in Nat, NEW count \in Nat, size * count < Word
  PROVE  Product(size, count) = size * count
<1>1. \A x, w \in Nat : x < w => x % w = x
  OBVIOUS
<1>2. size * count \in Nat
  OBVIOUS
<1> QED
  BY <1>1, <1>2, FileOpsAssumption DEF Product

(* A loop that has moved all bytes of the product has moved all elements, unless  *)
(* the product does not fit.                                                  *)
LEMMA AllMoved ==
  ASSUME NEW f, NEW t \in Bytes, Len(t.buf) = Product(t.size, t.count),
         ~TooLarge(t.api, t.size, t.count), t.api # "none", NEW w, w.count = Len(t.buf) \div t.size
  PROVE  ReadsToTheEnd(f, w, t)
<1>1. t.size \in Nat /\ t.count \in Nat /\ t.api \in {"FSA", "FS"}
  BY DEF Bytes, APIs
<1>2. CASE t.size # 0 /\ t.size * t.count < Word
  <2>1. Len(t.buf) = t.size * t.count
    BY <1>1, <1>2, ProductIs
  <2>2. (t.size * t.count) \div t.size = t.count
    BY <1>1, <1>2, Division
  <2> QED
    BY <2>1, <2>2 DEF ReadsToTheEnd
<1>3. CASE ~(t.size * t.count < Word)
  <2>1. t.size * t.count >= Word
    BY <1>1, <1>3, FileOpsAssumption
  <2> QED
    BY <1>1, <2>1 DEF ReadsToTheEnd, TooLarge
<1> QED
  BY <1>2, <1>3 DEF ReadsToTheEnd

(* A handle that only moves keeps its modes.                                   *)
LEMMA MovesKeepModes ==
  ASSUME IInv, Readable, NEW f \in OpenFiles, NEW p, MoveTo(f, p), kind' = kind
  PROVE  Readable'
<1>1. file \in [File -> {Nil} \cup Handles] /\ f \in File /\ file[f] \in Handles
  BY HandleFacts DEF IInv, FileOK
<1>2. file' = [file EXCEPT ![f] = [file[f] EXCEPT !.pos = p]]
  BY DEF MoveTo
<1>3. /\ \A g \in File : g # f => file'[g] = file[g]
      /\ file'[f].read = file[f].read
  BY <1>1, <1>2 DEF Handles
<1> QED
  BY <1>3 DEF Readable, OpenFiles

(* Only opening sets what a handle may do, and write modes need a save layer.  *)
LEMMA ReadableStep ==
  ASSUME IInv, Readable, [Next]_vars
  PROVE  Readable'
<1>1. CASE UNCHANGED <<kind, file>>
  BY <1>1 DEF Readable, OpenFiles
<1>2. ASSUME NEW f \in OpenFiles, NEW p, MoveTo(f, p), kind' = kind PROVE Readable'
  BY <1>2, MovesKeepModes
<1>3. ASSUME NEW f \in File, NEW n \in Name, NEW mode \in Mode, FSAOpenFile(f, n, mode)
      PROVE  Readable'
  <2>1. CASE Still \/ AllocFails(f, n, mode)
    BY <1>1, <1>3, <2>1 DEF FSAOpenFile, AllocFails, Still, layer
  <2>2. CASE IsFileModeAllowed(mode) /\ Opens(f, n, mode)
    <3> DEFINE new == [name |-> n, read |-> mode \in Reads, write |-> mode \in Writes,
                       append |-> mode \in Appends, pos |-> 0]
    <3>1. kind # "save" => new.read
      BY <2>2 DEF IsFileModeAllowed, pIsWriteable, Reads
    <3>2. file' = [file EXCEPT ![f] = new]
      BY <2>2 DEF Opens
    <3> HIDE DEF new
    <3>3. file'[f] = new /\ \A g \in File : g # f => file'[g] = file[g]
      BY <3>2 DEF IInv, FileOK
    <3>4. kind' = kind
      BY <1>3 DEF FSAOpenFile, Still, layer
    <3> QED
      BY <3>1, <3>3, <3>4 DEF Readable, OpenFiles
  <2> QED
    BY <1>3, <2>1, <2>2 DEF FSAOpenFile
<1>4. ASSUME NEW f \in File,
             \/ FSAIsEof(f) \/ \E pos \in Positions : FSASetPosFile(f, pos)
             \/ \E api \in APIs, size \in Size, count \in Count, pos \in Positions :
                  FSAReadFileWithPos(api, f, size, count, pos)
      PROVE  Readable'
  <2>1. kind' = kind /\ f \in OpenFiles /\ (UNCHANGED file \/ \E p : MoveTo(f, p))
    BY <1>4 DEF FSAIsEof, FSASetPosFile, FSAReadFileWithPos, layer, OpenFiles
  <2> QED
    BY <1>1, <1>2, <2>1
<1>5. CASE ReadSome \/ WriteSome
  <2>1. transfer # Nil /\ transfer.f \in OpenFiles
    BY <1>5, LoopFacts DEF ReadSome, WriteSome
  <2>2. kind' = kind /\ (UNCHANGED file \/ \E p : MoveTo(transfer.f, p))
    BY <1>5 DEF ReadSome, WriteSome, layer
  <2> QED
    BY <1>1, <1>2, <2>1, <2>2
<1>6. ASSUME NEW f \in File, FSACloseFile(f) PROVE Readable'
  <2>1. kind' = kind /\ file' = [file EXCEPT ![f] = Nil]
    BY <1>6 DEF FSACloseFile, layer
  <2> QED
    BY <2>1 DEF Readable, OpenFiles, IInv, FileOK
<1>7. CASE RemoveFSLayer \/ \E k \in Kinds : AddFSLayer(k)
  BY <1>7 DEF RemoveFSLayer, AddFSLayer, Readable, OpenFiles
<1>8. ASSUME NEW f \in File,
             \/ FSATruncateFile(f) \/ FSAFlushFile(f)
             \/ \E op \in HandleOps : Query(op, f) \/ Unsupported(op, f) \/ UnknownHandle(op, f)
             \/ \E api \in APIs, size \in Size, count \in Count :
                  \/ FSAReadFile(api, f, size, count) \/ FSAWriteFile(api, f, size, count)
                  \/ \E op \in {"ReadFile", "WriteFile"} : RefuseTransfer(op, f, api, size, count)
      PROVE  Readable'
  <2>1. UNCHANGED <<kind, file>>
    BY <1>8 DEF FSATruncateFile, FSAFlushFile, Query, Unsupported, UnknownHandle, FSAReadFile,
                FSAWriteFile, RefuseTransfer, Still, layer
  <2> QED
    BY <1>1, <2>1
<1>9. CASE OnPath \/ Receive \/ UNCHANGED vars
           \/ \E op \in PathOps \cup HandleOps : ShimRefused(op)
  <2>1. UNCHANGED <<kind, file>>
    BY <1>9 DEF OnPath, FSARemove, FSAMakeDir, FSAGetStat, FSARename, ChangeNames,
                OutsideLayer, Receive, ShimRefused, Still, layer, vars
  <2> QED
    BY <1>1, <2>1
<1> QED
  BY <1>3, <1>4, <1>5, <1>6, <1>7, <1>8, <1>9 DEF Next, OnFile

(* A loop starts with all of the product left.                                 *)
LEMMA CountedBegin ==
  ASSUME NEW f, NEW op, NEW api \in APIs, NEW size \in Nat, NEW count \in Nat,
         NEW from, NEW prior, NEW p, ~TooLarge(api, size, count),
         Begin(op, f, Started(api, size, count, from, prior), p),
         op = "ReadFile" => size # 0
  PROVE  Counted'
<1> DEFINE t == Started(api, size, count, from, prior)
<1>1. /\ t.api = api /\ t.size = size /\ t.count = count /\ Len(t.buf) = 0 /\ api # "none"
  BY EmptySeq DEF Started, APIs
<1>2. Product(size, count) \in Nat /\ 0 + Product(size, count) = Product(size, count)
  BY ProductFacts
<1> HIDE DEF t
<1>3. transfer'.bytes = t /\ transfer'.left = Product(size, count) /\ transfer'.op = op
  BY <1>1 DEF Begin, t
<1> QED
  BY <1>1, <1>2, <1>3 DEF Counted

(* What a piece takes from the rest it adds to the buffer.                     *)
LEMMA CountedAdvance ==
  ASSUME IInv, Counted, transfer # Nil, NEW more \in Seq(Nat), Len(more) <= transfer.left,
         Advance(more)
  PROVE  Counted'
<1>1. /\ transfer'.bytes.api = transfer.bytes.api
      /\ transfer'.bytes.size = transfer.bytes.size
      /\ transfer'.bytes.count = transfer.bytes.count
      /\ Len(transfer'.bytes.buf) = Len(transfer.bytes.buf) + Len(more)
      /\ transfer'.left = transfer.left - Len(more) /\ transfer'.op = transfer.op
  BY AdvanceFacts
<1>2. Len(transfer.bytes.buf) \in Nat /\ Len(more) \in Nat /\ transfer.left \in Nat
  BY LoopFacts, LenProperties
<1>3. Len(transfer'.bytes.buf) + transfer'.left = Len(transfer.bytes.buf) + transfer.left
  BY <1>1, <1>2
<1> QED
  BY <1>1, <1>3 DEF Counted

(* Every other step leaves the transfer or ends it.                            *)
LEMMA CountedStep ==
  ASSUME IInv, Counted, [Next]_vars
  PROVE  Counted'
<1>1. CASE transfer' = Nil
  BY <1>1 DEF Counted
<1>2. ASSUME NEW f \in File, NEW api \in APIs, NEW size \in Size, NEW count \in Count,
             \/ FSAReadFile(api, f, size, count) \/ FSAWriteFile(api, f, size, count)
             \/ \E pos \in Positions : FSAReadFileWithPos(api, f, size, count, pos)
      PROVE  Counted'
  <2>1. /\ transfer = Nil /\ ~TooLarge(api, size, count) /\ size \in Nat /\ count \in Nat
    BY <1>2, FileOpsAssumption DEF FSAReadFile, FSAWriteFile, FSAReadFileWithPos, Idle
  <2>2. \/ transfer' = transfer
        \/ \E op, from, p : /\ Begin(op, f, Started(api, size, count, from, Data(f)), p)
                            /\ op = "ReadFile" => Product(size, count) # 0
    <3>1. CASE FSAWriteFile(api, f, size, count)
      <4>1. CASE UNCHANGED transfer
        BY <4>1
      <4>2. CASE Begin("WriteFile", f, Started(api, size, count, At(f), Data(f)), file[f].pos)
        BY <4>2
      <4> QED
        BY <3>1, <4>1, <4>2 DEF FSAWriteFile
    <3>2. ASSUME NEW p, StartRead(api, f, size, count, p)
          PROVE  \/ UNCHANGED transfer
                 \/ /\ Begin("ReadFile", f, Started(api, size, count, p, Data(f)), p)
                    /\ Product(size, count) # 0
      BY <3>2 DEF StartRead
    <3>3. CASE FSAReadFile(api, f, size, count)
      BY <3>2, <3>3 DEF FSAReadFile
    <3>4. ASSUME NEW pos \in Positions, FSAReadFileWithPos(api, f, size, count, pos)
          PROVE  \/ UNCHANGED transfer \/ StartRead(api, f, size, count, pos)
      BY <3>4 DEF FSAReadFileWithPos
    <3> QED
      BY <1>2, <3>1, <3>2, <3>3, <3>4
  <2>3. size = 0 => Product(size, count) = 0
    BY <2>1, ProductFacts
  <2> QED
    BY <1>1, <2>1, <2>2, <2>3, CountedBegin
<1>3. CASE ReadSome
  <2> DEFINE f == transfer.f
             pos == file[f].pos
             rest == IF Len(Data(f)) > pos THEN Len(Data(f)) - pos ELSE 0
  <2>1. transfer # Nil /\ f \in OpenFiles
    BY <1>3, LoopFacts DEF ReadSome
  <2>2. /\ Data(f) \in Seq(Nat) /\ pos \in Nat /\ Len(Data(f)) \in Nat
    BY <2>1, HandleFacts, HandleIsThere, LenProperties
  <2>3. ASSUME NEW k \in 1 .. rest, k <= transfer.left,
               Advance(SubSeq(Data(f), pos + 1, pos + k))
        PROVE  Counted'
    <3> DEFINE more == SubSeq(Data(f), pos + 1, pos + k)
    <3>1. pos + 0 + k <= Len(Data(f)) /\ k \in Nat \ {0} /\ 0 \in Nat
      BY <2>2
    <3>2. more \in Seq(Nat) /\ Len(more) = k
      <4> DEFINE data == Data(f)
      <4>1. data \in Seq(Nat) /\ pos \in Nat /\ pos + 0 = pos
        BY <2>2
      <4> HIDE DEF data, pos
      <4> QED
        BY <3>1, <4>1, ReadInTwo DEF data
    <3> HIDE DEF more
    <3> QED
      BY <2>1, <2>3, <3>2, CountedAdvance DEF more
  <2> QED
    BY <1>1, <1>3, <2>3 DEF ReadSome, EndTransfer
<1>4. CASE WriteSome
  <2>1. transfer # Nil /\ Len(transfer.bytes.buf) \in Nat /\ transfer.left \in Nat
    BY <1>4, LoopFacts DEF WriteSome
  <2>2. ASSUME NEW k \in 1 .. transfer.left, Advance(Numbered(Len(transfer.bytes.buf), k))
        PROVE  Counted'
    <3> DEFINE n == Len(transfer.bytes.buf)
               more == Numbered(n, k)
    <3>1. n \in Nat /\ k \in Nat /\ k <= transfer.left
      BY <2>1
    <3> HIDE DEF n
    <3>2. more \in Seq(Nat) /\ Len(more) = k
      BY <3>1, NumberedFacts
    <3>3. Advance(more)
      BY <2>2 DEF n
    <3> HIDE DEF more
    <3> QED
      BY <2>1, <3>1, <3>2, <3>3, CountedAdvance
  <2> QED
    BY <1>1, <1>4, <2>2 DEF WriteSome, EndTransfer, NextBytes, Numbered
<1>5. CASE UNCHANGED vars
  BY <1>5 DEF vars, Counted
<1>6. CASE \/ OnPath \/ Receive \/ RemoveFSLayer
           \/ \E op \in PathOps \cup HandleOps : ShimRefused(op)
           \/ \E k \in Kinds : AddFSLayer(k)
  BY <1>1, <1>6, CalmSteps
<1>7. ASSUME NEW f \in File, CalmOnFile(f) PROVE Counted'
  BY <1>1, <1>7, CalmSteps
<1> QED
  BY <1>2, <1>3, <1>4, <1>5, <1>6, <1>7 DEF Next, OnFile, CalmOnFile

(* The calls that are transfers.                                               *)

LEMMA BeginSpoken ==
  ASSUME IInv, NEW f \in File, NEW api \in APIs, NEW size \in Size, NEW count \in Count,
         \/ FSAReadFile(api, f, size, count) \/ FSAWriteFile(api, f, size, count)
         \/ \E pos \in Positions : FSAReadFileWithPos(api, f, size, count, pos)
  PROVE  Spoken
<1> USE WordFacts, ErrorNames, OpNames, NoBytesFacts
<1>1. /\ kind' = kind /\ reply = Nil /\ f \in OpenFiles /\ ~TooLarge(api, size, count)
      /\ size \in Nat /\ count \in Nat
  BY FileOpsAssumption DEF FSAReadFile, FSAWriteFile, FSAReadFileWithPos, layer, Idle, OpenFiles
<1>2. ASSUME NEW op \in {"ReadFile", "WriteFile"}, NEW w \in Words, NEW fault \in BOOLEAN,
             NEW t \in Bytes, Answer(op, f, w, fault, t), Excused(op, f, w, fault, t)
      PROVE  Spoken
  BY <1>1, <1>2 DEF Spoken, Answers
<1>3. ASSUME NEW p \in Nat, StartRead(api, f, size, count, p) PROVE Spoken
  <2> DEFINE t == Started(api, size, count, p, Data(f))
  <2>1. /\ t \in Bytes /\ t.size = size /\ t.count = count /\ t.api = api
        /\ Len(t.buf) = 0 /\ t.api # "none"
    BY <1>1, HandleFacts, StartedType, EmptySeq DEF Started, APIs
  <2> HIDE DEF t
  <2>2. CASE Product(size, count) = 0 /\ Answer("ReadFile", f, OK, FALSE, t)
    <3>1. OK.count = 0 /\ OK.extra = "none" /\ OK # FORCE_PARENT_LAYER
          /\ ~FallsBack(OK, kind = "merge")
      BY DEF OK, Number, FORCE_PARENT_LAYER, FallsBack
    <3>2. ReadsToTheEnd(f, OK, t)
      <4>1. CASE size = 0
        BY <2>1, <4>1 DEF ReadsToTheEnd
      <4>2. CASE size # 0
        <5>1. OK.count = Len(t.buf) \div t.size
          BY <1>1, <2>1, <3>1, <4>2, Division
        <5> QED
          BY <1>1, <2>1, <2>2, <5>1, AllMoved
      <4> QED
        BY <4>1, <4>2
    <3>3. Excused("ReadFile", f, OK, FALSE, t)
      BY <3>1, <3>2 DEF Excused
    <3> QED
      BY <1>2, <2>1, <2>2, <3>3
  <2>3. CASE Deliver("ReadFile", f, Error("INVALID_BUFFER"))
    <3>1. Excused("ReadFile", f, Error("INVALID_BUFFER"), FALSE, NoBytes)
      BY DEF Excused, Error, FORCE_PARENT_LAYER, FallsBack
    <3> QED
      BY <1>2, <2>3, <3>1 DEF Deliver
  <2>4. CASE UNCHANGED reply
    BY <1>1, <2>4 DEF Spoken
  <2> QED
    BY <1>3, <2>2, <2>3, <2>4 DEF StartRead, t
<1>4. CASE FSAReadFile(api, f, size, count)
  BY <1>1, <1>3, <1>4, HandleIsThere DEF FSAReadFile
<1>5. ASSUME NEW pos \in Positions, FSAReadFileWithPos(api, f, size, count, pos)
      PROVE  Spoken
  <2>1. pos \in Nat
    BY FileOpsAssumption
  <2>2. CASE Fail("ReadFile", f, "MEDIA_ERROR")
    <3>1. Excused("ReadFile", f, Error("MEDIA_ERROR"), TRUE, NoBytes)
      BY DEF Excused, Error, FORCE_PARENT_LAYER, FallsBack
    <3>2. Answer("ReadFile", f, Error("MEDIA_ERROR"), TRUE, NoBytes)
      BY <2>2 DEF Fail
    <3> QED
      BY <1>2, <3>1, <3>2
  <2> QED
    BY <1>3, <1>5, <2>1, <2>2 DEF FSAReadFileWithPos
<1>6. CASE FSAWriteFile(api, f, size, count)
  <2>1. CASE Deliver("WriteFile", f, Error("ACCESS_ERROR"))
    <3>1. Excused("WriteFile", f, Error("ACCESS_ERROR"), FALSE, NoBytes)
      BY DEF Excused, Error, FORCE_PARENT_LAYER, FallsBack
    <3> QED
      BY <1>2, <2>1, <3>1 DEF Deliver
  <2>2. CASE UNCHANGED reply
    BY <1>1, <2>2 DEF Spoken
  <2> QED
    BY <1>6, <2>1, <2>2 DEF FSAWriteFile
<1> QED
  BY <1>4, <1>5, <1>6

(* The end of a read loop: the bytes asked for, the end of the file, or a failure.*)
LEMMA ReadSpoken ==
  ASSUME IInv, Readable, Counted, ReadSome
  PROVE  Spoken
<1> DEFINE f == transfer.f
           t == transfer.bytes
           pos == file[f].pos
           rest == IF Len(Data(f)) > pos THEN Len(Data(f)) - pos ELSE 0
<1>1. /\ transfer # Nil /\ transfer.op = "ReadFile" /\ f \in OpenFiles /\ f \in File
      /\ kind' = kind /\ disk' = disk /\ t \in Bytes /\ reply = Nil
      /\ Len(t.buf) \in Nat /\ transfer.left \in Nat
      /\ Len(t.buf) + transfer.left = Product(t.size, t.count)
      /\ ~TooLarge(t.api, t.size, t.count) /\ t.size # 0 /\ t.size \in Nat
      /\ t.api # "none"
  BY LoopFacts, HandleFacts DEF ReadSome, Counted, layer, Bytes
<1>2. /\ pos \in Nat /\ Len(Data(f)) \in Nat /\ file[f].read \in BOOLEAN
  BY <1>1, HandleFacts, HandleIsThere, LenProperties DEF Handles
<1>3. ASSUME NEW w \in Words, NEW fault \in BOOLEAN, EndTransfer(w, fault),
             Excused("ReadFile", f, w, fault, t)
      PROVE  Spoken
  <2>1. Answer("ReadFile", f, w, fault, t) /\ "ReadFile" \in AllOps
    BY <1>1, <1>3, OpNames DEF EndTransfer
  <2> HIDE DEF f, t
  <2> QED
    BY <1>1, <1>3, <2>1 DEF Spoken, Answers
<1>4. ASSUME NEW w \in Elements(t), EndTransfer(w, FALSE), ReadIsOver(f, rest), UNCHANGED file
      PROVE  Spoken
  <2>1. w \in Words
    BY <1>1, <1>4, ElementsFacts
  <2>2. ASSUME w.extra = "none" PROVE ReadsToTheEnd(f, w, t)
    <3>1. w.count = Len(t.buf) \div t.size
      BY <1>1, <1>4, <2>2, ElementsFacts DEF Number
    <3>2. CASE transfer.left = 0
      <4>1. Len(t.buf) = Product(t.size, t.count)
        BY <1>1, <3>2
      <4> HIDE DEF f, t
      <4> QED
        BY <1>1, <3>1, <4>1, AllMoved
    <3>3. CASE rest = 0
      <4>1. pos >= Len(Data(f))
        BY <1>2, <3>3
      <4>2. Len(Data(f)) = Len(disk'[file'[f].name].data) /\ file'[f].pos = pos
        BY <1>1, <1>4 DEF Data
      <4> QED
        BY <3>1, <4>1, <4>2 DEF ReadsToTheEnd
    <3> QED
      BY <1>4, <3>2, <3>3 DEF ReadIsOver
  <2>3. ASSUME w.extra # "none" PROVE TakenForError("ReadFile", t)
    <3>1. t # NoBytes
      BY <1>1 DEF NoBytes
    <3> HIDE DEF t
    <3>2. t.size > 0
      BY <1>1
    <3> QED
      BY <1>1, <1>4, <2>3, <3>1, <3>2, ElementsFacts DEF TakenForError
  <2>4. Excused("ReadFile", f, w, FALSE, t)
    BY <2>2, <2>3 DEF Excused, FallsBack, FORCE_PARENT_LAYER, TransferFails
  <2> QED
    BY <1>3, <1>4, <2>1, <2>4
<1>5. CASE EndTransfer(Error(ReadError(f)), file[f].read) /\ UNCHANGED file
  <2>1. Error(ReadError(f)) \in Words
    BY ErrorNames, WordFacts
  <2>2. Excused("ReadFile", f, Error(ReadError(f)), file[f].read, t)
    <3>1. CASE file[f].read
      BY <3>1 DEF Excused, FallsBack, Error, FORCE_PARENT_LAYER, TransferFails
    <3>2. CASE ~file[f].read
      <4>1. kind = "save" /\ ReadError(f) = "ACCESS_ERROR"
        BY <1>1, <3>2 DEF Readable, ReadError
      <4> QED
        BY <1>5, <3>2, <4>1 DEF Excused, FallsBack, Error, FORCE_PARENT_LAYER, Grave, TransferFails
    <3> QED
      BY <3>1, <3>2
  <2> QED
    BY <1>2, <1>3, <1>5, <2>1, <2>2
<1>6. CASE UNCHANGED reply
  BY <1>1, <1>6 DEF Spoken
<1> QED
  BY <1>4, <1>5, <1>6 DEF ReadSome

(* The end of a write loop: elements, or a failure of the storage.             *)
LEMMA WriteSpoken ==
  ASSUME IInv, Counted, WriteSome
  PROVE  Spoken
<1> DEFINE f == transfer.f
           t == transfer.bytes
<1>1. /\ transfer # Nil /\ transfer.op = "WriteFile" /\ f \in File
      /\ kind' = kind /\ t \in Bytes /\ reply = Nil /\ t.api # "none"
  BY LoopFacts, HandleFacts DEF WriteSome, Counted, layer
<1>2. ASSUME NEW w \in Words, NEW fault \in BOOLEAN, EndTransfer(w, fault),
             w = FORCE_PARENT_LAYER => TakenForError("WriteFile", t),
             fault => w.extra # "none",
             w.extra # "none" => TransferFails("WriteFile", f, fault, t)
      PROVE  Spoken
  <2>1. Answer("WriteFile", f, w, fault, t) /\ "WriteFile" \in AllOps
    BY <1>1, <1>2, OpNames DEF EndTransfer
  <2>2. Excused("WriteFile", f, w, fault, t)
    BY <1>2 DEF Excused, FallsBack
  <2> HIDE DEF f, t
  <2> QED
    BY <1>1, <2>1, <2>2 DEF Spoken, Answers
<1>3. ASSUME NEW w \in Elements(t), EndTransfer(w, FALSE) PROVE Spoken
  <2>1. w \in Words
    BY <1>1, <1>3, ElementsFacts
  <2>3. CASE w.extra # "none"
    <3>1. TakenForError("WriteFile", t)
      BY <1>1, <1>3, <2>3, ElementsFacts DEF TakenForError, Bytes, NoBytes
    <3> QED
      BY <1>2, <1>3, <2>1, <3>1 DEF TransferFails
  <2>4. CASE w.extra = "none"
    <3>1. w # FORCE_PARENT_LAYER
      BY <2>4 DEF FORCE_PARENT_LAYER
    <3> HIDE DEF t, f
    <3> QED
      BY <1>2, <1>3, <2>1, <2>4, <3>1
  <2> QED
    BY <2>3, <2>4
<1>4. ASSUME NEW e \in {"FILE_TOO_BIG", "ACCESS_ERROR", "MEDIA_ERROR"}, NEW fault \in BOOLEAN,
             EndTransfer(Error(e), fault), fault \/ ~file[f].write \/ Full(f),
             UNCHANGED <<disk, file>>
      PROVE  Spoken
  <2>1. Error(e) \in Words /\ Error(e) # FORCE_PARENT_LAYER /\ Error(e).extra = "error"
    BY ErrorNames, WordFacts DEF Error, FORCE_PARENT_LAYER
  <2>2. TransferFails("WriteFile", f, fault, t)
    BY <1>4 DEF TransferFails, IsFull, Full, At, Data
  <2> QED
    BY <1>2, <1>4, <2>1, <2>2
<1>5. CASE UNCHANGED reply
  BY <1>1, <1>5 DEF Spoken
<1> QED
  BY <1>3, <1>4, <1>5 DEF WriteSome

(* Every step.                                                                *)
LEMMA StepSpoken ==
  ASSUME IInv, Readable, Counted, Next
  PROVE  Spoken
<1>1. ASSUME NEW f \in File, OnFile(f) PROVE Spoken
  BY <1>1, PathSpoken, HandleSpoken, QuietSpoken, BeginSpoken DEF OnFile
<1>2. CASE OnPath
  BY <1>2, PathSpoken, QuietSpoken DEF OnPath
<1>3. CASE \/ ReadSome \/ WriteSome \/ Receive \/ RemoveFSLayer
           \/ \E op \in PathOps \cup HandleOps : ShimRefused(op)
           \/ \E k \in Kinds : AddFSLayer(k)
  BY <1>3, ReadSpoken, WriteSpoken, QuietSpoken DEF AllOps
<1> QED
  BY <1>1, <1>2, <1>3 DEF Next

(* Every action, with the lemma on its answer.                                 *)
LEMMA StepReplyInv ==
  ASSUME IInv, ReplyInv, [Next]_vars
  PROVE  ReplyInv'
<1>1. Readable' /\ Counted'
  BY ReadableStep, CountedStep DEF ReplyInv
<1>2. CASE Next
  BY <1>1, <1>2, StepSpoken, StepIInv, SpokenIsProper DEF ReplyInv, IInv
<1>3. CASE UNCHANGED vars
  <2>1. UNCHANGED <<kind, disk, file, reply>>
    BY <1>3 DEF vars
  <2> QED
    BY <1>1, <2>1 DEF ReplyInv, HandleStaysHome, FatalHasACause, ShortReadIsTheEnd, Done, Data,
                          AnswerIsHonest, Full, At
<1> QED
  BY <1>2, <1>3

(* Beside the files, every answer is one that the call has a reason for.         *)
THEOREM Replying == Spec => [](IInv /\ ReplyInv)
<1>1. Init => IInv /\ ReplyInv
  BY InitIInv DEF Init, ReplyInv, Readable, Counted, HandleStaysHome, FatalHasACause,
                  ShortReadIsTheEnd, AnswerIsHonest, Done, OpenFiles
<1>2. IInv /\ ReplyInv /\ [Next]_vars => (IInv /\ ReplyInv)'
  BY StepIInv, StepReplyInv
<1> QED
  BY <1>1, <1>2, PTL DEF Spec

(* A read that reports fewer elements than asked for, and no error, has met the    *)
(* end of the file, or a product that does not fit (readIntoBuffer).            *)
THEOREM ShortOnlyAtTheEnd == Spec => []ShortReadIsTheEnd
<1>1. ReplyInv => ShortReadIsTheEnd
  BY DEF ReplyInv
<1> QED
  BY <1>1, Replying, PTL

(* A call with a layer's handle reaches the console only for a command without a   *)
(* case, or from a merging layer that failed or refused (doForLayer).            *)
THEOREM NeverAstray == Spec => []HandleStaysHome
<1>1. ReplyInv => HandleStaysHome
  BY DEF ReplyInv
<1> QED
  BY <1>1, Replying, PTL

(* The application is told what happened: no word of the layers, no failure as a   *)
(* success, and no error of a transfer without a reason (doForLayer, and the     *)
(* uint32_t that readIntoBuffer and writeFromBuffer return).                    *)
THEOREM Honesty == Spec => []AnswerIsHonest
<1>1. ReplyInv => AnswerIsHonest
  BY DEF ReplyInv
<1> QED
  BY <1>1, Replying, PTL

(* A fatal error has its cause in the storage, in the caller's arguments or in a   *)
(* change that could not be made (processFSError).                              *)
THEOREM NoIdleFatal == Spec => []FatalHasACause
<1>1. ReplyInv => FatalHasACause
  BY DEF ReplyInv
<1> QED
  BY <1>1, Replying, PTL
=============================================================================
