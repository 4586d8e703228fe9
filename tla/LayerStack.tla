----------------------------- MODULE LayerStack -----------------------------
(***************************************************************************)
(* What one IO thread does under fsLayerMutex: doForLayer walks fsLayers   *)
(* from the top, a layer answers, passes the request on, or (the merging   *)
(* layer) calls a patched function itself, which starts another walk on    *)
(* the same thread below that layer.  Between walks plugins add, remove    *)
(* and switch layers, and what was opened before outlives the change.      *)
(*                                                                         *)
(* A walk is a stack of frames, one per doForLayer that is on the thread's  *)
(* call stack.  A merging layer is named by its client handle, which is     *)
(* its getLayerId.                                                          *)
(*                                                                         *)
(* What a layer finds in its replacement directory is here one step.  The   *)
(* POSIX calls it makes for that enter the patched functions again, above   *)
(* the layer: module Reentry makes them, and shows when they are this step.  *)
(***************************************************************************)
EXTENDS Naturals, SequencesExt, FiniteSetsExt

CONSTANTS
  Layer,        \* layers plugins may add
  Merging,      \* those of class FSWrapperMergeDirsWithParent (fallbackOnError)
  Path,         \* paths an application opens
  Covers,       \* [Layer -> SUBSET Path]  IsPathToReplace
  Handle,       \* handles made from the address of a FileInfo or DirInfo
  RealHandle,   \* handles the console gives out
  Client,       \* the application's FSA client
  Real,         \* the real function
  Nil

ASSUME LayerAssumption == Merging \subseteq Layer /\ Covers \in [Layer -> SUBSET Path]
ASSUME NameAssumption  == /\ {Client, Real, Nil} \cap Layer = {}
                          /\ Handle \cap RealHandle = {}
                          /\ (Handle \cup RealHandle) \cap (Path \cup {Nil}) = {}
                          /\ Real # Nil /\ Nil \notin Path

VARIABLES
  fsLayers,     \* Seq(Layer), the last one on top
  active,       \* SUBSET Layer: isActive()
  has,          \* [Layer -> SUBSET Path]: what the layer's POSIX calls find
  deleted,      \* [Layer -> SUBSET Path]: and what they find marked .deleted_
  realHas,      \* SUBSET Path: present on the console
  owner,        \* [handle -> Layer, Real or Nil]: openFiles, openDirs, the console's
  isDir,        \* SUBSET handles: those that are directories
  opener,       \* [RealHandle -> client]: the FSA client it belongs to
  parent,       \* [Handle -> handle or Nil]: DirInfoEx.realDirHandle
  held,         \* [handle -> Nil or [by, dir]]: what the application was given
  lost,         \* history: handles that were open when their layer was removed
  frames,       \* Seq of frames: the doForLayer calls on the stack
  ret           \* the answer of the frame that returned last, or Nil

files == <<has, deleted, realHas>>
tables == <<owner, isDir, opener, parent>>
vars == <<fsLayers, active, files, tables, held, lost, frames, ret>>

AnyHandle == Handle \cup RealHandle
Ops == {"openFile", "stat", "useFile", "closeFile", "openDir", "readDir",
        "rewindDir", "closeDir"}
PathOps  == {"openFile", "stat", "openDir"}
DirOps   == {"readDir", "rewindDir", "closeDir"}
Opening  == {"openFile", "openDir"}
Closing  == {"closeFile", "closeDir"}

(* A frame: the client and command of the shim buffer, the next layer index   *)
(* plus whether a layer failed on the way, and the directory handle whose      *)
(* merging layer waits for a nested call.                                     *)
Frame == [client : Layer \cup {Client}, op : Ops, arg : Path \cup AnyHandle,
          i : Nat, failed : BOOLEAN, dir : Handle \cup {Nil}]

Init ==
  /\ fsLayers = <<>> /\ active = {}
  /\ has \in [Layer -> SUBSET Path] /\ realHas \in SUBSET Path
  /\ deleted \in [Layer -> SUBSET Path]
  /\ \A l \in Layer \ Merging : deleted[l] = {}
  /\ owner = [h \in AnyHandle |-> Nil] /\ isDir = {}
  /\ opener = [h \in RealHandle |-> Nil]
  /\ parent = [h \in Handle |-> Nil]
  /\ held = [h \in AnyHandle |-> Nil] /\ lost = {}
  /\ frames = <<>> /\ ret = Nil

(* std::lock_guard on fsLayerMutex.                                           *)
Locked == frames # <<>>

-----------------------------------------------------------------------------
(* export.cpp: CRAddFSLayer, CRRemoveFSLayer, CRSetActive; clearFSLayer.      *)

InStack(l) == \E k \in 1 .. Len(fsLayers) : fsLayers[k] = l

AddLayer(l) ==
  /\ ~Locked /\ ~InStack(l)
  /\ fsLayers' = Append(fsLayers, l)
  /\ active' = active \cup {l}
  /\ UNCHANGED <<files, tables, held, lost, frames, ret>>

(* The layers' tables die with them, and FSADelClient makes the console close *)
(* what their clients opened; files a layer had open are not closed.          *)
Forget(L) ==
  LET gone == {h \in Handle : owner[h] \in L} \cup {h \in RealHandle : opener[h] \in L}
  IN  /\ owner' = [h \in AnyHandle |-> IF h \in gone THEN Nil ELSE owner[h]]
      /\ isDir' = isDir \ gone
      /\ opener' = [h \in RealHandle |-> IF h \in gone THEN Nil ELSE opener[h]]
      /\ parent' = [h \in Handle |-> IF h \in gone THEN Nil ELSE parent[h]]

(* The application keeps the handles, whose numbers may be given out again.     *)
RemoveFSLayer(l) ==
  /\ ~Locked
  /\ \E k \in 1 .. Len(fsLayers) :
       fsLayers[k] = l /\ fsLayers' = RemoveAt(fsLayers, k)
  /\ active' = active \ {l}
  /\ Forget({l})
  /\ lost' = lost \cup {h \in Handle : owner[h] = l}
  /\ UNCHANGED <<files, held, frames, ret>>

(* At the end of an application; its handles end with it.                      *)
ClearFSLayer ==
  /\ ~Locked /\ fsLayers # <<>>
  /\ fsLayers' = <<>> /\ active' = {}
  /\ owner' = [h \in AnyHandle |-> Nil] /\ isDir' = {}
  /\ opener' = [h \in RealHandle |-> Nil] /\ parent' = [h \in Handle |-> Nil]
  /\ held' = [h \in AnyHandle |-> Nil] /\ lost' = {}
  /\ UNCHANGED <<files, frames, ret>>

SetActive(l) ==
  /\ ~Locked /\ InStack(l)
  /\ active' = IF l \in active THEN active \ {l} ELSE active \cup {l}
  /\ UNCHANGED <<fsLayers, files, tables, held, lost, frames, ret>>

-----------------------------------------------------------------------------
(* doForLayer.                                                                *)

(* The first layer to ask: the one below the layer whose id is the client's.  *)
StartAtTop(client) == Len(fsLayers)   \* mutant: the search for the layer is gone
StartTooLow(client) ==   \* mutant: one too many is skipped
  LET own == {k \in 1 .. Len(fsLayers) : fsLayers[k] \in Merging /\ fsLayers[k] = client}
  IN  IF own = {} THEN Len(fsLayers) ELSE Max(own) - 2
StartIndex(client) ==
  LET own == {k \in 1 .. Len(fsLayers) : fsLayers[k] \in Merging /\ fsLayers[k] = client}
  IN  IF own = {} THEN Len(fsLayers) ELSE Max(own) - 1

Call(client, op, arg) ==
  [client |-> client, op |-> op, arg |-> arg, i |-> StartIndex(client),
   failed |-> FALSE, dir |-> Nil]

Top   == frames[Len(frames)]
Below == SubSeq(frames, 1, Len(frames) - 1)
At    == fsLayers[Top.i]

(* An application that uses a handle it was given, in the way it was opened.  *)
Enter(op, arg) ==
  /\ ~Locked
  /\ IF op \in PathOps THEN arg \in Path
     ELSE arg \in AnyHandle /\ held[arg] # Nil /\ (held[arg].dir <=> op \in DirOps)
  /\ frames' = <<Call(Client, op, arg)>> /\ ret' = Nil
  /\ UNCHANGED <<fsLayers, active, lost, files, tables, held>>

ConcernedAnyHandle(l, f) ==   \* mutant: a table shared by all layers
  IF f.op \in PathOps THEN f.arg \in Covers[l]
  ELSE f.arg \in AnyHandle /\ owner[f.arg] \in Layer
Concerned(l, f) == IF f.op \in PathOps THEN f.arg \in Covers[l]
                   ELSE /\ f.arg \in AnyHandle /\ owner[f.arg] = l
                        /\ (f.arg \in isDir <=> f.op \in DirOps)

Asking == Locked /\ Top.i > 0 /\ Top.dir = Nil

AskAgain(failed) ==       \* mutant: the loop does not step down
  frames' = [frames EXCEPT ![Len(frames)].failed = @ \/ failed,
                           ![Len(frames)].dir = Nil]
NextLayer(failed) ==
  frames' = [frames EXCEPT ![Len(frames)].i = @ - 1,
                           ![Len(frames)].failed = @ \/ failed,
                           ![Len(frames)].dir = Nil]

(* The wrapper of the application forgets the handle it closed or keeps the    *)
(* one it got.                                                                *)
Received(by) == [by |-> by, dir |-> Top.op = "openDir"]
Tell(by, ok, h) ==
  held' = IF Top.client # Client THEN held
          ELSE CASE Top.op \in Opening /\ ok -> [held EXCEPT ![h] = Received(by)]
                 [] Top.op \in Closing -> [held EXCEPT ![Top.arg] = Nil]
                 [] OTHER -> held

(* doForLayer returns to the frame below, or to the application.               *)
Return(by, ok, failed, h) ==
  /\ frames' = Below
  /\ ret' = [call |-> [Top EXCEPT !.failed = @ \/ failed], by |-> by, ok |-> ok, h |-> h]
  /\ Tell(by, ok, h)

(* !layer->isActive(), or FS_ERROR_FORCE_PARENT_LAYER: the path or the handle  *)
(* is none of this layer's business.                                          *)
PassBy ==
  /\ Asking
  /\ At \notin active \/ ~Concerned(At, Top)
  /\ NextLayer(FALSE)
  /\ UNCHANGED <<fsLayers, active, lost, files, tables, held, ret>>

Asked(op) == Asking /\ At \in active /\ Concerned(At, Top) /\ Top.op = op

(* A layer's error is final, unless it is a merging layer's.                   *)
FallBackNever(l)   == FALSE   \* mutant
FallBackOnError(l) == l \in Merging
ErrorAnswer(l, failed) == IF FallBackOnError(l)
                          THEN NextLayer(failed) /\ UNCHANGED <<held, ret>>
                          ELSE Return(l, FALSE, failed, Nil)

(* FS_ERROR_FORCE_NO_FALLBACK: the merging layer finds a .deleted_ mark.       *)
IsDeleted(l, f) == /\ l \in Merging /\ f.op \in {"openFile", "stat"}
                   /\ f.arg \in deleted[l]

AnswerDeleted ==
  /\ \E op \in PathOps : Asked(op)
  /\ IsDeleted(At, Top)
  /\ Return(At, FALSE, FALSE, Nil)
  /\ UNCHANGED <<fsLayers, active, lost, files, tables>>

DropTable(h) ==   \* mutant: clears the layer's table
  /\ owner' = [g \in AnyHandle |-> IF owner[g] = owner[h] THEN Nil ELSE owner[g]]
  /\ isDir' = isDir \ {g \in isDir : owner[g] = owner[h]}
  /\ parent' = [g \in Handle |-> IF owner[g] = owner[h] THEN Nil ELSE parent[g]]
  /\ UNCHANGED opener
Drop(h) == /\ owner' = [owner EXCEPT ![h] = Nil]
           /\ isDir' = isDir \ {h}
           /\ parent' = [parent EXCEPT ![h] = Nil]
           /\ UNCHANGED opener

(* FS_ERROR_NOT_FOUND, or another error of the replacement's file system; a    *)
(* handle that was to be closed is deleted from the table all the same.       *)
AnswerError ==
  /\ Asking /\ At \in active /\ Concerned(At, Top)
  /\ Top.op # "rewindDir" /\ ~IsDeleted(At, Top)
  /\ ErrorAnswer(At, ~(Top.op \in PathOps /\ Top.arg \notin has[At]))
  /\ IF Top.op \in Closing THEN Drop(Top.arg) ELSE UNCHANGED tables
  /\ UNCHANGED <<fsLayers, active, lost, files>>

AnswerStat ==
  /\ Asked("stat") /\ Top.arg \in has[At] /\ ~IsDeleted(At, Top)
  /\ Return(At, TRUE, FALSE, Nil)
  /\ UNCHANGED <<fsLayers, active, lost, files, tables>>

(* The handle is the address of a new object, so no live handle equals it.     *)
Fresh == {h \in Handle : owner[h] = Nil}

AnswerOpenFile(h) ==
  /\ Asked("openFile") /\ Top.arg \in has[At] /\ ~IsDeleted(At, Top)
  /\ h \in Fresh
  /\ owner' = [owner EXCEPT ![h] = At]
  /\ Return(At, TRUE, FALSE, h)
  /\ UNCHANGED <<fsLayers, active, lost, files, isDir, opener, parent>>

AnswerUseFile ==
  /\ Asked("useFile")
  /\ Return(At, TRUE, FALSE, Nil)
  /\ UNCHANGED <<fsLayers, active, lost, files, tables>>

AnswerCloseFile ==
  /\ Asked("closeFile")
  /\ owner' = [owner EXCEPT ![Top.arg] = Nil]
  /\ Return(At, TRUE, FALSE, Nil)
  /\ UNCHANGED <<fsLayers, active, lost, files, isDir, opener, parent>>

-----------------------------------------------------------------------------
(* Directories.  FSWrapperMergeDirsWithParent does the base class' work and    *)
(* then calls the patched FSAOpenDir, FSAReadDir ... with its own client.      *)

(* The layer waits with directory d while a nested doForLayer runs.            *)
Nest(op, arg, d) ==
  frames' = Append([frames EXCEPT ![Len(frames)] = [@ EXCEPT !.dir = d]],
                   Call(At, op, arg))

AnswerOpenDir(h) ==
  /\ Asked("openDir") /\ Top.arg \in has[At]
  /\ h \in Fresh
  /\ owner' = [owner EXCEPT ![h] = At]
  /\ isDir' = isDir \cup {h}
  /\ parent' = [parent EXCEPT ![h] = Nil]
  /\ IF At \in Merging THEN Nest("openDir", Top.arg, h) /\ UNCHANGED <<held, ret>>
                       ELSE Return(At, TRUE, FALSE, h)
  /\ UNCHANGED <<fsLayers, active, lost, files, opener>>

(* An entry of the layer's own directory, or its end.                          *)
AnswerReadDir ==
  /\ Asked("readDir")
  /\ Return(At, TRUE, FALSE, Nil)
  /\ UNCHANGED <<fsLayers, active, lost, files, tables>>

(* After its own last entry the merging layer goes on with the parent's; so     *)
(* do rewind and close.                                                       *)
AskParent(op) ==
  /\ Asked(op) /\ At \in Merging /\ parent[Top.arg] # Nil
  /\ Nest(op, parent[Top.arg], Top.arg)
  /\ UNCHANGED <<fsLayers, active, lost, files, tables, held, ret>>

AnswerRewindDir ==
  /\ Asked("rewindDir") /\ parent[Top.arg] = Nil
  /\ Return(At, TRUE, FALSE, Nil)
  /\ UNCHANGED <<fsLayers, active, lost, files, tables>>

AnswerCloseDir ==
  /\ Asked("closeDir") /\ parent[Top.arg] = Nil
  /\ Drop(Top.arg)
  /\ Return(At, TRUE, FALSE, Nil)
  /\ UNCHANGED <<fsLayers, active, lost, files>>

(* The nested call has returned to the merging layer.                          *)
Resuming(op) == Locked /\ Top.dir # Nil /\ Top.op = op

ResumeOpenDir ==
  /\ Resuming("openDir")
  /\ parent' = [parent EXCEPT ![Top.dir] = IF ret.ok THEN ret.h ELSE Nil]
  /\ Return(At, TRUE, FALSE, Top.dir)
  /\ UNCHANGED <<fsLayers, active, lost, files, owner, isDir, opener>>

(* The parent's entry is one the layer has, or hides: it asks for the next.     *)
ReadParentAgain ==
  /\ Resuming("readDir") /\ ret.ok
  /\ Nest("readDir", parent[Top.dir], Top.dir)
  /\ UNCHANGED <<fsLayers, active, lost, files, tables, held, ret>>

ResumeReadDir ==
  /\ Resuming("readDir")
  /\ Return(At, TRUE, FALSE, Nil)
  /\ UNCHANGED <<fsLayers, active, lost, files, tables>>

(* FSARewindDir of the parent succeeds: realDirHandle = 0.                     *)
ResumeRewindDir ==
  /\ Resuming("rewindDir")
  /\ parent' = IF ret.ok THEN [parent EXCEPT ![Top.dir] = Nil] ELSE parent
  /\ Return(At, TRUE, FALSE, Nil)
  /\ UNCHANGED <<fsLayers, active, lost, files, owner, isDir, opener>>

(* A parent that cannot close it is an error of the merging layer, from which   *)
(* doForLayer falls back unless it is FS_ERROR_CANCELLED.                      *)
ResumeCloseDir ==
  /\ Resuming("closeDir")
  /\ Drop(Top.dir)
  /\ IF ret.ok THEN Return(At, TRUE, FALSE, Nil)
               ELSE ErrorAnswer(At, TRUE) \/ Return(At, FALSE, TRUE, Nil)
  /\ UNCHANGED <<fsLayers, active, lost, files>>

-----------------------------------------------------------------------------
(* FS_ERROR_FORCE_REAL_FUNCTION: every layer has been asked; the wrapper calls *)
(* the real function, with the path or the handle as it got it.               *)
AskReal == Locked /\ Top.i = 0 /\ Top.dir = Nil

RealOpen(h) ==
  /\ AskReal /\ Top.op \in Opening /\ Top.arg \in realHas
  /\ h \in RealHandle /\ owner[h] = Nil
  /\ owner' = [owner EXCEPT ![h] = Real]
  /\ opener' = [opener EXCEPT ![h] = Top.client]
  /\ isDir' = IF Top.op = "openDir" THEN isDir \cup {h} ELSE isDir
  /\ Return(Real, TRUE, FALSE, h)
  /\ UNCHANGED <<fsLayers, active, lost, files, parent>>

RealStat ==
  /\ AskReal /\ Top.op = "stat"
  /\ Return(Real, Top.arg \in realHas, FALSE, Nil)
  /\ UNCHANGED <<fsLayers, active, lost, files, tables>>

RealFails ==
  /\ AskReal /\ Top.op \in Opening
  /\ Return(Real, FALSE, Top.arg \in realHas, Nil)
  /\ UNCHANGED <<fsLayers, active, lost, files, tables>>

RealUse ==
  /\ AskReal /\ Top.op \notin PathOps
  /\ Return(Real, owner[Top.arg] = Real, FALSE, Nil)
  /\ IF Top.op \in Closing /\ owner[Top.arg] = Real
     THEN /\ owner' = [owner EXCEPT ![Top.arg] = Nil]
          /\ opener' = [opener EXCEPT ![Top.arg] = Nil]
          /\ isDir' = isDir \ {Top.arg}
     ELSE UNCHANGED <<owner, opener, isDir>>
  /\ UNCHANGED <<fsLayers, active, lost, files, parent>>

-----------------------------------------------------------------------------
Plugin == \/ \E l \in Layer : AddLayer(l) \/ RemoveFSLayer(l) \/ SetActive(l)
          \/ ClearFSLayer

Walk == \/ PassBy \/ AnswerDeleted \/ AnswerError
        \/ AnswerStat \/ AnswerUseFile \/ AnswerCloseFile
        \/ AnswerReadDir \/ AnswerRewindDir \/ AnswerCloseDir
        \/ \E h \in Handle : AnswerOpenFile(h) \/ AnswerOpenDir(h)
        \/ \E op \in DirOps : AskParent(op)
        \/ ResumeOpenDir \/ ResumeReadDir \/ ReadParentAgain
        \/ ResumeRewindDir \/ ResumeCloseDir
        \/ \E h \in RealHandle : RealOpen(h)
        \/ RealStat \/ RealFails \/ RealUse

Next == Plugin \/ Walk \/ \E op \in Ops, arg \in Path \cup AnyHandle : Enter(op, arg)

Spec == Init /\ [][Next]_vars

-----------------------------------------------------------------------------
(* The types: a table maps a handle to the layer that opened it, a frame is a  *)
(* doForLayer in progress with an index that is a natural number.              *)
TypeOK ==
  /\ fsLayers \in Seq(Layer) /\ active \subseteq Layer
  /\ has \in [Layer -> SUBSET Path] /\ deleted \in [Layer -> SUBSET Path]
  /\ realHas \subseteq Path
  /\ owner \in [AnyHandle -> Layer \cup {Real, Nil}] /\ isDir \subseteq AnyHandle
  /\ opener \in [RealHandle -> Layer \cup {Client, Nil}]
  /\ parent \in [Handle -> AnyHandle \cup {Nil}]
  /\ \A h \in AnyHandle : held[h] # Nil => held[h].by \in Layer \cup {Real}
  /\ lost \subseteq Handle
  /\ \A k \in 1 .. Len(frames) : frames[k] \in Frame

(* A handle that the application holds is still open where it came from, as   *)
(* what it was opened: no close of another handle, no error on the way, and no  *)
(* removal of another layer takes it away.  Only the handles that were open in   *)
(* a layer when a plugin removed it are lost, until the application ends.       *)
HeldIsOpen ==
  ~Locked => \A h \in AnyHandle \ lost : held[h] # Nil =>
               owner[h] = held[h].by /\ (h \in isDir <=> held[h].dir)

(* The directory a merging layer reads after its own belongs to a layer below  *)
(* it or to the console, and is a directory; so the layer's own client, whose   *)
(* walks start below it, finds it, unless that layer was removed.              *)
Position(l) == CHOOSE k \in 1 .. Len(fsLayers) : fsLayers[k] = l
ParentBelow ==
  \A h \in Handle \ lost : parent[h] \notin lost \cup {Nil} /\ (\A k \in 1 .. Len(frames) : frames[k].dir # h) =>
    LET up == owner[h] down == owner[parent[h]] IN
    /\ up \in Merging /\ h \in isDir /\ parent[h] \in isDir
    /\ \/ down = Real /\ opener[parent[h]] = up
       \/ down \in Layer /\ InStack(down) /\ Position(down) < Position(up)

(* What the layers amount to for a path: the topmost active layer that covers   *)
(* it and either replaces, or merges and has or hides the path, decides; the    *)
(* console when there is none.                                                *)
Deciders(f) ==
  {k \in 1 .. StartIndex(f.client) :
     LET l == fsLayers[k] IN
     /\ l \in active /\ f.arg \in Covers[l]
     /\ l \in Merging => f.arg \in has[l] \/ IsDeleted(l, f)}

Decider(f) == IF Deciders(f) = {} THEN Real ELSE fsLayers[Max(Deciders(f))]

Present(f) == IF Decider(f) = Real THEN f.arg \in realHas
              ELSE f.arg \in has[Decider(f)] /\ ~IsDeleted(Decider(f), f)

(* Every walk for a path ends at that layer, with that answer, unless the       *)
(* storage failed.                                                            *)
OverlayResolution ==
  [][ret' # ret /\ ret' # Nil =>
       (ret'.call.op \in PathOps /\ ~ret'.call.failed =>
          ret'.by = Decider(ret'.call) /\ (ret'.ok <=> Present(ret'.call)))]_vars

(* A handle is used where it was opened: another layer never answers for it,    *)
(* and the console sees it only when the layer is switched off or failed.      *)
GoesHome ==
  [][ret' # ret /\ ret' # Nil /\ ret'.call.client = Client
       /\ ret'.call.op \notin PathOps /\ ret'.call.arg \notin lost =>
       LET home == held[ret'.call.arg].by IN
       \/ ret'.by = home
       \/ ret'.by = Real /\ (home \notin active \/ ret'.call.failed)]_vars
=============================================================================
