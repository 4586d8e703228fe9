------------------------------- MODULE Reentry -------------------------------
(***************************************************************************)
(* The POSIX calls of the layers.  stat, open, read, closedir ... on a      *)
(* replacement directory end, through the devoptab of the C library, in the *)
(* patched FSA functions.  They run on the IO thread that is inside         *)
(* doForLayer already, so they are answered at once, by another doForLayer. *)
(* Their client is the devoptab's, which no layer has for its id: this walk *)
(* starts at the top of fsLayers and may come to the layer that called.     *)
(*                                                                         *)
(* LayerStack takes the outcome of such a call as given.  Here each answer   *)
(* of a layer is its step there, taken once the calls that it rests on have  *)
(* been made: frames is the innermost POSIX call and the walks nested in it  *)
(* with a layer's own client, outer what waits for it.                      *)
(***************************************************************************)
EXTENDS LayerStack

CONSTANTS
  Place,        \* [Layer -> [Path -> Path]]  GetNewPath
  Mark,         \* [Path -> Path]  with deletePrefix before the file's name; a
                \* name that has the prefix is its own mark
  Rank,         \* [Path -> Nat]  a measure of the paths, see Grounded
  Posix,        \* the devoptab's FSA client
  Fd,           \* a descriptor or DIR of the console's, where it makes no
                \* difference which one
  AppPath,      \* bound: the paths the application itself uses
  MayExist      \* bound: the paths that files may be stored under

ASSUME PlaceAssumption ==
  /\ Place \in [Layer -> [Path -> Path]] /\ Mark \in [Path -> Path]
  /\ Rank \in [Path -> Nat] /\ AppPath \cup MayExist \subseteq Path
  /\ Posix \notin Layer \cup {Client, Real, Nil}
  /\ Fd \notin AnyHandle \cup Path \cup {Nil}

VARIABLES
  outer,        \* the calls that wait for a POSIX call: their frames, the answer
                \* these had last, and what the POSIX call is for
  told,         \* what the POSIX calls have told the layer in the top frame
  opened,       \* the handle behind the descriptor it was told
  fd            \* [Handle -> handle, Fd or Nil]: FileInfo.fd, DirInfo.dir

posixVars == <<outer, told, opened, fd>>
allVars   == <<vars, posixVars>>

(* CheckFileShouldBeIgnored looks for the file whose presence deletes l's copy  *)
(* of p, unless p is hidden for its own name.                                 *)
MarkOfCopy(l, p) == Mark[Place[l][p]]
NamedLikeMark(l, p) == Mark[Place[l][p]] = Place[l][p]

(* All files are the console's in the end.                                    *)
AllInit ==
  /\ realHas \in SUBSET MayExist
  /\ has = [l \in Layer |-> {p \in Path : Place[l][p] \in realHas}]
  /\ deleted = [l \in Layer |-> {p \in Path : l \in Merging /\
                  (NamedLikeMark(l, p) \/ MarkOfCopy(l, p) \in realHas)}]
  /\ Init
  /\ outer = <<>> /\ told = "nothing" /\ opened = Nil
  /\ fd = [h \in Handle |-> Nil]

-----------------------------------------------------------------------------
(* Calling.                                                                   *)

PosixCall(why, op, arg) ==
  /\ outer' = Append(outer, [frames |-> frames, ret |-> ret, why |-> why])
  /\ frames' = <<Call(Posix, op, arg)>> /\ ret' = Nil
  /\ told' = "nothing" /\ opened' = Nil
  /\ UNCHANGED <<fsLayers, active, files, tables, held, lost, fd>>

(* pCheckIfDeleted: before its own copy the merging layer looks for the mark.  *)
ChecksMark(l, f) == l \in Merging /\ f.op \in {"openFile", "stat"}

AskMarkOnCopy ==   \* mutant: newDelPath without the prefix
  /\ told = "nothing"
  /\ \E op \in {"openFile", "stat"} : Asked(op)
  /\ ChecksMark(At, Top) /\ ~NamedLikeMark(At, Top.arg)
  /\ PosixCall("mark", "stat", Place[At][Top.arg])
AskMark ==
  /\ told = "nothing"
  /\ \E op \in {"openFile", "stat"} : Asked(op)
  /\ ChecksMark(At, Top) /\ ~NamedLikeMark(At, Top.arg)
  /\ PosixCall("mark", "stat", MarkOfCopy(At, Top.arg))

Ready == told = IF ChecksMark(At, Top) THEN "unmarked" ELSE "nothing"

(* A DirInfo is made before opendir, a FileInfo after open.                    *)
Promised == {k \in 1 .. Len(outer) : outer[k].why = "storage"
                                       /\ Last(outer[k].frames).op = "openDir"}
HasDirInfo == Cardinality(Promised) < Cardinality(Fresh)

(* The call on the layer's copy, or on its descriptor; readdir also once more   *)
(* after an entry that is not the application's business.                     *)
AskStorage ==
  /\ \E op \in Ops : Asked(op)
  /\ Ready \/ (Top.op = "readDir" /\ told = "yes")
  /\ Top.op = "openDir" => HasDirInfo
  /\ PosixCall("storage", Top.op,
               IF Top.op \in PathOps THEN Place[At][Top.arg] ELSE fd[Top.arg])

(* No memory for a FileInfo: the file that was opened is closed again.         *)
CloseAgain ==
  /\ Asked("openFile") /\ told = "yes"
  /\ PosixCall("undo", "closeFile", opened)

(* The answer of the POSIX call.                                              *)
Heard(why, ok) == CASE why = "mark"    -> IF ok THEN "deleted" ELSE "unmarked"
                    [] why = "storage" -> IF ok THEN "yes" ELSE "no"
                    [] why = "undo"    -> "noMemory"

Learn(S, l, p, there) == [S EXCEPT ![l] = IF there THEN @ \cup {p} ELSE @ \ {p}]

PosixReturn ==
  /\ frames = <<>> /\ outer # <<>>
  /\ LET call   == Last(outer)
         caller == Last(call.frames)
         layer  == fsLayers[caller.i] IN
     /\ frames' = call.frames /\ ret' = call.ret /\ outer' = Front(outer)
     /\ told' = Heard(call.why, ret.ok) /\ opened' = ret.h
     /\ deleted' = IF call.why = "mark" THEN Learn(deleted, layer, caller.arg, ret.ok)
                                        ELSE deleted
     /\ has' = IF call.why = "storage" /\ caller.op \in PathOps /\ (ret.ok \/ ~ret.call.failed)
               THEN Learn(has, layer, caller.arg, ret.ok) ELSE has
  /\ UNCHANGED <<fsLayers, active, realHas, tables, held, lost, fd>>

-----------------------------------------------------------------------------
(* Answering: the steps of LayerStack, when their calls have been made.        *)

(* A FileInfo or DirInfo dies with its handle.                                *)
KeepFds == fd' = [h \in Handle |-> IF owner'[h] = Nil THEN Nil ELSE fd[h]]
Moved   == told' = "nothing" /\ opened' = Nil /\ UNCHANGED outer

SaysDeleted  == AnswerDeleted /\ (told = "deleted" \/ NamedLikeMark(At, Top.arg))
SaysError    == /\ AnswerError
                /\ \/ told \in {"no", "noMemory"}
                   \/ Ready /\ Top.op \in {"openFile", "stat", "useFile", "openDir"}
SaysFound    == told = "yes" /\ (AnswerStat \/ AnswerReadDir)
SaysUsed     == AnswerUseFile /\ (told = "yes" \/ Ready)
SaysRewound  == told \in {"yes", "no"} /\ AnswerRewindDir
SaysClosed   == told = "yes" /\ (AnswerCloseFile \/ AnswerCloseDir)
SaysOpenUnset(h) ==   \* mutant: the descriptor is not noted in the FileInfo
  told = "yes" /\ (AnswerOpenFile(h) \/ AnswerOpenDir(h)) /\ UNCHANGED fd
SaysOpen(h)  == /\ told = "yes" /\ (AnswerOpenFile(h) \/ AnswerOpenDir(h))
                /\ fd' = [fd EXCEPT ![h] = opened]
TurnsToParent == \/ told = "yes" /\ \E op \in DirOps : AskParent(op)
                 \/ told = "no" /\ AskParent("rewindDir")
Resumes      == ResumeOpenDir \/ ResumeReadDir \/ ReadParentAgain
                \/ ResumeRewindDir \/ ResumeCloseDir
RealAnswers  == \/ Top.client # Posix /\ (RealUse \/ \E h \in RealHandle : RealOpen(h))
                \/ RealStat \/ RealFails

(* The console answers the devoptab; what it opens, nobody else can name.      *)
RealPosix ==
  /\ AskReal /\ Top.client = Posix
  /\ \/ Top.op \in Opening /\ Top.arg \in realHas /\ Return(Real, TRUE, FALSE, Fd)
     \/ \E ok \in BOOLEAN : /\ Top.op \notin PathOps /\ (ok => Top.arg = Fd)
                            /\ Return(Real, ok, FALSE, Nil)
  /\ UNCHANGED <<fsLayers, active, lost, files, tables>>

Answering ==
  /\ frames # <<>>
  /\ \/ (PassBy \/ SaysDeleted \/ SaysError \/ SaysFound \/ SaysUsed \/ SaysRewound
         \/ SaysClosed \/ TurnsToParent \/ Resumes \/ RealAnswers \/ RealPosix) /\ KeepFds
     \/ \E h \in Handle : SaysOpen(h)
  /\ Moved

Calling == AskMark \/ AskStorage \/ CloseAgain \/ PosixReturn

(* fsLayerMutex is held until the outermost walk has returned.                 *)
Busy == frames # <<>> \/ outer # <<>>
Between ==
  /\ ~Busy
  /\ Plugin \/ \E op \in Ops, arg \in AppPath \cup AnyHandle : Enter(op, arg)
  /\ KeepFds /\ UNCHANGED <<outer, told, opened>>

AllNext == Between \/ Answering \/ Calling

AllSpec == AllInit /\ [][AllNext]_allVars

(* The IO thread runs whenever it can, and a directory has an end.             *)
EndRead(h) == Answering /\ Top.arg = h /\ (AnswerReadDir \/ ResumeReadDir)
FairSpec == /\ AllSpec /\ WF_allVars(Answering \/ Calling)
            /\ \A h \in Handle : SF_allVars(EndRead(h))

-----------------------------------------------------------------------------
(* Nothing is said without a POSIX call on it, and a handle that a layer has     *)
(* made stands for a descriptor until the layer gives it up.                   *)
TypeOKReentry ==
  /\ told \in {"nothing", "unmarked", "deleted", "yes", "no", "noMemory"}
  /\ opened \in AnyHandle \cup {Fd, Nil}
  /\ \A h \in Handle : IF owner[h] = Nil THEN fd[h] = Nil
                       ELSE fd[h] \in Handle \cup {Fd}
  /\ \A k \in 1 .. Len(outer) : outer[k].why \in {"mark", "storage", "undo"}

(* No replacement directory leads back: a layer's copies, and their marks, are  *)
(* below the paths it replaces.                                               *)
Grounded ==
  \A l \in Layer : \A p \in Covers[l] :
    /\ Rank[Place[l][p]] < Rank[p]
    /\ l \in Merging => Rank[MarkOfCopy(l, p)] < Rank[p]

(* Every doForLayer inside another one has less to do: with a layer's own       *)
(* client it starts strictly below that layer, and on a replacement directory   *)
(* it has a path of lower rank.                                               *)
Inner(k) == IF k = Len(outer) THEN frames ELSE outer[k + 1].frames
Goes(down) == \A k \in 1 .. Len(down) :
                /\ down[k].i <= Len(fsLayers)
                /\ k < Len(down) => /\ down[k].dir # Nil
                                    /\ down[k].client # down[k + 1].client
                                    /\ down[k + 1].i < down[k].i
Descends ==
  /\ \A k \in 0 .. Len(outer) : Goes(Inner(k))
  /\ \A k \in 1 .. Len(outer) :
       LET caller == Last(outer[k].frames) IN
       Inner(k) # <<>> =>
         /\ Inner(k)[1].client = Posix
         /\ Inner(k)[1].op \in PathOps => Rank[Inner(k)[1].arg] < Rank[caller.arg]

(* The lock is released again: nesting and fallback come to an end.             *)
WalkEnds == Busy ~> ~Busy

(* No layer replaces what lies in a replacement directory.                     *)
Outside ==
  \A l, k \in Layer : \A p \in Covers[l] :
    Place[l][p] \notin Covers[k] /\ (l \in Merging => MarkOfCopy(l, p) \notin Covers[k])

(* Then every POSIX call goes through all layers to the console, and a layer's  *)
(* answer with its calls is the one step of LayerStack, which sees the walk     *)
(* that waits outermost.                                                      *)
Outermost    == IF outer = <<>> THEN frames ELSE outer[1].frames
OutermostRet == IF outer = <<>> THEN ret ELSE outer[1].ret
Layers == INSTANCE LayerStack WITH frames <- Outermost, ret <- OutermostRet

ImplementsLayers == Layers!Spec

(* A path resolves to what the stack stands for, calls and all.                *)
OverlayResolved == Layers!OverlayResolution
=============================================================================
