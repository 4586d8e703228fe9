---------------------------- MODULE Reentry_proofs ----------------------------
(***************************************************************************)
(* Proofs about Reentry for any layers, paths and handles, and any depth of    *)
(* POSIX calls inside POSIX calls: that they descend when the replacement      *)
(* directories are grounded, and that they amount to LayerStack's single step  *)
(* when no layer replaces what lies in one.                                   *)
(***************************************************************************)
EXTENDS Reentry, SequenceTheorems, FiniteSetTheorems, TLAPS

(* What is proved about LayerStack, of the walk that waits outermost.           *)
LayersP == INSTANCE LayerStack_proofs WITH frames <- Outermost, ret <- OutermostRet

-----------------------------------------------------------------------------
(* The invariant: what the stacks of frames look like.                         *)

AnyArg == Path \cup AnyHandle \cup {Fd, Nil}
AFrame == [client : Layer \cup {Client, Posix}, op : Ops, arg : AnyArg,
           i : Nat, failed : BOOLEAN, dir : Handle \cup {Nil}]
Answer == [call : AFrame, by : Layer \cup {Real}, ok : BOOLEAN,
           h : AnyHandle \cup {Fd, Nil}]
Call1  == [frames : Seq(AFrame), ret : Answer \cup {Nil}, why : {"mark", "storage", "undo"}]

LayersOK ==
  /\ fsLayers \in Seq(Layer)
  /\ \A i, j \in 1 .. Len(fsLayers) : fsLayers[i] = fsLayers[j] => i = j

(* Only a layer's objects are a layer's, whatever the console gives out.        *)
Owned ==
  /\ owner = [h \in AnyHandle |-> owner[h]]
  /\ \A h \in Handle : owner[h] \in Layer \cup {Nil}
  /\ \A h \in RealHandle : owner[h] \in {Real, Nil}

Typed ==
  /\ frames \in Seq(AFrame) /\ ret \in Answer \cup {Nil} /\ outer \in Seq(Call1)
  /\ parent \in [Handle -> AnyHandle \cup {Fd, Nil}]
  /\ opened \in AnyHandle \cup {Fd, Nil} /\ fd \in [Handle -> AnyHandle \cup {Fd, Nil}]

(* One thread's walks with a layer's own client, the first of them with another. *)
StackOK(s) ==
  \A k \in 1 .. Len(s) :
    /\ s[k].i <= StartIndex(s[k].client)
    /\ s[k].dir # Nil => s[k].i > 0 /\ fsLayers[s[k].i] \in Merging
    /\ k > 1 => /\ s[k - 1].dir # Nil
                /\ s[k].client = fsLayers[s[k - 1].i] /\ s[k].i < s[k - 1].i

Base(n) == IF n = 0 THEN Client ELSE Posix

FramesOK ==
  /\ StackOK(frames)
  /\ frames # <<>> => frames[1].client = Base(Len(outer))
  /\ frames = <<>> /\ outer # <<>> => ret \in Answer
  /\ frames # <<>> /\ Top.dir # Nil => ret \in Answer

(* A layer that has been asked about a path it covers, or a handle.             *)
Waiting(f) == /\ f.dir = Nil /\ f.i > 0
              /\ f.op \in PathOps => f.arg \in Covers[fsLayers[f.i]]
OuterOK ==
  \A k \in 1 .. Len(outer) :
    LET s == outer[k].frames IN
    /\ s # <<>> /\ StackOK(s) /\ s[1].client = Base(k - 1) /\ Waiting(s[Len(s)])

(* What the call is for that the frame f has come from.                         *)
MadeFor(c, f) ==
  LET w == c.frames[Len(c.frames)] l == fsLayers[w.i] IN
  /\ c.why = "mark"    => /\ f.op = "stat" /\ f.arg = MarkOfCopy(l, w.arg)
                          /\ l \in Merging /\ w.op \in PathOps /\ ~NamedLikeMark(l, w.arg)
  /\ c.why = "storage" => f.op = w.op /\ (f.op \in PathOps => f.arg = Place[l][w.arg])
  /\ c.why = "undo"    => f.op = "closeFile"
CallOf(k) == IF k < Len(outer) THEN outer[k + 1].frames[1]
             ELSE IF frames = <<>> THEN ret.call ELSE frames[1]
LinksOK == \A k \in 1 .. Len(outer) : MadeFor(outer[k], CallOf(k))

WInv == LayersOK /\ Owned /\ Typed /\ FramesOK /\ OuterOK /\ LinksOK

-----------------------------------------------------------------------------
(* The layers and the frames.                                                 *)

(* A client's walk starts inside fsLayers, and a merging layer's right below it. *)
LEMMA ClientIndex ==
  ASSUME LayersOK, NEW c
  PROVE  /\ StartIndex(c) \in 0 .. Len(fsLayers)
         /\ \A k \in 1 .. Len(fsLayers) :
              fsLayers[k] \in Merging /\ fsLayers[k] = c => StartIndex(c) = k - 1
         /\ c \notin Layer => StartIndex(c) = Len(fsLayers)
<1> DEFINE own == {k \in 1 .. Len(fsLayers) : fsLayers[k] \in Merging /\ fsLayers[k] = c}
<1>1. Len(fsLayers) \in Nat /\ \A k \in 1 .. Len(fsLayers) : fsLayers[k] \in Layer
  BY DEF LayersOK
<1>2. CASE own = {}
  BY <1>1, <1>2 DEF StartIndex
<1>3. CASE own # {}
  <2>1. PICK m \in own : TRUE
    BY <1>3
  <2>2. own = {m}
    BY <2>1 DEF LayersOK
  <2>3. Max(own) = m
    BY <1>1, <2>2 DEF Max
  <2>4. StartIndex(c) = m - 1
    BY <1>3, <2>3 DEF StartIndex
  <2> QED
    BY <1>1, <2>1, <2>2, <2>4
<1> QED
  BY <1>2, <1>3

(* The last element of a sequence, and what is left without it.                 *)
LEMMA FrontFacts ==
  ASSUME NEW S, NEW s \in Seq(S), s # <<>>
  PROVE  /\ Len(s) \in Nat \ {0} /\ s[Len(s)] \in S /\ Last(s) = s[Len(s)]
         /\ SubSeq(s, 1, Len(s) - 1) \in Seq(S) /\ Front(s) = SubSeq(s, 1, Len(s) - 1)
         /\ Len(SubSeq(s, 1, Len(s) - 1)) = Len(s) - 1
         /\ \A j \in 1 .. Len(s) - 1 : SubSeq(s, 1, Len(s) - 1)[j] = s[j] /\ s[j] \in S
<1> DEFINE m == Len(s) - 1
<1>1. Len(s) \in Nat \ {0} /\ \A j \in 1 .. Len(s) : s[j] \in S
  OBVIOUS
<1>2. m \in Nat /\ 1 \in Int /\ \A j \in 1 .. m : s[j] \in S
  BY <1>1
<1> HIDE DEF m
<1>3. /\ SubSeq(s, 1, m) \in Seq(S)
      /\ Len(SubSeq(s, 1, m)) = IF 1 <= m THEN m - 1 + 1 ELSE 0
      /\ \A j \in 1 .. m - 1 + 1 : SubSeq(s, 1, m)[j] = s[1 + j - 1]
  BY <1>2, SubSeqProperties
<1>4. Len(SubSeq(s, 1, m)) = m /\ \A j \in 1 .. m : SubSeq(s, 1, m)[j] = s[j]
  BY <1>2, <1>3
<1> QED
  BY <1>1, <1>2, <1>3, <1>4 DEF m, Front, Last

(* The frame on top, and the layer it looks at.                                *)
LEMMA TopFacts ==
  ASSUME WInv, frames # <<>>
  PROVE  /\ Len(frames) \in Nat \ {0} /\ Top = frames[Len(frames)] /\ Top \in AFrame
         /\ Below \in Seq(AFrame) /\ Len(Below) = Len(frames) - 1
         /\ \A j \in 1 .. Len(frames) - 1 : Below[j] = frames[j] /\ frames[j] \in AFrame
         /\ Top.i <= StartIndex(Top.client) /\ Top.i <= Len(fsLayers)
         /\ Top.i > 0 => Top.i \in 1 .. Len(fsLayers) /\ At \in Layer
         /\ Top.dir # Nil => Top.i > 0 /\ At \in Merging /\ Top.dir \in Handle
<1>1. frames \in Seq(AFrame) /\ LayersOK /\ StackOK(frames)
  BY DEF WInv, Typed, FramesOK
<1>2. /\ Len(frames) \in Nat \ {0} /\ Top = frames[Len(frames)] /\ Top \in AFrame
      /\ Below \in Seq(AFrame) /\ Len(Below) = Len(frames) - 1
      /\ \A j \in 1 .. Len(frames) - 1 : Below[j] = frames[j] /\ frames[j] \in AFrame
  BY <1>1, FrontFacts DEF Top, Below
<1>3. Len(frames) \in 1 .. Len(frames)
  BY <1>2
<1>4. Top.i <= StartIndex(Top.client) /\ (Top.dir # Nil => Top.i > 0 /\ At \in Merging)
  BY <1>1, <1>2, <1>3 DEF StackOK, At
<1>5. StartIndex(Top.client) \in 0 .. Len(fsLayers) /\ Len(fsLayers) \in Nat
  BY <1>1, ClientIndex DEF LayersOK
<1>6. Top.i \in Nat /\ Top.dir \in Handle \cup {Nil}
  BY <1>2 DEF AFrame
<1>7. Top.i > 0 => Top.i \in 1 .. Len(fsLayers) /\ At \in Layer
  BY <1>1, <1>4, <1>5, <1>6 DEF At, LayersOK
<1> QED
  BY <1>2, <1>4, <1>5, <1>6, <1>7

-----------------------------------------------------------------------------
(* What an answer does to the frames: the loop steps down, doForLayer returns,  *)
(* or a merging layer calls on its own.                                       *)

Steps   == Top.i > 0 /\ \E failed \in BOOLEAN : NextLayer(failed) /\ ret' = ret
Returns == /\ frames' = Below
           /\ ret' \in Answer /\ ret'.call.op = Top.op /\ ret'.call.arg = Top.arg
Nests   == /\ Top.i > 0 /\ At \in Merging /\ ret' = ret
           /\ \E op \in Ops, arg \in AnyArg, d \in Handle : Nest(op, arg, d)

Tables == Owned /\ parent \in [Handle -> AnyHandle \cup {Fd, Nil}]

Makes == (Steps \/ Returns \/ Nests) /\ UNCHANGED <<fsLayers, active, files>> /\ Tables'

LEMMA Returned ==
  ASSUME WInv, frames # <<>>, NEW by \in Layer \cup {Real}, NEW ok \in BOOLEAN,
         NEW failed \in BOOLEAN, NEW h \in AnyHandle \cup {Fd, Nil}, Return(by, ok, failed, h)
  PROVE  Returns
<1>1. Top \in AFrame
  BY TopFacts
<1>2. PICK b \in BOOLEAN : b = (Top.failed \/ failed)
  BY Zenon
<1>3. PICK c : c = [Top EXCEPT !.failed = b]
  OBVIOUS
<1>4. c \in AFrame /\ c.op = Top.op /\ c.arg = Top.arg
  <2>1. c = [client |-> Top.client, op |-> Top.op, arg |-> Top.arg, i |-> Top.i,
             failed |-> b, dir |-> Top.dir]
    BY <1>1, <1>3 DEF AFrame
  <2> QED
    BY <1>1, <2>1 DEF AFrame
<1>5. frames' = Below /\ ret' = [call |-> c, by |-> by, ok |-> ok, h |-> h]
  BY <1>2, <1>3 DEF Return
<1>6. ret' \in Answer
  BY <1>4, <1>5 DEF Answer
<1> QED
  BY <1>4, <1>5, <1>6 DEF Returns

(* A handle leaves the tables.                                                *)
LEMMA Dropped ==
  ASSUME Tables, NEW h, Drop(h)
  PROVE  Tables'
<1>1. /\ owner' = [owner EXCEPT ![h] = Nil] /\ parent' = [parent EXCEPT ![h] = Nil]
      /\ owner = [g \in AnyHandle |-> owner[g]]
  BY DEF Drop, Tables, Owned
<1>2. /\ owner' = [g \in AnyHandle |-> owner'[g]]
      /\ \A g \in AnyHandle : owner'[g] = IF g = h THEN Nil ELSE owner[g]
  BY <1>1
<1> QED
  BY <1>1, <1>2 DEF Tables, Owned, AnyHandle

(* An object of a layer's, or a handle of the console's, enters them.            *)
LEMMA Entered ==
  ASSUME Tables, NEW h \in AnyHandle, NEW by, owner' = [owner EXCEPT ![h] = by],
         (h \in Handle /\ by \in Layer) \/ (h \in RealHandle /\ by \in {Real, Nil})
  PROVE  Owned'
<1>1. /\ owner' = [g \in AnyHandle |-> owner'[g]]
      /\ \A g \in AnyHandle : owner'[g] = IF g = h THEN by ELSE owner[g]
  BY DEF Tables, Owned
<1> QED
  BY <1>1, NameAssumption DEF Tables, Owned, AnyHandle

LEMMA TablesStay == Tables /\ UNCHANGED tables => Tables'
  BY DEF Tables, Owned, tables

LEMMA ErrorMoves ==
  ASSUME WInv, frames # <<>>, Top.i > 0, NEW failed \in BOOLEAN, ErrorAnswer(At, failed)
  PROVE  Steps \/ Returns
<1>1. CASE NextLayer(failed) /\ ret' = ret
  BY <1>1 DEF Steps
<1>2. CASE Return(At, FALSE, failed, Nil)
  BY <1>2, TopFacts, Returned
<1> QED
  BY <1>1, <1>2 DEF ErrorAnswer

LEMMA LayerMoves ==
  ASSUME WInv, frames # <<>>,
         \/ PassBy \/ AnswerDeleted \/ AnswerError \/ AnswerStat \/ AnswerUseFile
         \/ AnswerReadDir \/ AnswerRewindDir \/ AnswerCloseFile \/ AnswerCloseDir
  PROVE  Makes
<1> USE DEF Makes, files
<1>0. /\ Tables /\ Top \in AFrame
      /\ Top.i > 0 => At \in Layer \cup {Real} /\ Top.i > 0
      /\ Nil \in AnyHandle \cup {Fd, Nil} /\ FALSE \in BOOLEAN /\ TRUE \in BOOLEAN
  BY TopFacts DEF WInv, Typed, Tables
<1>1. CASE PassBy
  <2>1. Steps
    BY <1>0, <1>1 DEF PassBy, Asking, Steps
  <2> QED
    BY <1>0, <1>1, <2>1, TablesStay DEF PassBy
<1>2. CASE AnswerDeleted
  BY <1>0, <1>2, Returned, TablesStay DEF AnswerDeleted, Asked, Asking
<1>3. CASE AnswerError
  <2>1. (~(Top.op \in PathOps /\ Top.arg \notin has[At])) \in BOOLEAN
    BY Zenon
  <2>2. Steps \/ Returns
    BY <1>0, <1>3, <2>1, ErrorMoves DEF AnswerError, Asking
  <2>3. Tables'
    BY <1>0, <1>3, Dropped, TablesStay DEF AnswerError
  <2> QED
    BY <1>3, <2>2, <2>3 DEF AnswerError
<1>4. CASE AnswerStat
  BY <1>0, <1>4, Returned, TablesStay DEF AnswerStat, Asked, Asking
<1>5. CASE AnswerUseFile
  BY <1>0, <1>5, Returned, TablesStay DEF AnswerUseFile, Asked, Asking
<1>6. CASE AnswerReadDir
  BY <1>0, <1>6, Returned, TablesStay DEF AnswerReadDir, Asked, Asking
<1>7. CASE AnswerRewindDir
  BY <1>0, <1>7, Returned, TablesStay DEF AnswerRewindDir, Asked, Asking
<1>8. CASE AnswerCloseFile
  <2>1. Returns
    BY <1>0, <1>8, Returned DEF AnswerCloseFile, Asked, Asking
  <2>2. Owned'
    <3>1. /\ owner = [g \in AnyHandle |-> owner[g]]
          /\ owner' = [owner EXCEPT ![Top.arg] = Nil]
      BY <1>0, <1>8 DEF AnswerCloseFile, Tables, Owned
    <3>2. /\ owner' = [g \in AnyHandle |-> owner'[g]]
          /\ \A g \in AnyHandle : owner'[g] = IF g = Top.arg THEN Nil ELSE owner[g]
      BY <3>1
    <3> QED
      BY <1>0, <3>2 DEF Tables, Owned, AnyHandle
  <2> QED
    BY <1>0, <1>8, <2>1, <2>2 DEF AnswerCloseFile, Tables
<1>9. CASE AnswerCloseDir
  BY <1>0, <1>9, Returned, Dropped DEF AnswerCloseDir, Asked, Asking
<1> QED
  BY <1>1, <1>2, <1>3, <1>4, <1>5, <1>6, <1>7, <1>8, <1>9

LEMMA OpenMoves ==
  ASSUME WInv, frames # <<>>, NEW h \in Handle, AnswerOpenFile(h) \/ AnswerOpenDir(h)
  PROVE  Makes
<1> USE DEF Makes, files
<1>0. /\ Tables /\ Top \in AFrame /\ Asking /\ Top.op \in Ops /\ Top.arg \in AnyArg
      /\ At \in Layer \cup {Real} /\ At \in Layer /\ Top.i > 0 /\ h \in AnyHandle
      /\ TRUE \in BOOLEAN /\ FALSE \in BOOLEAN /\ h \in AnyHandle \cup {Fd, Nil}
  BY TopFacts DEF WInv, Typed, Tables, AnswerOpenFile, AnswerOpenDir, Asked, Asking, AFrame, AnyHandle
<1>1. CASE AnswerOpenFile(h)
  <2>1. Returns
    BY <1>0, <1>1, Returned DEF AnswerOpenFile
  <2>2. Owned'
    <3> DEFINE l == At
    <3>1. owner' = [owner EXCEPT ![h] = l] /\ l \in Layer
      BY <1>0, <1>1 DEF AnswerOpenFile
    <3> HIDE DEF l
    <3> QED
      BY <1>0, <3>1, Entered
  <2> QED
    BY <1>0, <1>1, <2>1, <2>2 DEF AnswerOpenFile, Tables
<1>2. CASE AnswerOpenDir(h)
  <2>1. Returns \/ Nests
    <3>1. CASE At \in Merging
      <4>1. Nest("openDir", Top.arg, h) /\ ret' = ret /\ "openDir" \in Ops
        BY <1>2, <3>1 DEF AnswerOpenDir, Ops
      <4> QED
        BY <1>0, <3>1, <4>1 DEF Nests
    <3>2. CASE At \notin Merging
      BY <1>0, <1>2, <3>2, Returned DEF AnswerOpenDir
    <3> QED
      BY <3>1, <3>2
  <2>2. Owned'
    <3> DEFINE l == At
    <3>1. owner' = [owner EXCEPT ![h] = l] /\ l \in Layer
      BY <1>0, <1>2 DEF AnswerOpenDir
    <3> HIDE DEF l
    <3> QED
      BY <1>0, <3>1, Entered
  <2> QED
    BY <1>0, <1>2, <2>1, <2>2 DEF AnswerOpenDir, Tables
<1> QED
  BY <1>1, <1>2

LEMMA ParentMoves ==
  ASSUME WInv, frames # <<>>,
         \/ \E op \in DirOps : AskParent(op)
         \/ Resumes
  PROVE  Makes
<1> USE DEF Makes, files
<1>0. /\ Tables /\ Top \in AFrame /\ Top.op \in Ops /\ Top.arg \in AnyArg
      /\ Top.dir # Nil => /\ At \in Layer \cup {Real} /\ At \in Layer /\ Top.i > 0 /\ At \in Merging
                          /\ Top.dir \in Handle /\ ret \in Answer /\ Top.dir \in AnyHandle \cup {Fd, Nil}
                          /\ parent[Top.dir] \in AnyArg
      /\ TRUE \in BOOLEAN /\ FALSE \in BOOLEAN /\ DirOps \subseteq Ops
      /\ Nil \in AnyHandle \cup {Fd, Nil}
  BY TopFacts DEF WInv, Typed, Tables, AFrame, AnyHandle, FramesOK, DirOps, Ops, AnyArg
<1>1. ASSUME NEW op \in DirOps, AskParent(op) PROVE Makes
  <2>1. Top.i > 0 /\ At \in Merging /\ Asked(op) /\ At \in Layer /\ Top.op = op
    BY <1>1, TopFacts DEF AskParent, Asked, Asking
  <2>2. Top.arg \in Handle
    <3>1. Top.arg \in AnyHandle /\ owner[Top.arg] = At
      BY <2>1 DEF Asked, Concerned, DirOps, PathOps
    <3> QED
      BY <1>0, <2>1, <3>1, NameAssumption DEF Tables, Owned, AnyHandle
  <2>3. parent[Top.arg] \in AnyArg
    BY <1>0, <2>2 DEF Tables, AnyArg
  <2>4. Nests
    BY <1>0, <1>1, <2>1, <2>2, <2>3 DEF AskParent, Nests
  <2> QED
    BY <1>0, <1>1, <2>4, TablesStay DEF AskParent
<1>2. CASE ResumeOpenDir
  <2>1. Returns
    BY <1>0, <1>2, Returned DEF ResumeOpenDir, Resuming
  <2>2. (IF ret.ok THEN ret.h ELSE Nil) \in AnyHandle \cup {Fd, Nil}
    BY <1>0, <1>2 DEF ResumeOpenDir, Resuming, Answer
  <2>3. Tables'
    BY <1>0, <1>2, <2>2 DEF ResumeOpenDir, Tables, Owned
  <2> QED
    BY <1>2, <2>1, <2>3 DEF ResumeOpenDir
<1>3. CASE ResumeReadDir
  BY <1>0, <1>3, Returned, TablesStay DEF ResumeReadDir, Resuming
<1>4. CASE ReadParentAgain
  <2>1. Nests
    <3>1. "readDir" \in Ops /\ Nest("readDir", parent[Top.dir], Top.dir) /\ ret' = ret
      BY <1>4 DEF ReadParentAgain, Ops
    <3> QED
      BY <1>0, <1>4, <3>1 DEF ReadParentAgain, Resuming, Nests
  <2> QED
    BY <1>0, <1>4, <2>1, TablesStay DEF ReadParentAgain
<1>5. CASE ResumeRewindDir
  <2>1. Returns
    BY <1>0, <1>5, Returned DEF ResumeRewindDir, Resuming
  <2>2. Tables'
    BY <1>0, <1>5 DEF ResumeRewindDir, Tables, Owned
  <2> QED
    BY <1>5, <2>1, <2>2 DEF ResumeRewindDir
<1>6. CASE ResumeCloseDir
  <2>1. Top.dir # Nil /\ (Return(At, TRUE, FALSE, Nil) \/ ErrorAnswer(At, TRUE) \/ Return(At, FALSE, TRUE, Nil))
    BY <1>6, Zenon DEF ResumeCloseDir, Resuming
  <2>2. Steps \/ Returns
    BY <1>0, <2>1, Returned, ErrorMoves
  <2>3. Tables'
    BY <1>0, <1>6, Dropped DEF ResumeCloseDir
  <2> QED
    BY <1>6, <2>2, <2>3 DEF ResumeCloseDir
<1> QED
  BY <1>1, <1>2, <1>3, <1>4, <1>5, <1>6 DEF Resumes

LEMMA RealMoves ==
  ASSUME WInv, frames # <<>>,
         \/ \E h \in RealHandle : RealOpen(h)
         \/ RealStat \/ RealFails \/ RealUse \/ RealPosix
  PROVE  Makes
<1> USE DEF Makes, files
<1>0. /\ Tables /\ Top \in AFrame /\ Real \in Layer \cup {Real}
      /\ TRUE \in BOOLEAN /\ FALSE \in BOOLEAN
      /\ Nil \in AnyHandle \cup {Fd, Nil} /\ Fd \in AnyHandle \cup {Fd, Nil}
      /\ (Top.arg \in realHas) \in BOOLEAN /\ (owner[Top.arg] = Real) \in BOOLEAN
  BY TopFacts DEF WInv, Typed, Tables
<1>1. ASSUME NEW h \in RealHandle, RealOpen(h) PROVE Makes
  <2>1. h \in AnyHandle \cup {Fd, Nil} /\ h \in AnyHandle /\ Real \in {Real, Nil}
    BY DEF AnyHandle
  <2>2. Returns
    BY <1>0, <1>1, <2>1, Returned DEF RealOpen
  <2>3. Owned'
    BY <1>0, <1>1, <2>1, Entered DEF RealOpen
  <2> QED
    BY <1>0, <1>1, <2>2, <2>3 DEF RealOpen, Tables
<1>2. CASE RealStat
  BY <1>0, <1>2, Returned, TablesStay DEF RealStat
<1>3. CASE RealFails
  BY <1>0, <1>3, Returned, TablesStay DEF RealFails
<1>4. CASE RealUse
  <2>1. Returns
    BY <1>0, <1>4, Returned DEF RealUse
  <2>2. Owned'
    <3>1. CASE Top.op \in Closing /\ owner[Top.arg] = Real
      <4>1. /\ owner = [g \in AnyHandle |-> owner[g]]
            /\ owner' = [owner EXCEPT ![Top.arg] = Nil]
        BY <1>0, <1>4, <3>1 DEF RealUse, Tables, Owned
      <4>2. /\ owner' = [g \in AnyHandle |-> owner'[g]]
            /\ \A g \in AnyHandle : owner'[g] = IF g = Top.arg THEN Nil ELSE owner[g]
        BY <4>1
      <4> QED
        BY <1>0, <4>2 DEF Tables, Owned, AnyHandle
    <3>2. CASE ~(Top.op \in Closing /\ owner[Top.arg] = Real)
      <4>1. owner' = owner
        BY <1>4, <3>2 DEF RealUse
      <4> QED
        BY <1>0, <4>1 DEF Tables, Owned
    <3> QED
      BY <3>1, <3>2
  <2> QED
    BY <1>0, <1>4, <2>1, <2>2 DEF RealUse, Tables
<1>5. CASE RealPosix
  <2>1. Returns
    BY <1>0, <1>5, Returned DEF RealPosix
  <2> QED
    BY <1>0, <1>5, <2>1, TablesStay DEF RealPosix
<1> QED
  BY <1>1, <1>2, <1>3, <1>4, <1>5

LEMMA AnswerMoves ==
  ASSUME WInv, Answering
  PROVE  /\ frames # <<>> /\ Makes /\ outer' = outer /\ opened' = Nil
         /\ fd' \in [Handle -> AnyHandle \cup {Fd, Nil}]
<1>1. frames # <<>> /\ outer' = outer /\ opened' = Nil
  BY DEF Answering, Moved
<1>2. fd \in [Handle -> AnyHandle \cup {Fd, Nil}] /\ opened \in AnyHandle \cup {Fd, Nil}
  BY DEF WInv, Typed
<1>3. ASSUME NEW h \in Handle, SaysOpen(h)
      PROVE  Makes /\ fd' \in [Handle -> AnyHandle \cup {Fd, Nil}]
  BY <1>1, <1>2, <1>3, OpenMoves DEF SaysOpen
<1>4. ASSUME KeepFds, \/ PassBy \/ SaysDeleted \/ SaysError \/ SaysFound \/ SaysUsed \/ SaysRewound
                      \/ SaysClosed \/ TurnsToParent \/ Resumes \/ RealAnswers \/ RealPosix
      PROVE  Makes /\ fd' \in [Handle -> AnyHandle \cup {Fd, Nil}]
  <2>1. Makes
    <3>1. CASE \/ PassBy \/ SaysDeleted \/ SaysError \/ SaysFound \/ SaysUsed \/ SaysRewound
               \/ SaysClosed
      BY <1>1, <3>1, LayerMoves, Zenon
      DEF SaysDeleted, SaysError, SaysFound, SaysUsed, SaysRewound, SaysClosed
    <3>2. CASE TurnsToParent \/ Resumes
      <4>1. "rewindDir" \in DirOps
        BY DEF DirOps
      <4> QED
        BY <1>1, <3>2, <4>1, ParentMoves, Zenon DEF TurnsToParent
    <3>3. CASE RealAnswers \/ RealPosix
      BY <1>1, <3>3, RealMoves, Zenon DEF RealAnswers
    <3> QED
      BY <1>4, <3>1, <3>2, <3>3
  <2> QED
    BY <1>2, <1>4, <2>1 DEF KeepFds
<1> QED
  BY <1>1, <1>3, <1>4 DEF Answering

-----------------------------------------------------------------------------
(* The invariant is kept: answers.                                            *)

(* The loop has stepped down.                                                 *)
LEMMA StepsFacts ==
  ASSUME WInv, frames # <<>>, Steps
  PROVE  /\ frames' \in Seq(AFrame) /\ Len(frames') = Len(frames)
         /\ \A j \in 1 .. Len(frames) - 1 : frames'[j] = frames[j]
         /\ LET f == frames'[Len(frames)] IN
            /\ f.client = Top.client /\ f.op = Top.op /\ f.arg = Top.arg
            /\ f.i = Top.i - 1 /\ f.dir = Nil
<1> DEFINE n == Len(frames)
<1>1. n \in Nat \ {0} /\ Top = frames[n] /\ Top \in AFrame /\ frames \in Seq(AFrame) /\ Top.i > 0
  BY TopFacts DEF WInv, Typed, Steps
<1>2. PICK failed \in BOOLEAN : NextLayer(failed)
  BY DEF Steps
<1>3. PICK b \in BOOLEAN : b = (Top.failed \/ failed)
  BY Zenon
<1>4. PICK g : g = [Top EXCEPT !.i = @ - 1, !.failed = b, !.dir = Nil]
  OBVIOUS
<1>5. frames' = [frames EXCEPT ![n] = g]
  BY <1>1, <1>2, <1>3, <1>4 DEF NextLayer
<1>6. g = [client |-> Top.client, op |-> Top.op, arg |-> Top.arg, i |-> Top.i - 1,
           failed |-> b, dir |-> Nil]
  BY <1>1, <1>4 DEF AFrame
<1>7. g \in AFrame
  BY <1>1, <1>6 DEF AFrame
<1> HIDE DEF n
<1>8. /\ frames' \in Seq(AFrame) /\ Len(frames') = Len(frames) /\ n = Len(frames)
      /\ \A j \in 1 .. n - 1 : frames'[j] = frames[j]
      /\ frames'[n] = g
  BY <1>1, <1>5, <1>7 DEF n
<1> QED
  BY <1>6, <1>8

(* A merging layer waits for its own call.                                    *)
LEMMA NestsFacts ==
  ASSUME WInv, frames # <<>>, Nests
  PROVE  /\ frames' \in Seq(AFrame) /\ Len(frames') = Len(frames) + 1
         /\ \A j \in 1 .. Len(frames) - 1 : frames'[j] = frames[j]
         /\ LET f == frames'[Len(frames)] g == frames'[Len(frames) + 1] IN
            /\ f.client = Top.client /\ f.op = Top.op /\ f.arg = Top.arg
            /\ f.i = Top.i /\ f.dir # Nil
            /\ g.client = At /\ g.i = StartIndex(At) /\ g.i = Top.i - 1 /\ g.dir = Nil
<1> DEFINE n == Len(frames)
<1>1. /\ n \in Nat \ {0} /\ Top = frames[n] /\ Top \in AFrame /\ frames \in Seq(AFrame)
      /\ Top.i \in 1 .. Len(fsLayers) /\ At \in Layer /\ At \in Merging /\ At = fsLayers[Top.i]
  BY TopFacts DEF WInv, Typed, Nests, At
<1>2. PICK op \in Ops, arg \in AnyArg, d \in Handle : Nest(op, arg, d)
  BY DEF Nests
<1>3. PICK f : f = [Top EXCEPT !.dir = d]
  OBVIOUS
<1>4. PICK g : g = Call(At, op, arg)
  OBVIOUS
<1>5. frames' = Append([frames EXCEPT ![n] = f], g)
  BY <1>1, <1>2, <1>3, <1>4 DEF Nest
<1>6. f = [client |-> Top.client, op |-> Top.op, arg |-> Top.arg, i |-> Top.i,
           failed |-> Top.failed, dir |-> d] /\ f \in AFrame
  BY <1>1, <1>3 DEF AFrame
<1>7. StartIndex(At) = Top.i - 1 /\ StartIndex(At) \in Nat
  BY <1>1, ClientIndex DEF WInv
<1>8. g = [client |-> At, op |-> op, arg |-> arg, i |-> StartIndex(At), failed |-> FALSE, dir |-> Nil]
  BY <1>4 DEF Call
<1>9. g \in AFrame
  BY <1>1, <1>7, <1>8 DEF AFrame
<1>10. d # Nil
  BY NameAssumption DEF AnyHandle
<1> HIDE DEF n
<1>11. PICK s : s = [frames EXCEPT ![n] = f]
  OBVIOUS
<1>12. /\ s \in Seq(AFrame) /\ Len(s) = n /\ n = Len(frames)
       /\ \A j \in 1 .. n - 1 : s[j] = frames[j]
       /\ s[n] = f
  BY <1>1, <1>6, <1>11 DEF n
<1>13. /\ frames' \in Seq(AFrame) /\ Len(frames') = n + 1
       /\ \A j \in 1 .. n : frames'[j] = s[j]
       /\ frames'[n + 1] = g
  <2>1. frames' = Append(s, g) /\ s \in Seq(AFrame) /\ Len(s) = n /\ n \in Nat
    BY <1>1, <1>5, <1>11, <1>12
  <2> QED
    BY <1>9, <2>1, AppendProperties
<1>14. /\ \A j \in 1 .. n - 1 : frames'[j] = frames[j]
       /\ frames'[n] = f
  BY <1>1, <1>12, <1>13
<1> QED
  BY <1>6, <1>7, <1>8, <1>10, <1>12, <1>13, <1>14

(* The stack after an answer, and the frame that the outermost call came with.  *)
LEMMA MovedStack ==
  ASSUME WInv, frames # <<>>, Steps \/ Returns \/ Nests, fsLayers' = fsLayers
  PROVE  /\ frames' \in Seq(AFrame) /\ ret' \in Answer \cup {Nil}
         /\ StackOK(frames')
         /\ frames' # <<>> => /\ frames'[1].client = frames[1].client
                              /\ frames'[1].op = frames[1].op
                              /\ frames'[1].arg = frames[1].arg
         /\ frames' = <<>> => /\ ret' \in Answer
                              /\ ret'.call.op = frames[1].op /\ ret'.call.arg = frames[1].arg
         /\ frames' # <<>> /\ Top'.dir # Nil => ret' \in Answer
<1> DEFINE n == Len(frames)
<1>1. /\ n \in Nat \ {0} /\ Top = frames[n] /\ Top \in AFrame /\ frames \in Seq(AFrame)
      /\ ret \in Answer \cup {Nil} /\ StackOK(frames)
      /\ \A j \in 1 .. n - 1 : frames[j] \in AFrame
      /\ Below \in Seq(AFrame) /\ Len(Below) = n - 1 /\ \A j \in 1 .. n - 1 : Below[j] = frames[j]
      /\ Top.i \in Nat /\ Top.i <= StartIndex(Top.client)
      /\ Top.dir # Nil => ret \in Answer
  BY TopFacts DEF WInv, Typed, FramesOK, AFrame
<1>2. StartIndex(Top.client) \in Nat /\ LayersOK
  BY ClientIndex DEF WInv, LayersOK
<1> HIDE DEF n
<1>3. CASE Steps
  <2>1. /\ frames' \in Seq(AFrame) /\ Len(frames') = n
        /\ \A j \in 1 .. n - 1 : frames'[j] = frames[j]
        /\ frames'[n].client = Top.client /\ frames'[n].op = Top.op /\ frames'[n].arg = Top.arg
        /\ frames'[n].i = Top.i - 1 /\ frames'[n].dir = Nil /\ ret' = ret
    BY <1>3, StepsFacts DEF n, Steps
  <2>2. ASSUME NEW k \in 1 .. n
        PROVE  /\ frames'[k].i <= StartIndex(frames'[k].client)
               /\ frames'[k].dir # Nil => frames'[k].i > 0 /\ fsLayers[frames'[k].i] \in Merging
               /\ k > 1 => /\ frames'[k - 1].dir # Nil
                           /\ frames'[k].client = fsLayers[frames'[k - 1].i]
                           /\ frames'[k].i < frames'[k - 1].i
    <3>1. /\ frames[k].i <= StartIndex(frames[k].client)
          /\ frames[k].dir # Nil => frames[k].i > 0 /\ fsLayers[frames[k].i] \in Merging
          /\ k > 1 => /\ frames[k - 1].dir # Nil
                      /\ frames[k].client = fsLayers[frames[k - 1].i]
                      /\ frames[k].i < frames[k - 1].i
      BY <1>1, <2>2 DEF StackOK, n
    <3>2. k > 1 => k - 1 \in 1 .. n - 1 /\ frames[k - 1].i \in Nat
      <4> SUFFICES ASSUME k > 1 PROVE k - 1 \in 1 .. n - 1 /\ frames[k - 1].i \in Nat
        OBVIOUS
      <4>1. k - 1 \in 1 .. n - 1
        BY <1>1
      <4> QED
        BY <1>1, <4>1 DEF AFrame
    <3>3. CASE k < n
      BY <1>1, <2>1, <3>1, <3>2, <3>3
    <3>4. CASE k = n
      BY <1>1, <1>2, <2>1, <3>1, <3>2, <3>4
    <3> QED
      BY <1>1, <3>3, <3>4
  <2>3. StackOK(frames')
    BY <2>1, <2>2 DEF StackOK
  <2>4. frames'[1].client = frames[1].client /\ frames'[1].op = frames[1].op /\ frames'[1].arg = frames[1].arg
    <3>1. CASE n = 1
      BY <1>1, <2>1, <3>1
    <3>2. CASE n > 1
      BY <1>1, <2>1, <3>2
    <3> QED
      BY <1>1, <3>1, <3>2
  <2>5. Top'.dir = Nil /\ frames' # <<>>
    BY <1>1, <2>1 DEF Top
  <2> QED
    BY <1>1, <2>1, <2>3, <2>4, <2>5
<1>4. CASE Returns
  <2>1. /\ frames' = Below /\ ret' \in Answer /\ ret'.call.op = Top.op /\ ret'.call.arg = Top.arg
        /\ Len(frames') = n - 1 /\ \A j \in 1 .. n - 1 : frames'[j] = frames[j]
    BY <1>1, <1>4 DEF Returns
  <2>2. StackOK(frames')
    <3> SUFFICES ASSUME NEW k \in 1 .. n - 1
                 PROVE  /\ frames'[k].i <= StartIndex(frames'[k].client)
                        /\ frames'[k].dir # Nil => frames'[k].i > 0 /\ fsLayers[frames'[k].i] \in Merging
                        /\ k > 1 => /\ frames'[k - 1].dir # Nil
                                    /\ frames'[k].client = fsLayers[frames'[k - 1].i]
                                    /\ frames'[k].i < frames'[k - 1].i
      BY <2>1 DEF StackOK
    <3>1. k \in 1 .. n /\ (k > 1 => k - 1 \in 1 .. n - 1)
      BY <1>1
    <3>2. /\ frames[k].i <= StartIndex(frames[k].client)
          /\ frames[k].dir # Nil => frames[k].i > 0 /\ fsLayers[frames[k].i] \in Merging
          /\ k > 1 => /\ frames[k - 1].dir # Nil
                      /\ frames[k].client = fsLayers[frames[k - 1].i]
                      /\ frames[k].i < frames[k - 1].i
      BY <1>1, <3>1 DEF StackOK, n
    <3> QED
      BY <2>1, <3>1, <3>2
  <2>3. frames' = <<>> => n = 1
    BY <1>1, <2>1
  <2>4. frames' # <<>> => n > 1
    BY <1>1, <2>1
  <2>5. frames' # <<>> => /\ frames'[1].client = frames[1].client /\ frames'[1].op = frames[1].op
                          /\ frames'[1].arg = frames[1].arg
    BY <1>1, <2>1, <2>4
  <2> QED
    BY <1>1, <2>1, <2>2, <2>3, <2>5
<1>5. CASE Nests
  <2>1. /\ frames' \in Seq(AFrame) /\ Len(frames') = n + 1
        /\ \A j \in 1 .. n - 1 : frames'[j] = frames[j]
        /\ frames'[n].client = Top.client /\ frames'[n].op = Top.op /\ frames'[n].arg = Top.arg
        /\ frames'[n].i = Top.i /\ frames'[n].dir # Nil
        /\ frames'[n + 1].client = At /\ frames'[n + 1].i = StartIndex(At)
        /\ frames'[n + 1].i = Top.i - 1 /\ frames'[n + 1].dir = Nil
        /\ ret' = ret /\ Top.i > 0 /\ At \in Merging /\ At = fsLayers[Top.i]
    BY <1>5, NestsFacts DEF n, Nests, At
  <2>2. ASSUME NEW k \in 1 .. n + 1
        PROVE  /\ frames'[k].i <= StartIndex(frames'[k].client)
               /\ frames'[k].dir # Nil => frames'[k].i > 0 /\ fsLayers[frames'[k].i] \in Merging
               /\ k > 1 => /\ frames'[k - 1].dir # Nil
                           /\ frames'[k].client = fsLayers[frames'[k - 1].i]
                           /\ frames'[k].i < frames'[k - 1].i
    <3>1. CASE k = n + 1
      <4>1. k - 1 = n
        BY <1>1, <3>1
      <4>2. StartIndex(At) \in Nat
        BY <1>2, ClientIndex DEF LayersOK
      <4>3. frames'[k] = frames'[n + 1] /\ frames'[k - 1] = frames'[n]
        BY <3>1, <4>1
      <4>4. frames'[k].i <= StartIndex(frames'[k].client)
        <5>1. PICK c : c = frames'[k].client
          OBVIOUS
        <5>2. c = At /\ frames'[k].i = StartIndex(At)
          BY <2>1, <4>3, <5>1
        <5>3. StartIndex(c) = StartIndex(At)
          BY <5>2
        <5>4. frames'[k].i <= StartIndex(c)
          BY <4>2, <5>2, <5>3
        <5> QED
          BY <5>1, <5>4
      <4>5. frames'[k].dir = Nil
        BY <2>1, <4>3
      <4>6. /\ frames'[k - 1].dir # Nil /\ frames'[k].client = fsLayers[frames'[k - 1].i]
            /\ frames'[k].i < frames'[k - 1].i
        BY <1>1, <2>1, <4>3
      <4> QED
        BY <4>4, <4>5, <4>6
    <3>2. CASE k \in 1 .. n
      <4>1. /\ frames[k].i <= StartIndex(frames[k].client)
            /\ frames[k].dir # Nil => frames[k].i > 0 /\ fsLayers[frames[k].i] \in Merging
            /\ k > 1 => /\ frames[k - 1].dir # Nil
                        /\ frames[k].client = fsLayers[frames[k - 1].i]
                        /\ frames[k].i < frames[k - 1].i
        BY <1>1, <3>2 DEF StackOK, n
      <4>2. k > 1 => k - 1 \in 1 .. n - 1
        BY <1>1, <3>2
      <4>3. CASE k < n
        BY <1>1, <2>1, <4>1, <4>2, <4>3
      <4>4. CASE k = n
        BY <1>1, <2>1, <4>1, <4>2, <4>4
      <4> QED
        BY <1>1, <3>2, <4>3, <4>4
    <3> QED
      BY <1>1, <3>1, <3>2
  <2>3. StackOK(frames')
    BY <2>1, <2>2 DEF StackOK
  <2>4. frames'[1].client = frames[1].client /\ frames'[1].op = frames[1].op /\ frames'[1].arg = frames[1].arg
    <3>1. CASE n = 1
      BY <1>1, <2>1, <3>1
    <3>2. CASE n > 1
      BY <1>1, <2>1, <3>2
    <3> QED
      BY <1>1, <3>1, <3>2
  <2>5. Top'.dir = Nil /\ frames' # <<>>
    BY <1>1, <2>1 DEF Top
  <2> QED
    BY <1>1, <2>1, <2>3, <2>4, <2>5
<1> QED
  BY <1>3, <1>4, <1>5

(* The layers do not change while a walk lasts.                                 *)
LEMMA LayersStay ==
  ASSUME fsLayers' = fsLayers
  PROVE  /\ \A c : StartIndex(c)' = StartIndex(c)
         /\ \A s : StackOK(s) => StackOK(s)'
         /\ \A f : Waiting(f) => Waiting(f)'
         /\ \A c, f : MadeFor(c, f) => MadeFor(c, f)'
<1>1. \A c : StartIndex(c)' = StartIndex(c)
  BY DEF StartIndex
<1>2. ASSUME NEW s, StackOK(s) PROVE StackOK(s)'
  <2> SUFFICES ASSUME NEW k \in 1 .. Len(s)
               PROVE  (/\ s[k].i <= StartIndex(s[k].client)
                       /\ s[k].dir # Nil => s[k].i > 0 /\ fsLayers[s[k].i] \in Merging
                       /\ k > 1 => /\ s[k - 1].dir # Nil
                                   /\ s[k].client = fsLayers[s[k - 1].i] /\ s[k].i < s[k - 1].i)'
    BY DEF StackOK
  <2>1. StartIndex(s[k].client)' = StartIndex(s[k].client)
    BY <1>1
  <2> QED
    BY <1>2, <2>1 DEF StackOK
<1>3. \A f : Waiting(f) => Waiting(f)'
  BY DEF Waiting
<1>4. \A c, f : MadeFor(c, f) => MadeFor(c, f)'
  BY DEF MadeFor
<1> QED
  BY <1>1, <1>2, <1>3, <1>4

(* What waits is not touched by a step of the walk inside.                       *)
LEMMA OuterStays ==
  ASSUME OuterOK, outer' = outer, fsLayers' = fsLayers
  PROVE  OuterOK'
<1> SUFFICES ASSUME NEW k \in 1 .. Len(outer)
             PROVE  (LET s == outer[k].frames IN
                     /\ s # <<>> /\ StackOK(s) /\ s[1].client = Base(k - 1) /\ Waiting(s[Len(s)]))'
  BY DEF OuterOK
<1> DEFINE s == outer[k].frames
<1>1. s # <<>> /\ StackOK(s) /\ s[1].client = Base(k - 1) /\ Waiting(s[Len(s)])
  BY DEF OuterOK
<1>2. StackOK(s)' /\ Waiting(s[Len(s)])'
  <2>1. PICK t : t = s
    OBVIOUS
  <2>2. StackOK(t)' /\ Waiting(t[Len(t)])'
    BY <1>1, <2>1, LayersStay
  <2> QED
    BY <2>1, <2>2
<1> QED
  BY <1>1, <1>2 DEF Base

LEMMA AnswerKeeps ==
  ASSUME WInv, Answering
  PROVE  WInv'
<1>1. /\ frames # <<>> /\ (Steps \/ Returns \/ Nests) /\ Tables'
      /\ UNCHANGED <<fsLayers, outer>> /\ opened' = Nil
      /\ fd' \in [Handle -> AnyHandle \cup {Fd, Nil}]
  BY AnswerMoves DEF Makes
<1>2. LayersOK' /\ OuterOK'
  BY <1>1, OuterStays DEF WInv, LayersOK
<1>3. Owned' /\ Typed'
  BY <1>1, MovedStack DEF Tables, Typed, WInv
<1>4. FramesOK'
  <2>1. StackOK(frames)'
    BY <1>1, MovedStack DEF StackOK, StartIndex
  <2>2. frames' # <<>> => frames'[1].client = Base(Len(outer))'
    BY <1>1, MovedStack DEF WInv, FramesOK
  <2> QED
    BY <1>1, <2>1, <2>2, MovedStack DEF FramesOK
<1>5. LinksOK'
  <2> SUFFICES ASSUME NEW k \in 1 .. Len(outer) PROVE MadeFor(outer[k], CallOf(k))'
    BY <1>1 DEF LinksOK
  <2>1. MadeFor(outer[k], CallOf(k))
    BY DEF WInv, LinksOK
  <2>2. CallOf(k)'.op = CallOf(k).op /\ CallOf(k)'.arg = CallOf(k).arg
    BY <1>1, MovedStack DEF CallOf
  <2> QED
    BY <1>1, <2>1, <2>2 DEF MadeFor
<1> QED
  BY <1>2, <1>3, <1>4, <1>5 DEF WInv

-----------------------------------------------------------------------------
(* The invariant is kept: calls and their return.                             *)

LEMMA CallKeeps ==
  ASSUME WInv, frames # <<>>, Waiting(Top),
         NEW why \in {"mark", "storage", "undo"}, NEW op \in Ops, NEW arg \in AnyArg,
         MadeFor([frames |-> frames, ret |-> ret, why |-> why], Call(Posix, op, arg)),
         PosixCall(why, op, arg)
  PROVE  WInv'
<1> DEFINE c == [frames |-> frames, ret |-> ret, why |-> why]
           f == Call(Posix, op, arg)
           m == Len(outer)
<1>1. /\ outer' = Append(outer, c) /\ frames' = <<f>> /\ ret' = Nil
      /\ UNCHANGED <<fsLayers, owner, parent, fd>> /\ opened' = Nil
  BY DEF PosixCall, tables
<1>2. c \in Call1
  BY DEF WInv, Typed, Call1
<1>3. StartIndex(Posix) \in Nat
  BY ClientIndex DEF WInv, LayersOK
<1>4. /\ f = [client |-> Posix, op |-> op, arg |-> arg, i |-> StartIndex(Posix),
             failed |-> FALSE, dir |-> Nil]
      /\ f \in AFrame
  BY <1>3 DEF Call, AFrame
<1>5. outer \in Seq(Call1) /\ m \in Nat
  BY DEF WInv, Typed
<1>6. MadeFor(c, f)
  OBVIOUS
<1> HIDE DEF c, f, m
<1>7. /\ outer' \in Seq(Call1) /\ Len(outer') = m + 1 /\ outer'[m + 1] = c
      /\ \A k \in 1 .. m : outer'[k] = outer[k]
  BY <1>1, <1>2, <1>5, AppendProperties DEF m
<1>8. LayersOK' /\ Owned'
  BY <1>1 DEF WInv, LayersOK, Owned
<1>9. Typed'
  BY <1>1, <1>4, <1>7 DEF WInv, Typed
<1>10. FramesOK'
  <2>1. StackOK(frames)'
    <3>1. StartIndex(Posix)' = StartIndex(Posix)
      BY <1>1, LayersStay
    <3>2. PICK g : g = f
      OBVIOUS
    <3>3. frames' = <<g>> /\ g.i = StartIndex(Posix) /\ g.client = Posix /\ g.dir = Nil
      BY <1>1, <1>4, <3>2
    <3>4. \A k \in 1 .. Len(frames') : k = 1
      BY <3>3
    <3>5. (frames[1].i <= StartIndex(frames[1].client))' /\ frames'[1].dir = Nil
      BY <1>3, <3>1, <3>3
    <3> QED
      BY <3>4, <3>5 DEF StackOK
  <2>2. frames'[1].client = Base(Len(outer))'
    BY <1>1, <1>4, <1>5, <1>7 DEF Base
  <2>3. frames' # <<>> /\ Top'.dir = Nil
    BY <1>1, <1>4 DEF Top
  <2> QED
    BY <2>1, <2>2, <2>3 DEF FramesOK
<1>11. OuterOK'
  <2> SUFFICES ASSUME NEW k \in 1 .. m + 1
               PROVE  (LET s == outer[k].frames IN
                       /\ s # <<>> /\ StackOK(s) /\ s[1].client = Base(k - 1) /\ Waiting(s[Len(s)]))'
    BY <1>7 DEF OuterOK
  <2>1. PICK s : s = outer'[k].frames
    OBVIOUS
  <2>2. s # <<>> /\ StackOK(s) /\ s[1].client = Base(k - 1) /\ Waiting(s[Len(s)])
    <3>1. CASE k \in 1 .. m
      BY <1>7, <2>1, <3>1 DEF WInv, OuterOK, m
    <3>2. CASE k = m + 1
      <4>1. s = frames /\ k - 1 = m
        BY <1>5, <1>7, <2>1, <3>2 DEF c
      <4> QED
        BY <4>1 DEF WInv, FramesOK, m, Top
    <3> QED
      BY <1>5, <3>1, <3>2
  <2>3. StackOK(s)' /\ Waiting(s[Len(s)])'
    BY <1>1, <2>2, LayersStay
  <2> QED
    BY <2>1, <2>2, <2>3 DEF Base
<1>12. LinksOK'
  <2> SUFFICES ASSUME NEW k \in 1 .. m + 1 PROVE MadeFor(outer[k], CallOf(k))'
    BY <1>7 DEF LinksOK
  <2>1. CASE k < m
    <3>1. k \in 1 .. m /\ k + 1 \in 1 .. m
      BY <1>5, <2>1
    <3>2. MadeFor(outer[k], CallOf(k)) /\ CallOf(k) = outer[k + 1].frames[1]
      BY <2>1, <3>1 DEF WInv, LinksOK, m, CallOf
    <3>3. CallOf(k)' = outer[k + 1].frames[1] /\ outer'[k] = outer[k]
      BY <1>5, <1>7, <2>1, <3>1 DEF CallOf
    <3> QED
      BY <1>1, <3>2, <3>3 DEF MadeFor
  <2>2. CASE k = m
    <3>1. k \in 1 .. m /\ k < m + 1 /\ ~(k < m)
      BY <1>5, <2>2
    <3>2. MadeFor(outer[k], CallOf(k)) /\ CallOf(k) = frames[1]
      BY <3>1 DEF WInv, LinksOK, m, CallOf
    <3>3. CallOf(k)' = frames[1] /\ outer'[k] = outer[k]
      BY <1>7, <2>2, <3>1 DEF CallOf, c
    <3> QED
      BY <1>1, <3>2, <3>3 DEF MadeFor
  <2>3. CASE k = m + 1
    <3>1. ~(k < m + 1) /\ frames' # <<>> /\ frames'[1] = f
      BY <1>1, <1>5, <2>3
    <3>2. CallOf(k)' = f /\ outer'[k] = c
      BY <1>7, <2>3, <3>1 DEF CallOf
    <3> QED
      BY <1>1, <1>6, <3>2 DEF MadeFor
  <2> QED
    BY <1>5, <2>1, <2>2, <2>3
<1> QED
  BY <1>8, <1>9, <1>10, <1>11, <1>12 DEF WInv

(* A layer that is asked waits for what it has been asked.                       *)
LEMMA AskedWaits ==
  ASSUME WInv, NEW op, Asked(op)
  PROVE  /\ frames # <<>> /\ Waiting(Top) /\ At \in Layer /\ Top = frames[Len(frames)]
         /\ At = fsLayers[Top.i] /\ Top.op = op
         /\ Top.op \in PathOps => Top.arg \in Covers[At] /\ Top.arg \in Path
         /\ Top.op \notin PathOps => Top.arg \in Handle
<1>1. /\ frames # <<>> /\ Top.i > 0 /\ Top.dir = Nil /\ Top.op = op /\ Concerned(At, Top)
      /\ At \in Layer /\ Top = frames[Len(frames)]
  BY TopFacts DEF Asked, Asking, Locked
<1>2. Top.op \in PathOps => Top.arg \in Covers[At] /\ Top.arg \in Path
  BY <1>1, LayerAssumption DEF Concerned
<1>3. Top.op \notin PathOps => Top.arg \in Handle
  <2> SUFFICES ASSUME Top.op \notin PathOps PROVE Top.arg \in Handle
    OBVIOUS
  <2>1. Top.arg \in AnyHandle /\ owner[Top.arg] = At
    BY <1>1 DEF Concerned
  <2> QED
    BY <1>1, <2>1, NameAssumption DEF WInv, Owned, AnyHandle
<1> QED
  BY <1>1, <1>2, <1>3 DEF Waiting, At

LEMMA PlacesArePaths ==
  \A l \in Layer : \A p \in Path : Place[l][p] \in Path /\ MarkOfCopy(l, p) \in Path
BY PlaceAssumption DEF MarkOfCopy

LEMMA AskKeeps ==
  ASSUME WInv, AskMark \/ AskStorage \/ CloseAgain
  PROVE  WInv'
<1> DEFINE c(why) == [frames |-> frames, ret |-> ret, why |-> why]
<1>1. CASE AskMark
  <2>1. PICK op \in {"openFile", "stat"} : Asked(op)
    BY <1>1 DEF AskMark
  <2>2. /\ op \in PathOps /\ "stat" \in Ops /\ "mark" \in {"mark", "storage", "undo"}
        /\ MarkOfCopy(At, Top.arg) \in AnyArg
    BY <2>1, AskedWaits, PlacesArePaths DEF PathOps, Ops, AnyArg
  <2>3. MadeFor(c("mark"), Call(Posix, "stat", MarkOfCopy(At, Top.arg)))
    BY <1>1, <2>1, <2>2, AskedWaits DEF MadeFor, Call, AskMark, ChecksMark
  <2>4. PosixCall("mark", "stat", MarkOfCopy(At, Top.arg))
    BY <1>1 DEF AskMark
  <2> QED
    BY <2>1, <2>2, <2>3, <2>4, AskedWaits, CallKeeps
<1>2. CASE AskStorage
  <2>1. PICK op \in Ops : Asked(op)
    BY <1>2 DEF AskStorage
  <2>2. PICK arg : arg = IF Top.op \in PathOps THEN Place[At][Top.arg] ELSE fd[Top.arg]
    OBVIOUS
  <2>3. Top.op \in Ops /\ "storage" \in {"mark", "storage", "undo"} /\ arg \in AnyArg
    BY <2>1, <2>2, AskedWaits, PlacesArePaths DEF WInv, Typed, AnyArg
  <2>4. MadeFor(c("storage"), Call(Posix, Top.op, arg))
    BY <2>1, <2>2, AskedWaits DEF MadeFor, Call
  <2>5. PosixCall("storage", Top.op, arg)
    BY <1>2, <2>2 DEF AskStorage
  <2> QED
    BY <2>1, <2>3, <2>4, <2>5, AskedWaits, CallKeeps
<1>3. CASE CloseAgain
  <2>1. Asked("openFile") /\ PosixCall("undo", "closeFile", opened)
    BY <1>3 DEF CloseAgain
  <2>2. "closeFile" \in Ops /\ "undo" \in {"mark", "storage", "undo"} /\ opened \in AnyArg
    BY DEF Ops, WInv, Typed, AnyArg
  <2>3. MadeFor(c("undo"), Call(Posix, "closeFile", opened))
    BY DEF MadeFor, Call
  <2> QED
    BY <2>1, <2>2, <2>3, AskedWaits, CallKeeps
<1> QED
  BY <1>1, <1>2, <1>3

LEMMA ReturnKeeps ==
  ASSUME WInv, PosixReturn
  PROVE  WInv'
<1> DEFINE m == Len(outer)
<1>1. outer \in Seq(Call1) /\ outer # <<>> /\ frames = <<>> /\ ret \in Answer
  BY DEF WInv, Typed, PosixReturn, FramesOK
<1>2. PICK c : c = outer[m]
  OBVIOUS
<1>3. PICK r : r = SubSeq(outer, 1, m - 1)
  OBVIOUS
<1>4. /\ m \in Nat \ {0} /\ c \in Call1 /\ Last(outer) = c /\ Front(outer) = r
      /\ r \in Seq(Call1) /\ Len(r) = m - 1 /\ \A j \in 1 .. m - 1 : r[j] = outer[j]
  BY <1>1, <1>2, <1>3, FrontFacts
<1>5. /\ frames' = c.frames /\ ret' = c.ret /\ outer' = r /\ opened' = ret.h
      /\ UNCHANGED <<fsLayers, owner, parent, fd>>
  BY <1>4 DEF PosixReturn, tables
<1> HIDE DEF m
<1>6. /\ c.frames # <<>> /\ StackOK(c.frames) /\ c.frames[1].client = Base(m - 1)
      /\ Waiting(c.frames[Len(c.frames)])
  BY <1>2, <1>4 DEF WInv, OuterOK, m
<1>7. LayersOK' /\ Owned'
  BY <1>5 DEF WInv, LayersOK, Owned
<1>8. Typed'
  BY <1>1, <1>4, <1>5 DEF WInv, Typed, Call1, Answer
<1>9. FramesOK'
  <2>1. StackOK(frames)'
    <3>1. StackOK(c.frames)'
      <4>1. PICK s : s = c.frames
        OBVIOUS
      <4> QED
        BY <1>5, <1>6, <4>1, LayersStay
    <3>2. \A k : frames'[k] = c.frames[k]
      BY <1>5
    <3> QED
      BY <1>5, <3>1, <3>2 DEF StackOK
  <2>2. frames' # <<>> /\ frames'[1].client = Base(Len(outer))'
    BY <1>4, <1>5, <1>6 DEF Base
  <2>3. Top'.dir = Nil
    BY <1>5, <1>6 DEF Top, Waiting
  <2> QED
    BY <2>1, <2>2, <2>3 DEF FramesOK
<1>10. OuterOK'
  <2> SUFFICES ASSUME NEW k \in 1 .. m - 1
               PROVE  (LET s == outer[k].frames IN
                       /\ s # <<>> /\ StackOK(s) /\ s[1].client = Base(k - 1) /\ Waiting(s[Len(s)]))'
    BY <1>4, <1>5 DEF OuterOK
  <2>1. PICK s : s = outer'[k].frames
    OBVIOUS
  <2>2. k \in 1 .. m /\ s = outer[k].frames
    BY <1>4, <1>5, <2>1
  <2>3. s # <<>> /\ StackOK(s) /\ s[1].client = Base(k - 1) /\ Waiting(s[Len(s)])
    BY <2>2 DEF WInv, OuterOK, m
  <2>4. StackOK(s)' /\ Waiting(s[Len(s)])'
    BY <1>5, <2>3, LayersStay
  <2> QED
    BY <2>1, <2>3, <2>4 DEF Base
<1>11. LinksOK'
  <2> SUFFICES ASSUME NEW k \in 1 .. m - 1 PROVE MadeFor(outer[k], CallOf(k))'
    BY <1>4, <1>5 DEF LinksOK
  <2>1. k \in 1 .. m /\ k < m /\ outer'[k] = outer[k]
    BY <1>4, <1>5
  <2>2. MadeFor(outer[k], CallOf(k)) /\ CallOf(k) = outer[k + 1].frames[1]
    BY <2>1 DEF WInv, LinksOK, m, CallOf
  <2>3. CallOf(k)' = outer[k + 1].frames[1]
    <3>1. CASE k < m - 1
      <4>1. k + 1 \in 1 .. m - 1
        BY <1>4, <3>1
      <4>2. outer'[k + 1] = outer[k + 1]
        BY <1>4, <1>5, <4>1
      <4> QED
        BY <1>4, <1>5, <3>1, <4>2 DEF CallOf
    <3>2. CASE k = m - 1
      <4>1. k + 1 = m /\ ~(k < m - 1)
        BY <1>4, <3>2
      <4> QED
        BY <1>2, <1>4, <1>5, <1>6, <4>1 DEF CallOf, m
    <3> QED
      BY <1>4, <3>1, <3>2
  <2> QED
    BY <1>5, <2>1, <2>2, <2>3 DEF MadeFor
<1> QED
  BY <1>7, <1>8, <1>9, <1>10, <1>11 DEF WInv

-----------------------------------------------------------------------------
(* The invariant is kept: between two walks.                                   *)

(* No walk, and nothing that waits.                                           *)
LEMMA NoWalk ==
  ASSUME outer = <<>>, frames = <<>>
  PROVE  FramesOK /\ OuterOK /\ LinksOK
BY DEF FramesOK, StackOK, OuterOK, LinksOK

LEMMA KeptFds ==
  ASSUME WInv, KeepFds
  PROVE  fd' \in [Handle -> AnyHandle \cup {Fd, Nil}]
BY DEF WInv, Typed, KeepFds

LEMMA EnterKeeps ==
  ASSUME WInv, ~Busy, NEW op \in Ops, NEW arg \in AppPath \cup AnyHandle, Enter(op, arg),
         KeepFds, UNCHANGED <<outer, told, opened>>
  PROVE  WInv'
<1>1. /\ outer = <<>> /\ outer' = <<>> /\ opened' = opened /\ ret' = Nil
      /\ frames' = <<Call(Client, op, arg)>> /\ UNCHANGED <<fsLayers, owner, parent>>
  BY DEF Busy, Enter, tables
<1>2. StartIndex(Client) \in Nat /\ arg \in AnyArg
  BY ClientIndex, PlaceAssumption DEF WInv, LayersOK, AnyArg
<1>3. PICK f : f = Call(Client, op, arg)
  OBVIOUS
<1>4. /\ f = [client |-> Client, op |-> op, arg |-> arg, i |-> StartIndex(Client),
             failed |-> FALSE, dir |-> Nil]
      /\ f \in AFrame /\ frames' = <<f>>
  BY <1>1, <1>2, <1>3 DEF Call, AFrame
<1>5. LayersOK' /\ Owned'
  BY <1>1 DEF WInv, LayersOK, Owned
<1>6. Typed'
  <2>1. frames' \in Seq(AFrame) /\ ret' \in Answer \cup {Nil} /\ outer' \in Seq(Call1)
    <3>1. <<f>> \in Seq(AFrame) /\ <<>> \in Seq(Call1)
      BY <1>4
    <3> QED
      BY <1>1, <1>4, <3>1
  <2>2. fd' \in [Handle -> AnyHandle \cup {Fd, Nil}]
    BY KeptFds
  <2> QED
    BY <1>1, <2>1, <2>2 DEF WInv, Typed
<1>7. FramesOK'
  <2>1. StartIndex(Client)' = StartIndex(Client)
    BY <1>1, LayersStay
  <2>2. \A k \in 1 .. Len(frames') : k = 1
    BY <1>4
  <2>3. (frames[1].i <= StartIndex(frames[1].client))' /\ frames'[1].dir = Nil
    BY <1>2, <1>4, <2>1
  <2>4. StackOK(frames)'
    BY <2>2, <2>3 DEF StackOK
  <2>5. frames'[1].client = Base(Len(outer))' /\ frames' # <<>> /\ Top'.dir = Nil
    BY <1>1, <1>4 DEF Base, Top
  <2> QED
    BY <2>4, <2>5 DEF FramesOK
<1>8. OuterOK' /\ LinksOK'
  BY <1>1 DEF OuterOK, LinksOK
<1> QED
  BY <1>5, <1>6, <1>7, <1>8 DEF WInv

(* A layer is put on top, taken out or switched.                               *)
LEMMA PluginLayers ==
  ASSUME WInv, Plugin
  PROVE  LayersOK' /\ Owned' /\ parent' \in [Handle -> AnyHandle \cup {Fd, Nil}]
         /\ frames' = frames /\ ret' = ret
<1>1. /\ fsLayers \in Seq(Layer) /\ Len(fsLayers) \in Nat
      /\ \A i, j \in 1 .. Len(fsLayers) : fsLayers[i] = fsLayers[j] => i = j
      /\ parent \in [Handle -> AnyHandle \cup {Fd, Nil}] /\ Owned
  BY DEF WInv, LayersOK, Typed
<1>2. ASSUME NEW l \in Layer, AddLayer(l)
      PROVE  LayersOK' /\ UNCHANGED <<owner, parent, frames, ret>>
  <2>1. /\ fsLayers' = Append(fsLayers, l) /\ \A k \in 1 .. Len(fsLayers) : fsLayers[k] # l
        /\ UNCHANGED <<owner, parent, frames, ret>>
    BY <1>2 DEF AddLayer, InStack, tables
  <2>2. /\ fsLayers' \in Seq(Layer) /\ Len(fsLayers') = Len(fsLayers) + 1
        /\ fsLayers'[Len(fsLayers) + 1] = l
        /\ \A k \in 1 .. Len(fsLayers) : fsLayers'[k] = fsLayers[k]
    BY <1>1, <2>1, AppendProperties
  <2> QED
    BY <1>1, <2>1, <2>2 DEF LayersOK
<1>3. ASSUME NEW l \in Layer, RemoveFSLayer(l)
      PROVE  /\ LayersOK' /\ Owned' /\ parent' \in [Handle -> AnyHandle \cup {Fd, Nil}]
             /\ UNCHANGED <<frames, ret>>
  <2>1. PICK k \in 1 .. Len(fsLayers) : fsLayers' = RemoveAt(fsLayers, k)
    BY <1>3 DEF RemoveFSLayer
  <2>2. /\ fsLayers' \in Seq(Layer) /\ Len(fsLayers') = Len(fsLayers) - 1
        /\ \A j \in 1 .. k - 1 : fsLayers'[j] = fsLayers[j]
        /\ \A j \in k + 1 .. Len(fsLayers) : fsLayers'[j - 1] = fsLayers[j]
    <3>1. RemoveAt(fsLayers, k) = LayersP!RemoveAt(fsLayers, k)
      BY DEF RemoveAt, LayersP!RemoveAt
    <3> QED
      BY <1>1, <2>1, <3>1, LayerAssumption, NameAssumption, LayersP!RemoveFacts
  <2>3. \A i \in 1 .. Len(fsLayers') : fsLayers'[i] = fsLayers[IF i < k THEN i ELSE i + 1]
    <3> SUFFICES ASSUME NEW i \in 1 .. Len(fsLayers')
                 PROVE  fsLayers'[i] = fsLayers[IF i < k THEN i ELSE i + 1]
      OBVIOUS
    <3>1. CASE i < k
      <4>1. i \in 1 .. k - 1
        BY <1>1, <2>2, <3>1
      <4> QED
        BY <2>2, <3>1, <4>1
    <3>2. CASE ~(i < k)
      <4>1. i + 1 \in k + 1 .. Len(fsLayers) /\ i + 1 - 1 = i
        BY <1>1, <2>2, <3>2
      <4>2. fsLayers'[i + 1 - 1] = fsLayers[i + 1]
        BY <2>2, <4>1
      <4> QED
        BY <3>2, <4>1, <4>2
    <3> QED
      BY <3>1, <3>2
  <2>4. LayersOK'
    <3> DEFINE up(i) == IF i < k THEN i ELSE i + 1
    <3>1. \A i \in 1 .. Len(fsLayers') : up(i) \in 1 .. Len(fsLayers) /\ fsLayers'[i] = fsLayers[up(i)]
      BY <1>1, <2>2, <2>3
    <3>2. \A i, j \in 1 .. Len(fsLayers') : up(i) = up(j) => i = j
      BY <1>1, <2>2
    <3> HIDE DEF up
    <3>3. \A i, j \in 1 .. Len(fsLayers') : fsLayers'[i] = fsLayers'[j] => i = j
      BY <1>1, <3>1, <3>2
    <3> QED
      BY <2>2, <3>3 DEF LayersOK
  <2>5. Owned' /\ parent' \in [Handle -> AnyHandle \cup {Fd, Nil}]
    BY <1>1, <1>3 DEF RemoveFSLayer, Forget, Owned, AnyHandle
  <2> QED
    BY <1>3, <2>4, <2>5 DEF RemoveFSLayer
<1>4. ASSUME NEW l \in Layer, SetActive(l)
      PROVE  LayersOK' /\ UNCHANGED <<owner, parent, frames, ret>>
  BY <1>1, <1>4 DEF SetActive, tables, LayersOK
<1>5. CASE ClearFSLayer
  <2>1. LayersOK'
    BY <1>5 DEF ClearFSLayer, LayersOK
  <2> QED
    BY <1>5, <2>1 DEF ClearFSLayer, Owned, AnyHandle
<1>6. UNCHANGED owner => Owned'
  BY <1>1 DEF Owned
<1> QED
  BY <1>1, <1>2, <1>3, <1>4, <1>5, <1>6 DEF Plugin

LEMMA BetweenKeeps ==
  ASSUME WInv, Between
  PROVE  WInv'
<1>1. ~Busy /\ KeepFds /\ UNCHANGED <<outer, told, opened>>
  BY DEF Between
<1>2. ASSUME Plugin PROVE WInv'
  <2>1. frames' = <<>> /\ outer' = <<>>
    BY <1>1, <1>2, PluginLayers DEF Busy
  <2>2. FramesOK' /\ OuterOK' /\ LinksOK'
    BY <2>1, NoWalk DEF FramesOK, StackOK, OuterOK, LinksOK
  <2>3. Typed'
    BY <1>1, <1>2, PluginLayers, KeptFds DEF WInv, Typed
  <2> QED
    BY <1>2, <2>2, <2>3, PluginLayers DEF WInv
<1> QED
  BY <1>1, <1>2, EnterKeeps DEF Between

LEMMA InitHolds == AllInit => WInv
<1> SUFFICES ASSUME AllInit PROVE WInv
  OBVIOUS
<1>1. /\ outer = <<>> /\ frames = <<>> /\ ret = Nil /\ fsLayers = <<>> /\ opened = Nil
      /\ fd = [h \in Handle |-> Nil] /\ parent = [h \in Handle |-> Nil]
      /\ owner = [h \in AnyHandle |-> Nil]
  BY DEF AllInit, Init
<1>2. LayersOK /\ Owned /\ Typed
  BY <1>1 DEF LayersOK, Owned, Typed, AnyHandle
<1> QED
  BY <1>1, <1>2, NoWalk DEF WInv

LEMMA StutterKeeps == WInv /\ UNCHANGED allVars => WInv'
<1> SUFFICES ASSUME WInv, UNCHANGED allVars PROVE WInv'
  OBVIOUS
<1>1. UNCHANGED <<fsLayers, owner, parent, frames, ret, outer, opened, fd>>
  BY DEF allVars, vars, posixVars, tables
<1>2. LayersOK' /\ Owned' /\ Typed' /\ OuterOK'
  BY <1>1, OuterStays DEF WInv, LayersOK, Owned, Typed
<1>3. FramesOK'
  <2>1. StackOK(frames)'
    <3>1. PICK s : s = frames
      OBVIOUS
    <3>2. StackOK(s)' /\ frames' = s
      BY <1>1, <3>1, LayersStay DEF WInv, FramesOK
    <3> QED
      BY <3>2 DEF StackOK
  <2> QED
    BY <1>1, <2>1 DEF WInv, FramesOK, Base, Top
<1>4. LinksOK'
  <2> SUFFICES ASSUME NEW k \in 1 .. Len(outer) PROVE MadeFor(outer[k], CallOf(k))'
    BY <1>1 DEF LinksOK
  <2>1. MadeFor(outer[k], CallOf(k)) /\ CallOf(k)' = CallOf(k)
    BY <1>1 DEF WInv, LinksOK, CallOf
  <2> QED
    BY <1>1, <2>1 DEF MadeFor
<1> QED
  BY <1>2, <1>3, <1>4 DEF WInv

LEMMA NextKeeps == WInv /\ AllNext => WInv'
BY AnswerKeeps, AskKeeps, ReturnKeeps, BetweenKeeps DEF AllNext, Calling

THEOREM WalksInvariance == AllSpec => []WInv
<1>1. WInv /\ [AllNext]_allVars => WInv'
  BY NextKeeps, StutterKeeps
<1> QED
  BY <1>1, InitHolds, PTL DEF AllSpec

-----------------------------------------------------------------------------
(* Every doForLayer inside another one has less to do.                          *)

(* One stack: each nested call starts below the layer that made it.             *)
LEMMA StackGoes ==
  ASSUME LayersOK, NEW s \in Seq(AFrame), StackOK(s),
         s # <<>> => s[1].client \in {Client, Posix}
  PROVE  Goes(s)
<1> SUFFICES ASSUME NEW k \in 1 .. Len(s)
             PROVE  /\ s[k].i <= Len(fsLayers)
                    /\ k < Len(s) => /\ s[k].dir # Nil
                                     /\ s[k].client # s[k + 1].client
                                     /\ s[k + 1].i < s[k].i
  BY DEF Goes
<1>1. /\ Len(s) \in Nat /\ Len(fsLayers) \in Nat /\ s # <<>>
      /\ \A j \in 1 .. Len(s) : s[j] \in AFrame /\ s[j].i \in Nat
  <2>1. Len(s) \in Nat /\ Len(fsLayers) \in Nat /\ \A j \in 1 .. Len(s) : s[j] \in AFrame
    BY DEF LayersOK
  <2>2. s # <<>>
    BY <2>1
  <2> QED
    BY <2>1, <2>2 DEF AFrame
<1>2. \A j \in 1 .. Len(s) : s[j].i <= Len(fsLayers)
  <2> SUFFICES ASSUME NEW j \in 1 .. Len(s) PROVE s[j].i <= Len(fsLayers)
    OBVIOUS
  <2>1. s[j].i <= StartIndex(s[j].client)
    BY DEF StackOK
  <2>2. StartIndex(s[j].client) \in 0 .. Len(fsLayers)
    BY ClientIndex
  <2> QED
    BY <1>1, <2>1, <2>2
<1>3. ASSUME k < Len(s)
      PROVE  s[k].dir # Nil /\ s[k].client # s[k + 1].client /\ s[k + 1].i < s[k].i
  <2>1. k + 1 \in 1 .. Len(s) /\ k + 1 > 1 /\ k + 1 - 1 = k
    BY <1>1, <1>3
  <2>2. s[k].dir # Nil /\ s[k + 1].client = fsLayers[s[k].i] /\ s[k + 1].i < s[k].i /\ s[k].i > 0
    BY <2>1 DEF StackOK
  <2>3. s[k].i \in 1 .. Len(fsLayers) /\ fsLayers[s[k].i] \in Layer
    BY <1>1, <1>2, <2>2 DEF LayersOK
  <2>4. s[k].client # fsLayers[s[k].i]
    <3>1. CASE k = 1
      BY <1>1, <2>3, <3>1, NameAssumption, PlaceAssumption
    <3>2. CASE k > 1
      <4>1. /\ k - 1 \in 1 .. Len(s) /\ s[k - 1].dir # Nil
            /\ s[k].client = fsLayers[s[k - 1].i] /\ s[k].i < s[k - 1].i
        BY <1>1, <3>2 DEF StackOK
      <4>2. s[k - 1].i \in 1 .. Len(fsLayers)
        BY <1>1, <1>2, <2>3, <4>1
      <4> QED
        BY <2>3, <4>1, <4>2 DEF LayersOK
    <3> QED
      BY <1>1, <3>1, <3>2
  <2> QED
    BY <2>2, <2>4
<1> QED
  BY <1>2, <1>3

(* The stack above the k-th POSIX call, and the call that it began with.         *)
LEMMA InnerFacts ==
  ASSUME WInv, NEW k \in 0 .. Len(outer)
  PROVE  /\ Inner(k) \in Seq(AFrame) /\ StackOK(Inner(k))
         /\ Inner(k) # <<>> => /\ Inner(k)[1].client = Base(k)
                               /\ k > 0 => CallOf(k) = Inner(k)[1]
<1>1. outer \in Seq(Call1) /\ Len(outer) \in Nat
  BY DEF WInv, Typed
<1>2. CASE k = Len(outer)
  <2>1. Inner(k) = frames /\ ~(k < Len(outer))
    BY <1>1, <1>2 DEF Inner
  <2> QED
    BY <1>2, <2>1 DEF WInv, Typed, FramesOK, CallOf
<1>3. CASE k # Len(outer)
  <2>1. k + 1 \in 1 .. Len(outer) /\ k + 1 - 1 = k /\ k < Len(outer)
    BY <1>1, <1>3
  <2>2. Inner(k) = outer[k + 1].frames /\ outer[k + 1] \in Call1
    BY <1>1, <1>3, <2>1 DEF Inner
  <2>3. StackOK(outer[k + 1].frames) /\ outer[k + 1].frames[1].client = Base(k + 1 - 1)
    BY <2>1 DEF WInv, OuterOK
  <2> QED
    BY <2>1, <2>2, <2>3 DEF CallOf, Call1
<1> QED
  BY <1>2, <1>3

(* Who waits for the k-th POSIX call.                                          *)
LEMMA CallerFacts ==
  ASSUME WInv, NEW k \in 1 .. Len(outer)
  PROVE  LET w == Last(outer[k].frames) IN
         /\ w = outer[k].frames[Len(outer[k].frames)] /\ Waiting(w)
         /\ w.i \in 1 .. Len(fsLayers) /\ fsLayers[w.i] \in Layer /\ w.op \in Ops /\ w \in AFrame
<1> DEFINE s == outer[k].frames
           w == s[Len(s)]
<1>1. s \in Seq(AFrame) /\ s # <<>> /\ StackOK(s) /\ Waiting(w)
  <2>1. outer[k] \in Call1
    BY DEF WInv, Typed
  <2>2. s # <<>> /\ StackOK(s) /\ Waiting(w)
    BY DEF WInv, OuterOK
  <2> QED
    BY <2>1, <2>2 DEF Call1
<1> HIDE DEF s
<1>2. w \in AFrame /\ Last(s) = w /\ Len(s) \in 1 .. Len(s)
  BY <1>1, FrontFacts
<1>3. w.i <= StartIndex(w.client) /\ w.i \in Nat /\ w.i > 0
  BY <1>1, <1>2 DEF StackOK, Waiting, AFrame
<1>4. StartIndex(w.client) \in 0 .. Len(fsLayers) /\ Len(fsLayers) \in Nat
  BY ClientIndex DEF WInv, LayersOK
<1>5. w.i \in 1 .. Len(fsLayers)
  BY <1>3, <1>4
<1>6. fsLayers[w.i] \in Layer /\ w.op \in Ops
  BY <1>2, <1>5 DEF WInv, LayersOK, AFrame
<1> QED
  BY <1>1, <1>2, <1>5, <1>6 DEF s

(* If no replacement directory leads back to a path that is replaced by way of    *)
(* it, a doForLayer inside another one has a lower index, when a layer has made   *)
(* the call with its client, or a path of lower rank, when it has made it through *)
(* the devoptab and the walk starts at the top again.                          *)
THEOREM AlwaysDescends == Grounded => (AllSpec => []Descends)
<1> SUFFICES ASSUME Grounded PROVE AllSpec => []Descends
  OBVIOUS
<1>1. ASSUME WInv PROVE Descends
  <2>1. ASSUME NEW k \in 0 .. Len(outer) PROVE Goes(Inner(k))
    BY <1>1, <2>1, InnerFacts, StackGoes DEF WInv, Base
  <2>2. ASSUME NEW k \in 1 .. Len(outer), Inner(k) # <<>>
        PROVE  /\ Inner(k)[1].client = Posix
               /\ Inner(k)[1].op \in PathOps =>
                    Rank[Inner(k)[1].arg] < Rank[Last(outer[k].frames).arg]
    <3>1. k \in 0 .. Len(outer) /\ k > 0 /\ k # 0
      BY DEF WInv, Typed
    <3>2. Inner(k)[1].client = Posix /\ CallOf(k) = Inner(k)[1]
      BY <1>1, <2>2, <3>1, InnerFacts DEF Base
    <3>3. PICK f, w, l : f = Inner(k)[1] /\ w = Last(outer[k].frames) /\ l = fsLayers[w.i]
      OBVIOUS
    <3>4. ASSUME f.op \in PathOps PROVE Rank[f.arg] < Rank[w.arg]
      <4>1. /\ MadeFor(outer[k], f) /\ outer[k].why \in {"mark", "storage", "undo"}
            /\ w = outer[k].frames[Len(outer[k].frames)] /\ Waiting(w) /\ l \in Layer
        <5>1. MadeFor(outer[k], f) /\ outer[k] \in Call1
          BY <1>1, <3>2, <3>3 DEF WInv, LinksOK, Typed
        <5>2. w = outer[k].frames[Len(outer[k].frames)] /\ Waiting(w) /\ l \in Layer
          BY <1>1, <3>3, CallerFacts
        <5> QED
          BY <5>1, <5>2 DEF Call1
      <4>2. CASE outer[k].why = "mark"
        BY <1>1, <3>3, <4>1, <4>2 DEF MadeFor, Waiting, Grounded
      <4>3. CASE outer[k].why = "storage"
        BY <1>1, <3>3, <3>4, <4>1, <4>3 DEF MadeFor, Waiting, Grounded
      <4>4. outer[k].why # "undo"
        BY <3>4, <4>1 DEF MadeFor, PathOps
      <4> QED
        BY <4>1, <4>2, <4>3, <4>4
    <3> QED
      BY <3>2, <3>3, <3>4
  <2> QED
    BY <2>1, <2>2 DEF Descends
<1>2. WInv => Descends
  BY <1>1
<1> QED
  BY <1>2, WalksInvariance, PTL

-----------------------------------------------------------------------------
(* When nothing waits, a step is the same step of LayerStack.                   *)

Same1 == Outermost = frames /\ OutermostRet = ret
Same2 == Outermost' = frames' /\ OutermostRet' = ret'

LEMMA SameSets ==
  /\ Layers!AnyHandle = AnyHandle /\ Layers!Ops = Ops /\ Layers!PathOps = PathOps
  /\ Layers!DirOps = DirOps /\ Layers!Opening = Opening /\ Layers!Closing = Closing
BY DEF AnyHandle, Layers!AnyHandle, Ops, Layers!Ops, PathOps, Layers!PathOps, DirOps,
       Layers!DirOps, Opening, Layers!Opening, Closing, Layers!Closing

LEMMA SameVars ==
  /\ Layers!files = files /\ Layers!tables = tables
  /\ UNCHANGED Layers!files <=> UNCHANGED files
  /\ UNCHANGED Layers!tables <=> UNCHANGED tables
BY DEF files, Layers!files, tables, Layers!tables

LEMMA SameStart == \A c : Layers!StartIndex(c) = StartIndex(c)
<1> SUFFICES ASSUME NEW c PROVE Layers!StartIndex(c) = StartIndex(c)
  OBVIOUS
<1>1. \A S : Layers!Max(S) = Max(S)
  BY DEF Max, Layers!Max
<1> QED
  BY <1>1 DEF StartIndex, Layers!StartIndex

LEMMA SameFrame ==
  ASSUME Same1
  PROVE  /\ Layers!Top = Top /\ Layers!Below = Below /\ Layers!At = At
         /\ Layers!Locked <=> Locked
BY DEF Same1, Top, Layers!Top, Below, Layers!Below, At, Layers!At, Locked, Layers!Locked

LEMMA SameGuards ==
  ASSUME Same1
  PROVE  /\ \A l, f : Layers!Concerned(l, f) <=> Concerned(l, f)
         /\ \A l, f : Layers!IsDeleted(l, f) <=> IsDeleted(l, f)
         /\ \A l : Layers!InStack(l) <=> InStack(l)
         /\ Layers!Asking <=> Asking
         /\ \A op : Layers!Asked(op) <=> Asked(op)
         /\ \A op : Layers!Resuming(op) <=> Resuming(op)
         /\ (Layers!AskReal <=> AskReal) /\ Layers!Fresh = Fresh
<1>1. \A l, f : Layers!Concerned(l, f) <=> Concerned(l, f)
  BY SameSets DEF Concerned, Layers!Concerned
<1>2. \A l, f : Layers!IsDeleted(l, f) <=> IsDeleted(l, f)
  BY DEF IsDeleted, Layers!IsDeleted
<1>3. \A l : Layers!InStack(l) <=> InStack(l)
  BY DEF InStack, Layers!InStack
<1>4. Layers!Asking <=> Asking
  BY SameFrame DEF Asking, Layers!Asking
<1>5. \A op : Layers!Asked(op) <=> Asked(op)
  BY <1>1, <1>4, SameFrame DEF Asked, Layers!Asked
<1>6. \A op : Layers!Resuming(op) <=> Resuming(op)
  BY SameFrame DEF Resuming, Layers!Resuming
<1>7. (Layers!AskReal <=> AskReal) /\ Layers!Fresh = Fresh
  BY SameFrame DEF AskReal, Layers!AskReal, Fresh, Layers!Fresh
<1> QED
  BY <1>1, <1>2, <1>3, <1>4, <1>5, <1>6, <1>7

LEMMA SameMoves ==
  ASSUME Same1, Same2
  PROVE  /\ \A failed : NextLayer(failed) => Layers!NextLayer(failed)
         /\ \A by, ok, failed, h : Return(by, ok, failed, h) => Layers!Return(by, ok, failed, h)
         /\ \A op, arg, d : Nest(op, arg, d) => Layers!Nest(op, arg, d)
         /\ \A l, failed : ErrorAnswer(l, failed) => Layers!ErrorAnswer(l, failed)
         /\ \A h : Drop(h) => Layers!Drop(h)
<1>1. \A failed : NextLayer(failed) => Layers!NextLayer(failed)
  BY DEF Same1, Same2, NextLayer, Layers!NextLayer
<1>2. \A by, ok, h : Tell(by, ok, h) => Layers!Tell(by, ok, h)
  <2>1. \A by : Layers!Received(by) = Received(by)
    BY SameFrame DEF Received, Layers!Received
  <2> QED
    BY <2>1, SameFrame, SameSets DEF Tell, Layers!Tell
<1>3. \A by, ok, failed, h : Return(by, ok, failed, h) => Layers!Return(by, ok, failed, h)
  BY <1>2, SameFrame DEF Same1, Same2, Return, Layers!Return
<1>4. \A op, arg, d : Nest(op, arg, d) => Layers!Nest(op, arg, d)
  <2>1. \A c, op, arg : Layers!Call(c, op, arg) = Call(c, op, arg)
    BY SameStart DEF Call, Layers!Call
  <2> QED
    BY <2>1, SameFrame DEF Same1, Same2, Nest, Layers!Nest
<1>5. \A l, failed : ErrorAnswer(l, failed) => Layers!ErrorAnswer(l, failed)
  BY <1>1, <1>3 DEF Same1, Same2, ErrorAnswer, Layers!ErrorAnswer, FallBackOnError, Layers!FallBackOnError
<1>6. \A h : Drop(h) => Layers!Drop(h)
  BY SameSets DEF Drop, Layers!Drop
<1> QED
  BY <1>1, <1>3, <1>4, <1>5, <1>6

LEMMA SameWalk ==
  ASSUME Same1, Same2, Walk
  PROVE  Layers!Walk
<1> USE SameFrame, SameGuards, SameMoves, SameSets, SameVars
<1>1. CASE PassBy
  <2>1. Layers!PassBy
    BY <1>1 DEF Same1, Same2, PassBy, Layers!PassBy
  <2> QED
    BY <2>1 DEF Layers!Walk
<1>2. CASE AnswerDeleted
  <2>1. Layers!AnswerDeleted
    BY <1>2 DEF Same1, Same2, AnswerDeleted, Layers!AnswerDeleted
  <2> QED
    BY <2>1 DEF Layers!Walk
<1>3. CASE AnswerError
  <2>1. Layers!AnswerError
    BY <1>3 DEF Same1, Same2, AnswerError, Layers!AnswerError
  <2> QED
    BY <2>1 DEF Layers!Walk
<1>4. CASE AnswerStat
  <2>1. Layers!AnswerStat
    BY <1>4 DEF Same1, Same2, AnswerStat, Layers!AnswerStat
  <2> QED
    BY <2>1 DEF Layers!Walk
<1>5. CASE AnswerUseFile
  <2>1. Layers!AnswerUseFile
    BY <1>5 DEF Same1, Same2, AnswerUseFile, Layers!AnswerUseFile
  <2> QED
    BY <2>1 DEF Layers!Walk
<1>6. CASE AnswerCloseFile
  <2>1. Layers!AnswerCloseFile
    BY <1>6 DEF Same1, Same2, AnswerCloseFile, Layers!AnswerCloseFile
  <2> QED
    BY <2>1 DEF Layers!Walk
<1>7. CASE AnswerReadDir
  <2>1. Layers!AnswerReadDir
    BY <1>7 DEF Same1, Same2, AnswerReadDir, Layers!AnswerReadDir
  <2> QED
    BY <2>1 DEF Layers!Walk
<1>8. CASE AnswerRewindDir
  <2>1. Layers!AnswerRewindDir
    BY <1>8 DEF Same1, Same2, AnswerRewindDir, Layers!AnswerRewindDir
  <2> QED
    BY <2>1 DEF Layers!Walk
<1>9. CASE AnswerCloseDir
  <2>1. Layers!AnswerCloseDir
    BY <1>9 DEF Same1, Same2, AnswerCloseDir, Layers!AnswerCloseDir
  <2> QED
    BY <2>1 DEF Layers!Walk
<1>10. CASE ResumeOpenDir
  <2>1. Layers!ResumeOpenDir
    BY <1>10 DEF Same1, Same2, ResumeOpenDir, Layers!ResumeOpenDir
  <2> QED
    BY <2>1 DEF Layers!Walk
<1>11. CASE ResumeReadDir
  <2>1. Layers!ResumeReadDir
    BY <1>11 DEF Same1, Same2, ResumeReadDir, Layers!ResumeReadDir
  <2> QED
    BY <2>1 DEF Layers!Walk
<1>12. CASE ReadParentAgain
  <2>1. Layers!ReadParentAgain
    BY <1>12 DEF Same1, Same2, ReadParentAgain, Layers!ReadParentAgain
  <2> QED
    BY <2>1 DEF Layers!Walk
<1>13. CASE ResumeRewindDir
  <2>1. Layers!ResumeRewindDir
    BY <1>13 DEF Same1, Same2, ResumeRewindDir, Layers!ResumeRewindDir
  <2> QED
    BY <2>1 DEF Layers!Walk
<1>14. CASE ResumeCloseDir
  <2>1. Layers!ResumeCloseDir
    BY <1>14 DEF Same1, Same2, ResumeCloseDir, Layers!ResumeCloseDir
  <2> QED
    BY <2>1 DEF Layers!Walk
<1>15. CASE RealStat
  <2>1. Layers!RealStat
    <3>1. AskReal /\ Top.op = "stat" /\ UNCHANGED <<fsLayers, active, lost, files, tables>>
      BY <1>15 DEF RealStat
    <3>2. Layers!Return(Real, Layers!Top.arg \in realHas, FALSE, Nil)
      <4>1. Return(Real, Top.arg \in realHas, FALSE, Nil)
        BY <1>15 DEF RealStat
      <4>2. Layers!Return(Real, Top.arg \in realHas, FALSE, Nil)
        BY <4>1, Zenon
      <4> QED
        BY <4>2, Zenon
    <3> QED
      BY <3>1, <3>2, Zenon DEF Layers!RealStat
  <2> QED
    BY <2>1 DEF Layers!Walk
<1>16. CASE RealFails
  <2>1. Layers!RealFails
    <3>1. AskReal /\ Top.op \in Opening /\ UNCHANGED <<fsLayers, active, lost, files, tables>>
      BY <1>16 DEF RealFails
    <3>2. Layers!Return(Real, FALSE, Layers!Top.arg \in realHas, Nil)
      <4>1. Return(Real, FALSE, Top.arg \in realHas, Nil)
        BY <1>16 DEF RealFails
      <4>2. Layers!Return(Real, FALSE, Top.arg \in realHas, Nil)
        BY <4>1, Zenon
      <4> QED
        BY <4>2, Zenon
    <3> QED
      BY <3>1, <3>2, Zenon DEF Layers!RealFails
  <2> QED
    BY <2>1 DEF Layers!Walk
<1>17. CASE RealUse
  <2>1. Layers!RealUse
    <3>1. Layers!Return(Real, owner[Layers!Top.arg] = Real, FALSE, Nil)
      <4>1. Return(Real, owner[Top.arg] = Real, FALSE, Nil)
        BY <1>17 DEF RealUse
      <4>2. Layers!Return(Real, owner[Top.arg] = Real, FALSE, Nil)
        BY <4>1, Zenon
      <4> QED
        BY <4>2, Zenon
    <3>2. /\ AskReal /\ Top.op \notin PathOps
          /\ IF Top.op \in Closing /\ owner[Top.arg] = Real
             THEN /\ owner' = [owner EXCEPT ![Top.arg] = Nil]
                  /\ opener' = [opener EXCEPT ![Top.arg] = Nil]
                  /\ isDir' = isDir \ {Top.arg}
             ELSE UNCHANGED <<owner, opener, isDir>>
          /\ UNCHANGED <<fsLayers, active, lost, files, parent>>
      BY <1>17, Zenon DEF RealUse
    <3>3. IF Layers!Top.op \in Layers!Closing /\ owner[Layers!Top.arg] = Real
          THEN /\ owner' = [owner EXCEPT ![Layers!Top.arg] = Nil]
               /\ opener' = [opener EXCEPT ![Layers!Top.arg] = Nil]
               /\ isDir' = isDir \ {Layers!Top.arg}
          ELSE UNCHANGED <<owner, opener, isDir>>
      BY <3>2
    <3>4. Layers!AskReal /\ Layers!Top.op \notin Layers!PathOps
      BY <3>2
    <3> QED
      BY <3>1, <3>2, <3>3, <3>4, Zenon DEF Layers!RealUse
  <2> QED
    BY <2>1 DEF Layers!Walk
<1>18. ASSUME NEW h \in Handle, AnswerOpenFile(h) PROVE Layers!Walk
  <2>1. Layers!AnswerOpenFile(h)
    <3>1. /\ Asked("openFile") /\ Top.arg \in has[At] /\ ~IsDeleted(At, Top)
          /\ h \in Fresh /\ owner' = [owner EXCEPT ![h] = At]
          /\ Return(At, TRUE, FALSE, h)
          /\ UNCHANGED <<fsLayers, active, lost, files, isDir, opener, parent>>
      BY <1>18, Zenon DEF AnswerOpenFile
    <3>2. Layers!Asked("openFile") /\ Top.arg \in has[At] /\ ~Layers!IsDeleted(At, Top) /\ h \in Layers!Fresh
      BY <3>1
    <3>3. Layers!Return(At, TRUE, FALSE, h)
      BY <3>1
    <3>4. PICK l, f : l = At /\ f = Top /\ l = Layers!At /\ f = Layers!Top
      OBVIOUS
    <3> QED
      BY <3>1, <3>2, <3>3, <3>4, Zenon DEF Layers!AnswerOpenFile
  <2> QED
    BY <2>1 DEF Layers!Walk
<1>19. ASSUME NEW h \in Handle, AnswerOpenDir(h) PROVE Layers!Walk
  <2>1. Layers!AnswerOpenDir(h)
    <3>1. /\ Asked("openDir") /\ Top.arg \in has[At] /\ h \in Fresh
          /\ owner' = [owner EXCEPT ![h] = At]
          /\ isDir' = isDir \cup {h} /\ parent' = [parent EXCEPT ![h] = Nil]
          /\ UNCHANGED <<fsLayers, active, lost, files, opener>>
      BY <1>19 DEF AnswerOpenDir
    <3>2. Layers!Asked("openDir") /\ Top.arg \in has[At] /\ h \in Layers!Fresh
      BY <3>1
    <3>3. IF At \in Merging THEN Layers!Nest("openDir", Top.arg, h) /\ UNCHANGED <<held, OutermostRet>>
                            ELSE Layers!Return(At, TRUE, FALSE, h)
      BY <1>19 DEF AnswerOpenDir, Same1, Same2
    <3>4. PICK l, f : l = At /\ f = Top /\ l = Layers!At /\ f = Layers!Top
      OBVIOUS
    <3> QED
      BY <3>1, <3>2, <3>3, <3>4, Zenon DEF Layers!AnswerOpenDir
  <2> QED
    BY <2>1 DEF Layers!Walk
<1>20. ASSUME NEW h \in RealHandle, RealOpen(h) PROVE Layers!Walk
  <2>1. Layers!RealOpen(h)
    <3>1. /\ AskReal /\ Top.op \in Opening /\ Top.arg \in realHas
          /\ owner[h] = Nil /\ owner' = [owner EXCEPT ![h] = Real]
          /\ opener' = [opener EXCEPT ![h] = Top.client]
          /\ isDir' = IF Top.op = "openDir" THEN isDir \cup {h} ELSE isDir
          /\ UNCHANGED <<fsLayers, active, lost, files, parent>>
      BY <1>20 DEF RealOpen
    <3>2. Layers!AskReal /\ Top.op \in Layers!Opening
      BY <3>1
    <3>3. Layers!Return(Real, TRUE, FALSE, h)
      BY <1>20 DEF RealOpen
    <3>4. PICK f : f = Top /\ f = Layers!Top
      OBVIOUS
    <3> QED
      BY <3>1, <3>2, <3>3, <3>4, Zenon DEF Layers!RealOpen
  <2> QED
    BY <2>1 DEF Layers!Walk
<1>21. ASSUME NEW op \in DirOps, AskParent(op) PROVE Layers!Walk
  <2>1. Layers!AskParent(op)
    BY <1>21 DEF Same1, Same2, AskParent, Layers!AskParent
  <2> QED
    BY <2>1 DEF Layers!Walk
<1> QED
  BY <1>1, <1>2, <1>3, <1>4, <1>5, <1>6, <1>7, <1>8, <1>9, <1>10, <1>11, <1>12, <1>13, <1>14, <1>15, <1>16, <1>17, <1>18, <1>19, <1>20, <1>21 DEF Walk

LEMMA SamePlugin ==
  ASSUME Same1, Same2, Plugin
  PROVE  Layers!Plugin
<1> USE SameFrame, SameGuards, SameSets, SameVars
<1>1. ASSUME NEW l \in Layer, AddLayer(l) PROVE Layers!Plugin
  <2>1. Layers!AddLayer(l)
    BY <1>1 DEF Same1, Same2, AddLayer, Layers!AddLayer
  <2> QED
    BY <2>1 DEF Layers!Plugin
<1>2. ASSUME NEW l \in Layer, RemoveFSLayer(l) PROVE Layers!Plugin
  <2>1. \A k : Layers!RemoveAt(fsLayers, k) = RemoveAt(fsLayers, k)
    BY DEF RemoveAt, Layers!RemoveAt
  <2>2. Layers!Forget({l})
    BY <1>2 DEF RemoveFSLayer, Forget, Layers!Forget
  <2>3. Layers!RemoveFSLayer(l)
    BY <1>2, <2>1, <2>2 DEF Same1, Same2, RemoveFSLayer, Layers!RemoveFSLayer
  <2> QED
    BY <2>3 DEF Layers!Plugin
<1>3. ASSUME NEW l \in Layer, SetActive(l) PROVE Layers!Plugin
  <2>1. Layers!SetActive(l)
    BY <1>3 DEF Same1, Same2, SetActive, Layers!SetActive
  <2> QED
    BY <2>1 DEF Layers!Plugin
<1>4. CASE ClearFSLayer
  <2>1. Layers!ClearFSLayer
    BY <1>4 DEF Same1, Same2, ClearFSLayer, Layers!ClearFSLayer
  <2> QED
    BY <2>1 DEF Layers!Plugin
<1> QED
  BY <1>1, <1>2, <1>3, <1>4 DEF Plugin

LEMMA SameEnter ==
  ASSUME Same1, Same2, NEW op \in Ops, NEW arg \in Path \cup AnyHandle, Enter(op, arg)
  PROVE  Layers!Next
<1> USE SameFrame, SameGuards, SameSets, SameVars
<1>1. Layers!Call(Client, op, arg) = Call(Client, op, arg)
  BY SameStart DEF Call, Layers!Call
<1>2. Layers!Enter(op, arg)
  BY <1>1 DEF Same1, Same2, Enter, Layers!Enter
<1> QED
  BY <1>2 DEF Layers!Next

-----------------------------------------------------------------------------
(* No layer replaces what lies in a replacement directory.                      *)

FilesOK ==
  /\ has = [l \in Layer |-> {p \in Path : Place[l][p] \in realHas}]
  /\ deleted = [l \in Layer |-> {p \in Path : l \in Merging /\
                  (NamedLikeMark(l, p) \/ MarkOfCopy(l, p) \in realHas)}]

(* A POSIX call that no layer has an answer to.                                 *)
Leaf(f) == /\ f.dir = Nil /\ ~f.failed
           /\ f.op \in PathOps => \A l \in Layer : f.arg \notin Covers[l]
           /\ f.op \notin PathOps => f.arg \notin AnyHandle

(* What it has told.                                                          *)
Truth(r) ==
  /\ r.h \in {Fd, Nil}
  /\ r.call.op \in PathOps =>
       /\ r.ok => r.call.arg \in realHas
       /\ ~r.ok /\ ~r.call.failed => r.call.arg \notin realHas
       /\ r.call.op = "stat" => ~r.call.failed

FdsOK == opened \in {Fd, Nil} /\ \A h \in Handle : fd[h] \in {Fd, Nil}
OneOut ==
  /\ Len(outer) <= 1
  /\ outer # <<>> /\ frames # <<>> => Len(frames) = 1 /\ Leaf(frames[1])
  /\ outer # <<>> /\ frames = <<>> => Truth(ret)
OInv == FilesOK /\ FdsOK /\ OneOut

LEMMA LeafFacts ==
  ASSUME WInv, OInv, outer # <<>>, frames # <<>>
  PROVE  /\ Len(outer) = 1 /\ Len(frames) = 1 /\ Top = frames[1] /\ Top \in AFrame
         /\ Top.client = Posix /\ Top.client # Client /\ Leaf(Top) /\ Below = <<>>
         /\ \A op : ~Asked(op)
         /\ ~(Asking /\ At \in active /\ Concerned(At, Top))
<1>1. outer \in Seq(Call1) /\ Len(outer) \in Nat /\ Len(outer) <= 1
  BY DEF WInv, Typed, OInv, OneOut
<1>2. Len(outer) = 1
  <2>1. PICK m \in Nat : m = Len(outer)
    BY <1>1
  <2>2. m # 0 /\ m <= 1
    BY <1>1, <2>1
  <2> QED
    BY <2>1, <2>2
<1>3. Len(frames) = 1 /\ Top = frames[1] /\ Leaf(Top)
  BY DEF OInv, OneOut, Top
<1>4. /\ Top \in AFrame /\ Below \in Seq(AFrame) /\ Len(Below) = 0
      /\ Top.i > 0 => At \in Layer
  BY <1>3, TopFacts
<1>5. Top.client = Posix /\ Top.client # Client
  BY <1>2, <1>3, PlaceAssumption DEF WInv, FramesOK, Base
<1>6. ~(Asking /\ At \in active /\ Concerned(At, Top))
  BY <1>3, <1>4 DEF Asking, Concerned, Leaf
<1> QED
  BY <1>2, <1>3, <1>4, <1>5, <1>6 DEF Asked

(* Of what may happen only the loop and the console's answers are left.          *)
LEMMA LeafActions ==
  ASSUME WInv, OInv, outer # <<>>, Answering
  PROVE  KeepFds /\ Moved /\ frames # <<>> /\ (PassBy \/ RealStat \/ RealFails \/ RealPosix)
<1>1. frames # <<>> /\ Moved
  BY DEF Answering
<1>2. /\ \A op : ~Asked(op)
      /\ ~(Asking /\ At \in active /\ Concerned(At, Top))
      /\ Top.dir = Nil /\ Top.client = Posix
  BY <1>1, LeafFacts DEF Leaf
<1>3. \A h \in Handle : ~SaysOpen(h)
  BY <1>2 DEF SaysOpen, AnswerOpenFile, AnswerOpenDir
<1>4. ~SaysDeleted /\ ~SaysError /\ ~SaysFound /\ ~SaysUsed
  BY <1>2 DEF SaysDeleted, SaysError, SaysFound, SaysUsed, AnswerDeleted, AnswerError, AnswerStat,
              AnswerReadDir, AnswerUseFile
<1>5. ~SaysRewound /\ ~SaysClosed /\ ~TurnsToParent
  BY <1>2 DEF SaysRewound, SaysClosed, TurnsToParent, AnswerRewindDir, AnswerCloseFile,
              AnswerCloseDir, AskParent
<1>6. ~Resumes
  BY <1>2 DEF Resumes, ResumeOpenDir, ResumeReadDir, ReadParentAgain, ResumeRewindDir,
              ResumeCloseDir, Resuming
<1>7. RealAnswers => RealStat \/ RealFails
  BY <1>2 DEF RealAnswers
<1> QED
  BY <1>1, <1>3, <1>4, <1>5, <1>6, <1>7, Zenon DEF Answering

LEMMA KeepsFdsOK ==
  ASSUME FdsOK, KeepFds, Moved
  PROVE  FdsOK'
BY DEF FdsOK, KeepFds, Moved

(* What a Posix call returns.                                                 *)
LEMMA LeafReturns ==
  ASSUME WInv, OInv, outer # <<>>, frames # <<>>,
         NEW ok \in BOOLEAN, NEW failed \in BOOLEAN, NEW h \in {Fd, Nil}, Return(Real, ok, failed, h),
         UNCHANGED <<outer, realHas>>,
         Top.op \in PathOps => /\ ok => Top.arg \in realHas
                               /\ ~ok /\ ~failed => Top.arg \notin realHas
                               /\ Top.op = "stat" => ~failed
  PROVE  OneOut' /\ held' = held
<1>1. /\ Len(outer) = 1 /\ Top \in AFrame /\ ~Top.failed /\ Below = <<>> /\ Top.client # Client
  BY LeafFacts DEF Leaf
<1>2. frames' = <<>> /\ held' = held
  BY <1>1 DEF Return, Tell
<1>3. Truth(ret)'
  <2>1. PICK b \in BOOLEAN : b = (Top.failed \/ failed)
    BY Zenon
  <2>2. b = failed
    BY <1>1, <2>1 DEF AFrame
  <2>3. PICK c : c = [Top EXCEPT !.failed = b]
    OBVIOUS
  <2>4. c.op = Top.op /\ c.arg = Top.arg /\ c.failed = b
    BY <1>1, <2>3 DEF AFrame
  <2>5. ret' = [call |-> c, by |-> Real, ok |-> ok, h |-> h]
    BY <2>1, <2>3 DEF Return
  <2>6. ret'.call = c /\ ret'.ok = ok /\ ret'.h = h
    BY <2>5
  <2> QED
    BY <2>2, <2>4, <2>6 DEF Truth
<1> QED
  BY <1>1, <1>2, <1>3 DEF OneOut

(* A step of a Posix call is none of LayerStack's.                              *)
LEMMA InnerStep ==
  ASSUME WInv, OInv, outer # <<>>, Answering
  PROVE  OInv' /\ UNCHANGED <<fsLayers, active, files, tables, held, lost, outer>>
<1>1. KeepFds /\ Moved /\ frames # <<>> /\ (PassBy \/ RealStat \/ RealFails \/ RealPosix)
  BY LeafActions
<1>2. /\ Len(outer) = 1 /\ Len(frames) = 1 /\ Top = frames[1] /\ Top \in AFrame
      /\ Top.client # Client /\ Leaf(Top)
  BY <1>1, LeafFacts
<1>3. outer' = outer /\ FdsOK'
  BY <1>1, KeepsFdsOK DEF Moved, OInv
<1>4. ASSUME UNCHANGED <<fsLayers, active, files, tables, held, lost>>, OneOut'
      PROVE  OInv' /\ UNCHANGED <<fsLayers, active, files, tables, held, lost, outer>>
  BY <1>3, <1>4 DEF OInv, FilesOK, files
<1>5. CASE PassBy
  <2>1. /\ NextLayer(FALSE) /\ UNCHANGED <<fsLayers, active, lost, files, tables, held>>
        /\ Top.i > 0 /\ Top.i \in Nat
    BY <1>2, <1>5 DEF PassBy, Asking, AFrame
  <2>2. PICK g : g = [Top EXCEPT !.i = @ - 1, !.failed = FALSE, !.dir = Nil]
    OBVIOUS
  <2>3. frames = <<Top>>
    BY <1>2 DEF WInv, Typed
  <2>4. g.failed = FALSE /\ g.dir = Nil /\ g.op = Top.op /\ g.arg = Top.arg
    BY <1>2, <2>2 DEF AFrame
  <2>5. frames' = <<g>>
    <3>1. (Top.failed \/ FALSE) = FALSE
      BY <1>2 DEF Leaf
    <3>2. frames' = [frames EXCEPT ![1] = g]
      BY <1>2, <2>1, <2>2, <3>1 DEF NextLayer
    <3> QED
      BY <2>3, <3>2
  <2>6. Leaf(g)
    BY <1>2, <2>4 DEF Leaf
  <2>7. Len(frames') = 1 /\ frames'[1] = g
    BY <2>5
  <2>8. OneOut'
    BY <1>2, <1>3, <2>5, <2>6, <2>7 DEF OneOut, Leaf
  <2> QED
    BY <1>4, <2>1, <2>8
<1>6. CASE RealStat
  <2>1. PICK ok : ok = (Top.arg \in realHas)
    BY Zenon
  <2>0. ok \in BOOLEAN
    BY <2>1
  <2>2. Return(Real, ok, FALSE, Nil)
    BY <1>6, <2>1 DEF RealStat
  <2>3. UNCHANGED <<fsLayers, active, lost, files, tables>>
    BY <1>6 DEF RealStat
  <2>4. OneOut' /\ held' = held
    BY <1>1, <1>3, <2>0, <2>1, <2>2, <2>3, LeafReturns DEF files
  <2> QED
    BY <1>4, <2>3, <2>4
<1>7. CASE RealFails
  <2>1. PICK failed : failed = (Top.arg \in realHas)
    BY Zenon
  <2>0. failed \in BOOLEAN
    BY <2>1
  <2>2. Return(Real, FALSE, failed, Nil)
    BY <1>7, <2>1 DEF RealFails
  <2>3. UNCHANGED <<fsLayers, active, lost, files, tables>> /\ Top.op # "stat"
    BY <1>7 DEF RealFails, Opening
  <2>4. OneOut' /\ held' = held
    BY <1>1, <1>3, <2>0, <2>1, <2>2, <2>3, LeafReturns DEF files
  <2> QED
    BY <1>4, <2>3, <2>4
<1>8. CASE RealPosix
  <2>1. UNCHANGED <<fsLayers, active, lost, files, tables>>
    BY <1>8 DEF RealPosix
  <2>2. CASE Top.op \in Opening /\ Top.arg \in realHas /\ Return(Real, TRUE, FALSE, Fd)
    <3>1. OneOut' /\ held' = held
      BY <1>1, <1>3, <2>1, <2>2, LeafReturns DEF files
    <3> QED
      BY <1>4, <2>1, <3>1
  <2>3. ASSUME NEW ok \in BOOLEAN, Top.op \notin PathOps, Return(Real, ok, FALSE, Nil)
        PROVE  OInv' /\ UNCHANGED <<fsLayers, active, files, tables, held, lost, outer>>
    <3>1. OneOut' /\ held' = held
      BY <1>1, <1>3, <2>1, <2>3, LeafReturns DEF files
    <3> QED
      BY <1>4, <2>1, <3>1
  <2> QED
    BY <1>8, <2>2, <2>3 DEF RealPosix
<1> QED
  BY <1>1, <1>5, <1>6, <1>7, <1>8

(* Nothing waits: an answer is LayerStack's.                                   *)
LEMMA OuterStep ==
  ASSUME WInv, OInv, outer = <<>>, Answering
  PROVE  OInv' /\ Layers!Next
<1>1. frames # <<>> /\ outer' = <<>> /\ UNCHANGED files /\ Moved
  BY AnswerMoves DEF Makes, Answering
<1>2. FdsOK'
  <2>1. ASSUME NEW h \in Handle, SaysOpen(h) PROVE FdsOK'
    <3>1. fd' = [fd EXCEPT ![h] = opened] /\ opened' = Nil /\ fd \in [Handle -> AnyHandle \cup {Fd, Nil}]
      BY <1>1, <2>1 DEF SaysOpen, Moved, WInv, Typed
    <3>2. opened \in {Fd, Nil} /\ \A g \in Handle : fd[g] \in {Fd, Nil}
      BY DEF OInv, FdsOK
    <3>3. \A g \in Handle : fd'[g] = IF g = h THEN opened ELSE fd[g]
      BY <3>1
    <3> QED
      BY <3>1, <3>2, <3>3 DEF FdsOK
  <2>2. KeepFds => FdsOK'
    BY <1>1, KeepsFdsOK DEF OInv
  <2> QED
    BY <2>1, <2>2 DEF Answering
<1>3. OInv'
  BY <1>1, <1>2 DEF OInv, FilesOK, OneOut, files
<1>4. Top.client # Posix
  <2>1. Len(outer) = 0
    OBVIOUS
  <2>2. /\ frames[1].client = Client /\ Len(frames) \in Nat \ {0} /\ Top = frames[Len(frames)]
        /\ \A j \in 1 .. Len(frames) - 1 : frames[j] \in AFrame
    BY <1>1, <2>1, TopFacts DEF WInv, FramesOK, Base
  <2>3. CASE Len(frames) = 1
    BY <2>2, <2>3, PlaceAssumption
  <2>4. CASE Len(frames) # 1
    <3>1. Len(frames) \in 1 .. Len(frames) /\ Len(frames) > 1 /\ Len(frames) - 1 \in 1 .. Len(frames)
      <4>1. PICK m \in Nat : m = Len(frames)
        BY <2>2
      <4>2. m # 0 /\ m # 1
        BY <2>2, <2>4, <4>1
      <4>3. m \in 1 .. m /\ m > 1 /\ m - 1 \in 1 .. m
        BY <4>2
      <4> QED
        BY <4>1, <4>3
    <3>2. Top.client = fsLayers[frames[Len(frames) - 1].i] /\ frames[Len(frames) - 1].dir # Nil
      BY <2>2, <3>1 DEF WInv, FramesOK, StackOK
    <3>3. fsLayers[frames[Len(frames) - 1].i] \in Merging
      BY <3>1, <3>2 DEF WInv, FramesOK, StackOK
    <3> QED
      BY <3>2, <3>3, LayerAssumption, PlaceAssumption
  <2> QED
    BY <2>3, <2>4
<1>5. Walk
  <2>1. ASSUME NEW h \in Handle, SaysOpen(h) PROVE Walk
    BY <2>1 DEF SaysOpen, Walk
  <2>2. SaysDeleted \/ SaysError \/ SaysFound \/ SaysUsed \/ SaysRewound \/ SaysClosed => Walk
    BY Zenon DEF SaysDeleted, SaysError, SaysFound, SaysUsed, SaysRewound, SaysClosed, Walk
  <2>3. PassBy \/ TurnsToParent \/ Resumes => Walk
    <3>1. "rewindDir" \in DirOps
      BY DEF DirOps
    <3> QED
      BY <3>1, Zenon DEF TurnsToParent, Resumes, Walk
  <2>4. RealAnswers => Walk
    BY Zenon DEF RealAnswers, Walk
  <2>5. ~RealPosix
    BY <1>4 DEF RealPosix
  <2> QED
    BY <2>1, <2>2, <2>3, <2>4, <2>5, Zenon DEF Answering
<1>6. Same1 /\ Same2
  BY <1>1 DEF Same1, Same2, Outermost, OutermostRet
<1> QED
  BY <1>3, <1>5, <1>6, SameWalk DEF Layers!Next

(* A POSIX call is no step of LayerStack, nor is the return from it.             *)
LEMMA CallStep ==
  ASSUME Outside, WInv, OInv, AskMark \/ AskStorage \/ CloseAgain
  PROVE  OInv' /\ UNCHANGED Layers!vars
<1>1. PICK op \in Ops : Asked(op)
  BY DEF AskMark, AskStorage, CloseAgain, Ops
<1>2. outer = <<>> /\ frames # <<>>
  BY <1>1, AskedWaits, LeafFacts
<1>3. ASSUME NEW why, NEW o, NEW arg, PosixCall(why, o, arg),
             o \in PathOps => \A l \in Layer : arg \notin Covers[l],
             o \notin PathOps => arg \notin AnyHandle
      PROVE  OInv' /\ UNCHANGED Layers!vars
  <2>1. PICK c : c = [frames |-> frames, ret |-> ret, why |-> why]
    OBVIOUS
  <2>2. PICK f : f = Call(Posix, o, arg)
    OBVIOUS
  <2>3. /\ outer' = <<c>> /\ frames' = <<f>> /\ opened' = Nil
        /\ UNCHANGED <<fsLayers, active, files, tables, held, lost, fd>>
    BY <1>2, <1>3, <2>1, <2>2 DEF PosixCall
  <2>4. Leaf(f)
    BY <1>3, <2>2 DEF Leaf, Call
  <2>5. Outermost' = Outermost /\ OutermostRet' = OutermostRet
    BY <1>2, <2>1, <2>3 DEF Outermost, OutermostRet
  <2>6. OneOut'
    BY <2>3, <2>4 DEF OneOut, Leaf
  <2>7. FdsOK' /\ FilesOK'
    BY <2>3 DEF OInv, FdsOK, FilesOK, files
  <2> QED
    BY <2>3, <2>5, <2>6, <2>7, SameVars DEF OInv, Layers!vars
<1>4. CASE AskMark
  <2>1. PICK o \in {"openFile", "stat"} : Asked(o)
    BY <1>4 DEF AskMark
  <2>2. At \in Layer /\ Top.arg \in Covers[At] /\ At \in Merging
    BY <1>4, <2>1, AskedWaits DEF AskMark, ChecksMark, PathOps
  <2>3. \A l \in Layer : MarkOfCopy(At, Top.arg) \notin Covers[l]
    BY <2>2 DEF Outside
  <2>4. PosixCall("mark", "stat", MarkOfCopy(At, Top.arg)) /\ "stat" \in PathOps
    BY <1>4 DEF AskMark, PathOps
  <2> QED
    BY <1>3, <2>3, <2>4
<1>5. CASE AskStorage
  <2>1. At \in Layer /\ (Top.op \in PathOps => Top.arg \in Covers[At])
        /\ (Top.op \notin PathOps => Top.arg \in Handle)
    BY <1>1, AskedWaits
  <2>2. PICK arg : arg = IF Top.op \in PathOps THEN Place[At][Top.arg] ELSE fd[Top.arg]
    OBVIOUS
  <2>3. Top.op \in PathOps => \A l \in Layer : arg \notin Covers[l]
    BY <2>1, <2>2 DEF Outside
  <2>4. Top.op \notin PathOps => arg \notin AnyHandle
    BY <2>1, <2>2, NameAssumption, PlaceAssumption DEF OInv, FdsOK, AnyHandle
  <2>5. PosixCall("storage", Top.op, arg)
    BY <1>5, <2>2 DEF AskStorage
  <2> QED
    BY <1>3, <2>3, <2>4, <2>5
<1>6. CASE CloseAgain
  <2>1. PosixCall("undo", "closeFile", opened) /\ "closeFile" \notin PathOps
    BY <1>6 DEF CloseAgain, PathOps
  <2>2. opened \notin AnyHandle
    BY NameAssumption, PlaceAssumption DEF OInv, FdsOK, AnyHandle
  <2> QED
    BY <1>3, <2>1, <2>2
<1> QED
  BY <1>4, <1>5, <1>6

(* A layer that learns what is so has nothing to learn.                          *)
LEMMA NothingNew ==
  ASSUME NEW T, T = [l \in Layer |-> T[l]], NEW l \in Layer, NEW p, NEW there,
         there => p \in T[l], ~there => p \notin T[l]
  PROVE  Learn(T, l, p, there) = T
<1>1. (IF there THEN T[l] \cup {p} ELSE T[l] \ {p}) = T[l]
  <2>1. CASE there
    <3>1. T[l] \cup {p} = T[l]
      BY <2>1
    <3> QED
      BY <2>1, <3>1
  <2>2. CASE ~there
    <3>1. T[l] \ {p} = T[l]
      BY <2>2
    <3> QED
      BY <2>2, <3>1
  <2> QED
    BY <2>1, <2>2
<1>2. Learn(T, l, p, there) = [T EXCEPT ![l] = IF there THEN T[l] \cup {p} ELSE T[l] \ {p}]
  BY Zenon DEF Learn
<1> QED
  BY <1>1, <1>2

LEMMA ReturnedStep ==
  ASSUME WInv, OInv, PosixReturn
  PROVE  OInv' /\ UNCHANGED Layers!vars
<1>1. /\ frames = <<>> /\ outer # <<>> /\ outer \in Seq(Call1) /\ Truth(ret)
      /\ ret \in Answer /\ FilesOK /\ FdsOK
  BY DEF PosixReturn, WInv, Typed, FramesOK, OInv, OneOut
<1>2. Len(outer) = 1 /\ Last(outer) = outer[1] /\ Front(outer) = <<>>
  <2>1. PICK m \in Nat : m = Len(outer)
    BY <1>1
  <2>2. m # 0 /\ m <= 1
    BY <1>1, <2>1 DEF OInv, OneOut
  <2>3. m = 1
    BY <2>1, <2>2
  <2>4. Front(outer) = <<>>
    <3>1. Front(outer) = SubSeq(outer, 1, 0)
      BY <2>1, <2>3 DEF Front
    <3> QED
      BY <1>1, <3>1
  <2>5. Last(outer) = outer[1]
    BY <2>1, <2>3 DEF Last
  <2> QED
    BY <2>1, <2>3, <2>4, <2>5
<1>3. 1 \in 1 .. Len(outer) /\ ~(1 < Len(outer))
  BY <1>2
<1>4. PICK c, w, l : c = outer[1] /\ w = Last(c.frames) /\ l = fsLayers[w.i]
  OBVIOUS
<1>5. /\ w = c.frames[Len(c.frames)] /\ Waiting(w) /\ l \in Layer
      /\ c \in Call1 /\ MadeFor(c, ret.call)
  BY <1>1, <1>3, <1>4, CallerFacts DEF WInv, LinksOK, CallOf
<1>6. w.op \in PathOps => w.arg \in Covers[l] /\ w.arg \in Path
  BY <1>4, <1>5, LayerAssumption DEF Waiting
<1>7. /\ frames' = c.frames /\ ret' = c.ret /\ outer' = <<>> /\ opened' = ret.h
      /\ deleted' = IF c.why = "mark" THEN Learn(deleted, l, w.arg, ret.ok) ELSE deleted
      /\ has' = IF c.why = "storage" /\ w.op \in PathOps /\ (ret.ok \/ ~ret.call.failed)
                THEN Learn(has, l, w.arg, ret.ok) ELSE has
      /\ UNCHANGED <<fsLayers, active, realHas, tables, held, lost, fd>>
  BY <1>2, <1>4 DEF PosixReturn
<1>8. deleted' = deleted
  <2>1. CASE c.why = "mark"
    <3>1. /\ ret.call.op = "stat" /\ ret.call.arg = MarkOfCopy(l, w.arg) /\ w.op \in PathOps
          /\ l \in Merging /\ ~NamedLikeMark(l, w.arg)
      BY <1>4, <1>5, <2>1 DEF MadeFor
    <3>2. ret.ok => MarkOfCopy(l, w.arg) \in realHas
      BY <1>1, <3>1 DEF Truth, PathOps
    <3>3. ~ret.ok => MarkOfCopy(l, w.arg) \notin realHas
      BY <1>1, <3>1 DEF Truth, PathOps
    <3>4. deleted = [k \in Layer |-> deleted[k]] /\ (w.arg \in deleted[l] <=> MarkOfCopy(l, w.arg) \in realHas)
      BY <1>1, <1>5, <1>6, <3>1 DEF FilesOK
    <3>5. Learn(deleted, l, w.arg, ret.ok) = deleted
      BY <1>5, <3>2, <3>3, <3>4, NothingNew
    <3> QED
      BY <1>7, <2>1, <3>5
  <2> QED
    BY <1>7, <2>1
<1>9. has' = has
  <2>1. CASE c.why = "storage" /\ w.op \in PathOps /\ (ret.ok \/ ~ret.call.failed)
    <3>1. ret.call.op \in PathOps /\ ret.call.arg = Place[l][w.arg]
      BY <1>4, <1>5, <2>1 DEF MadeFor
    <3>2. ret.ok => Place[l][w.arg] \in realHas
      BY <1>1, <3>1 DEF Truth
    <3>3. ~ret.ok => Place[l][w.arg] \notin realHas
      BY <1>1, <2>1, <3>1 DEF Truth
    <3>4. has = [k \in Layer |-> has[k]] /\ (w.arg \in has[l] <=> Place[l][w.arg] \in realHas)
      BY <1>1, <1>5, <1>6, <2>1 DEF FilesOK
    <3>5. Learn(has, l, w.arg, ret.ok) = has
      BY <1>5, <3>2, <3>3, <3>4, NothingNew
    <3> QED
      BY <1>7, <2>1, <3>5
  <2> QED
    BY <1>7, <2>1
<1>10. Outermost' = Outermost /\ OutermostRet' = OutermostRet
  BY <1>1, <1>4, <1>7 DEF Outermost, OutermostRet
<1>11. UNCHANGED files
  BY <1>7, <1>8, <1>9 DEF files
<1>12. FilesOK' /\ FdsOK' /\ OneOut'
  <2>1. FilesOK'
    BY <1>1, <1>7, <1>8, <1>9 DEF FilesOK
  <2>2. ret.h \in {Fd, Nil}
    BY <1>1 DEF Truth
  <2>3. FdsOK'
    BY <1>1, <1>7, <2>2 DEF FdsOK
  <2>4. OneOut'
    BY <1>7 DEF OneOut
  <2> QED
    BY <2>1, <2>3, <2>4
<1> QED
  BY <1>7, <1>10, <1>11, <1>12, SameVars DEF OInv, Layers!vars

LEMMA BetweenStep ==
  ASSUME WInv, OInv, Between
  PROVE  OInv' /\ Layers!Next
<1>1. frames = <<>> /\ outer = <<>> /\ outer' = <<>> /\ KeepFds /\ opened' = opened
  BY DEF Between, Busy
<1>2. UNCHANGED files
  <2>1. Plugin => UNCHANGED files
    BY DEF Plugin, AddLayer, RemoveFSLayer, ClearFSLayer, SetActive
  <2> QED
    BY <2>1 DEF Between, Enter
<1>3. OInv'
  <2>1. FdsOK'
    BY <1>1 DEF OInv, FdsOK, KeepFds
  <2> QED
    BY <1>1, <1>2, <2>1 DEF OInv, FilesOK, OneOut, files
<1>4. Same1 /\ Same2
  BY <1>1 DEF Same1, Same2, Outermost, OutermostRet
<1>5. Plugin => Layers!Next
  BY <1>4, SamePlugin DEF Layers!Next
<1>6. ASSUME NEW op \in Ops, NEW arg \in AppPath \cup AnyHandle, Enter(op, arg) PROVE Layers!Next
  <2>1. arg \in Path \cup AnyHandle
    BY PlaceAssumption
  <2> QED
    BY <1>4, <1>6, <2>1, SameEnter
<1> QED
  BY <1>3, <1>5, <1>6 DEF Between

LEMMA OInvInit == AllInit => OInv /\ Layers!Init
<1> SUFFICES ASSUME AllInit PROVE OInv /\ Layers!Init
  OBVIOUS
<1>1. Init /\ outer = <<>> /\ opened = Nil /\ fd = [h \in Handle |-> Nil]
  BY DEF AllInit
<1>2. OInv
  BY <1>1 DEF AllInit, OInv, FilesOK, FdsOK, OneOut
<1>3. Outermost = frames /\ OutermostRet = ret
  BY <1>1 DEF Outermost, OutermostRet
<1>4. Layers!Init
  BY <1>1, <1>3, SameSets DEF Init, Layers!Init
<1> QED
  BY <1>2, <1>4

LEMMA OInvStutter == OInv /\ UNCHANGED allVars => OInv' /\ UNCHANGED Layers!vars
<1> SUFFICES ASSUME OInv, UNCHANGED allVars PROVE OInv' /\ UNCHANGED Layers!vars
  OBVIOUS
<1>1. /\ UNCHANGED <<fsLayers, active, files, tables, held, lost, frames, ret, outer, opened, fd>>
      /\ UNCHANGED <<has, deleted, realHas>>
  BY DEF allVars, vars, posixVars, files
<1>2. OInv'
  BY <1>1 DEF OInv, FilesOK, FdsOK, OneOut, Truth, Leaf
<1> QED
  BY <1>1, <1>2, SameVars DEF Layers!vars, Outermost, OutermostRet

(* When no layer replaces what lies in a replacement directory, the POSIX calls  *)
(* of a layer find what is there, and LayerStack's single step stands for a       *)
(* layer's answer with all of them.                                           *)
THEOREM RealisesLayers == Outside => (AllSpec => ImplementsLayers)
<1> SUFFICES ASSUME Outside PROVE AllSpec => Layers!Spec
  BY DEF ImplementsLayers
<1>1. AllInit => OInv /\ Layers!Init
  BY OInvInit
<1>2. WInv /\ OInv /\ [AllNext]_allVars => OInv' /\ [Layers!Next]_(Layers!vars)
  <2> SUFFICES ASSUME WInv, OInv, [AllNext]_allVars
               PROVE  OInv' /\ [Layers!Next]_(Layers!vars)
    OBVIOUS
  <2>1. CASE UNCHANGED allVars
    BY <2>1, OInvStutter
  <2>2. CASE Between
    BY <2>2, BetweenStep
  <2>3. CASE Answering
    <3>1. CASE outer = <<>>
      BY <2>3, <3>1, OuterStep
    <3>2. CASE outer # <<>>
      <4>1. OInv' /\ UNCHANGED <<fsLayers, active, files, tables, held, lost, outer>>
        BY <2>3, <3>2, InnerStep
      <4>2. Outermost' = Outermost /\ OutermostRet' = OutermostRet
        BY <3>2, <4>1 DEF Outermost, OutermostRet
      <4> QED
        BY <4>1, <4>2, SameVars DEF Layers!vars
    <3> QED
      BY <3>1, <3>2
  <2>4. CASE AskMark \/ AskStorage \/ CloseAgain
    BY <2>4, CallStep
  <2>5. CASE PosixReturn
    BY <2>5, ReturnedStep
  <2> QED
    BY <2>1, <2>2, <2>3, <2>4, <2>5 DEF AllNext, Calling
<1> QED
  BY <1>1, <1>2, WalksInvariance, PTL DEF AllSpec, Layers!Spec

(* Layers and LayersP are instances of the same definitions: what is proved of   *)
(* the one can be said of the other.                                           *)
LEMMA SameInit == Layers!Init => LayersP!Init
BY DEF Layers!Init, LayersP!Init, Layers!AnyHandle, LayersP!AnyHandle

LEMMA SameNext == Layers!Next => LayersP!Next
<1> SUFFICES ASSUME Layers!Next PROVE LayersP!Next
  OBVIOUS
<1> QED
  BY Zenon
  DEF Layers!Next, LayersP!Next, Layers!Plugin, LayersP!Plugin, Layers!Walk, LayersP!Walk,
      Layers!AddLayer, LayersP!AddLayer, Layers!RemoveFSLayer, LayersP!RemoveFSLayer,
      Layers!Forget, LayersP!Forget, Layers!RemoveAt, LayersP!RemoveAt, Layers!ClearFSLayer,
      LayersP!ClearFSLayer, Layers!SetActive, LayersP!SetActive, Layers!Enter, LayersP!Enter,
      Layers!PassBy, LayersP!PassBy, Layers!AnswerDeleted, LayersP!AnswerDeleted,
      Layers!AnswerError, LayersP!AnswerError, Layers!AnswerStat, LayersP!AnswerStat,
      Layers!AnswerOpenFile, LayersP!AnswerOpenFile, Layers!AnswerUseFile,
      LayersP!AnswerUseFile, Layers!AnswerCloseFile, LayersP!AnswerCloseFile,
      Layers!AnswerOpenDir, LayersP!AnswerOpenDir, Layers!AnswerReadDir, LayersP!AnswerReadDir,
      Layers!AskParent, LayersP!AskParent, Layers!AnswerRewindDir, LayersP!AnswerRewindDir,
      Layers!AnswerCloseDir, LayersP!AnswerCloseDir, Layers!ResumeOpenDir,
      LayersP!ResumeOpenDir, Layers!ReadParentAgain, LayersP!ReadParentAgain,
      Layers!ResumeReadDir, LayersP!ResumeReadDir, Layers!ResumeRewindDir,
      LayersP!ResumeRewindDir, Layers!ResumeCloseDir, LayersP!ResumeCloseDir, Layers!RealOpen,
      LayersP!RealOpen, Layers!RealStat, LayersP!RealStat, Layers!RealFails, LayersP!RealFails,
      Layers!RealUse, LayersP!RealUse,
      Layers!files, LayersP!files, Layers!tables, LayersP!tables, Layers!AnyHandle,
      LayersP!AnyHandle, Layers!Ops, LayersP!Ops, Layers!PathOps, LayersP!PathOps,
      Layers!DirOps, LayersP!DirOps, Layers!Opening, LayersP!Opening, Layers!Closing,
      LayersP!Closing, Layers!Locked, LayersP!Locked, Layers!InStack, LayersP!InStack,
      Layers!StartIndex, LayersP!StartIndex, Layers!Max, LayersP!Max, Layers!Call, LayersP!Call,
      Layers!Top, LayersP!Top, Layers!Below, LayersP!Below, Layers!At, LayersP!At,
      Layers!Concerned, LayersP!Concerned, Layers!Asking, LayersP!Asking, Layers!NextLayer,
      LayersP!NextLayer, Layers!Received, LayersP!Received, Layers!Tell, LayersP!Tell,
      Layers!Return, LayersP!Return, Layers!Asked, LayersP!Asked, Layers!FallBackOnError,
      LayersP!FallBackOnError, Layers!ErrorAnswer, LayersP!ErrorAnswer, Layers!IsDeleted,
      LayersP!IsDeleted, Layers!Drop, LayersP!Drop, Layers!Fresh, LayersP!Fresh, Layers!Nest,
      LayersP!Nest, Layers!Resuming, LayersP!Resuming, Layers!AskReal, LayersP!AskReal

LEMMA SamePromise ==
  /\ UNCHANGED Layers!vars <=> UNCHANGED LayersP!vars
  /\ \A f : (Layers!Decider(f) = LayersP!Decider(f)) /\ (Layers!Present(f) <=> LayersP!Present(f))
  /\ Layers!PathOps = LayersP!PathOps
<1>1. UNCHANGED Layers!vars <=> UNCHANGED LayersP!vars
  BY DEF Layers!vars, LayersP!vars, Layers!files, LayersP!files, Layers!tables, LayersP!tables
<1>2. \A l, f : Layers!IsDeleted(l, f) <=> LayersP!IsDeleted(l, f)
  BY DEF Layers!IsDeleted, LayersP!IsDeleted
<1>3. \A S : Layers!Max(S) = LayersP!Max(S)
  BY DEF Layers!Max, LayersP!Max
<1>4. \A c : Layers!StartIndex(c) = LayersP!StartIndex(c)
  BY Zenon, <1>3 DEF Layers!StartIndex, LayersP!StartIndex
<1>5. \A f : Layers!Deciders(f) = LayersP!Deciders(f)
  BY Zenon, <1>2, <1>4 DEF Layers!Deciders, LayersP!Deciders
<1>6. \A f : Layers!Decider(f) = LayersP!Decider(f)
  BY Zenon, <1>3, <1>5 DEF Layers!Decider, LayersP!Decider
<1>7. \A f : Layers!Present(f) <=> LayersP!Present(f)
  BY Zenon, <1>2, <1>6 DEF Layers!Present, LayersP!Present
<1> QED
  BY <1>1, <1>6, <1>7 DEF Layers!PathOps, LayersP!PathOps

(* Every walk for a path, and with it every stat and open of an application,     *)
(* ends at the topmost layer that decides about it, with the answer its files     *)
(* give, whatever POSIX calls were made and whatever was nested on the way.       *)
THEOREM OverlayHolds == Outside => (AllSpec => OverlayResolved)
<1> SUFFICES ASSUME Outside PROVE AllSpec => Layers!OverlayResolution
  BY DEF OverlayResolved
<1>1. AllSpec => Layers!Spec
  BY RealisesLayers DEF ImplementsLayers
<1>2. Layers!Init => LayersP!Init
  BY SameInit
<1>3. [Layers!Next]_(Layers!vars) => [LayersP!Next]_(LayersP!vars)
  BY SameNext, SamePromise
<1>4. LayersP!Spec => LayersP!OverlayResolution
  BY LayersP!Resolves, LayerAssumption, NameAssumption
<1>5. ASSUME [OutermostRet' # OutermostRet /\ OutermostRet' # Nil =>
                (OutermostRet'.call.op \in LayersP!PathOps /\ ~OutermostRet'.call.failed =>
                   /\ OutermostRet'.by = LayersP!Decider(OutermostRet'.call)
                   /\ OutermostRet'.ok <=> LayersP!Present(OutermostRet'.call))]_(LayersP!vars)
      PROVE  [OutermostRet' # OutermostRet /\ OutermostRet' # Nil =>
                (OutermostRet'.call.op \in Layers!PathOps /\ ~OutermostRet'.call.failed =>
                   /\ OutermostRet'.by = Layers!Decider(OutermostRet'.call)
                   /\ OutermostRet'.ok <=> Layers!Present(OutermostRet'.call))]_(Layers!vars)
  BY <1>5, SamePromise
<1> QED
  BY <1>1, <1>2, <1>3, <1>4, <1>5, PTL
  DEF Layers!Spec, LayersP!Spec, Layers!OverlayResolution, LayersP!OverlayResolution

=============================================================================
