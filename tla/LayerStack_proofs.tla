--------------------------- MODULE LayerStack_proofs ---------------------------
(***************************************************************************)
(* Proofs about LayerStack for any layers, handles and paths: any number of   *)
(* layers that plugins add and remove, any depth of nested calls.             *)
(***************************************************************************)
EXTENDS LayerStack, SequenceTheorems, FiniteSetTheorems, TLAPS

-----------------------------------------------------------------------------
(* The inductive invariant.                                                   *)

Under(l, m) == \E i, j \in 1 .. Len(fsLayers) : i < j /\ fsLayers[i] = l /\ fsLayers[j] = m

Shape ==
  /\ frames \in Seq(Frame)
  /\ held = [h \in AnyHandle |-> held[h]]
  /\ \A i, j \in 1 .. Len(fsLayers) : fsLayers[i] = fsLayers[j] => i = j

(* The tables agree: a layer's handle belongs to a layer in fsLayers, and only  *)
(* an open directory has a parent.                                            *)
TablesOK ==
  /\ \A h \in Handle : owner[h] \in Layer \cup {Nil} /\ (owner[h] \in Layer => InStack(owner[h]))
  /\ \A h \in RealHandle : owner[h] \in {Real, Nil} /\ (owner[h] = Nil => opener[h] = Nil)
  /\ \A h \in isDir : owner[h] # Nil
  /\ \A h \in Handle : parent[h] # Nil => h \in isDir /\ owner[h] \in Merging

(* A handle the application holds is open, unless the call that closes it has   *)
(* closed it and goes on because that failed.                                  *)
Open(h) == /\ owner[h] = held[h].by /\ (h \in isDir <=> held[h].dir)
           /\ h \in RealHandle => opener[h] = Client
HeldOK ==
  \A h \in AnyHandle \ lost : held[h] # Nil =>
    \/ Open(h)
    \/ /\ frames # <<>> /\ frames[1].op \in Closing /\ frames[1].arg = h
       /\ owner[h] = Nil /\ frames[1].failed

(* Nobody else uses the handle.                                                *)
Free(g) == g \notin lost => held[g] = Nil /\ \A h \in Handle : parent[h] # g

(* The directory g can be a parent for layer l: a walk with l's client finds it. *)
Lower(g, l) == g \in isDir /\ \/ owner[g] = Real /\ opener[g] = l
                              \/ owner[g] \in Layer /\ Under(owner[g], l)

ParentOK ==
  \A h \in Handle : parent[h] \notin lost \cup {Nil} =>
    /\ held[parent[h]] = Nil
    /\ \A g \in Handle : parent[g] = parent[h] => g = h
    /\ \/ Lower(parent[h], owner[h])
       \/ \E k \in 1 .. Len(frames) : frames[k].op = "closeDir" /\ frames[k].dir = h

(* The frames on the stack.                                                    *)
Waits(f) ==
  /\ f.i > 0 /\ fsLayers[f.i] \in Merging /\ owner[f.dir] = fsLayers[f.i] /\ f.dir \in isDir
  /\ f.op \in DirOps \cup {"openDir"}
  /\ f.op \in DirOps => f.dir = f.arg /\ parent[f.dir] # Nil
  /\ f.op = "openDir" => parent[f.dir] = Nil /\ Free(f.dir) /\ f.i \in Deciders(f)
FrameOK(f) ==
  /\ f.i <= StartIndex(f.client) /\ (f.op \in PathOps <=> f.arg \in Path)
  /\ f.dir # Nil => Waits(f)
  /\ f.op \in PathOps /\ ~f.failed => \A j \in Deciders(f) : j <= f.i
First(f) ==
  /\ f.client = Client
  /\ f.op \notin PathOps => held[f.arg] # Nil /\ (held[f.arg].dir <=> f.op \in DirOps)
  /\ f.op \notin PathOps /\ f.arg \notin lost /\ held[f.arg].by \in active /\ ~f.failed =>
       \E j \in 1 .. f.i : fsLayers[j] = held[f.arg].by
Nested(f, g) ==
  /\ g.dir # Nil /\ f.client = fsLayers[g.i]
  /\ f.op \in DirOps => f.arg = parent[g.dir]
WalkOK ==
  \A k \in 1 .. Len(frames) :
    /\ FrameOK(frames[k])
    /\ k = 1 => First(frames[k])
    /\ k > 1 => Nested(frames[k], frames[k - 1])
    /\ \A j \in 1 .. k - 1 : frames[k].i < frames[j].i /\ frames[k].op = frames[j].op

(* What a merging layer gets for the directory it opened.                      *)
RetOK ==
  frames # <<>> /\ Top.dir # Nil /\ Top.op = "openDir" /\ ret.ok =>
    ret.h \in AnyHandle /\ Free(ret.h) /\ Lower(ret.h, fsLayers[Top.i])

IInv == TypeOK /\ Shape /\ TablesOK /\ HeldOK /\ ParentOK /\ WalkOK /\ RetOK

-----------------------------------------------------------------------------
(* The layers.                                                                *)


(* A client's walk starts inside fsLayers, and a merging layer's right below it. *)
LEMMA ClientIndex ==
  ASSUME TypeOK, Shape, NEW c
  PROVE  /\ StartIndex(c) \in 0 .. Len(fsLayers)
         /\ \A k \in 1 .. Len(fsLayers) :
              fsLayers[k] \in Merging /\ fsLayers[k] = c => StartIndex(c) = k - 1
         /\ c \notin Layer => StartIndex(c) = Len(fsLayers)
<1> DEFINE own == {k \in 1 .. Len(fsLayers) : fsLayers[k] \in Merging /\ fsLayers[k] = c}
<1>1. Len(fsLayers) \in Nat /\ \A k \in 1 .. Len(fsLayers) : fsLayers[k] \in Layer
  BY DEF TypeOK
<1>2. CASE own = {}
  BY <1>1, <1>2 DEF StartIndex
<1>3. CASE own # {}
  <2>1. PICK m \in own : TRUE
    BY <1>3
  <2>2. own = {m}
    BY <2>1 DEF Shape
  <2>3. Max(own) = m
    BY <1>1, <2>2 DEF Max
  <2>4. StartIndex(c) = m - 1
    BY <1>3, <2>3 DEF StartIndex
  <2> QED
    BY <1>1, <2>1, <2>2, <2>4
<1> QED
  BY <1>2, <1>3

-----------------------------------------------------------------------------
(* The stack of frames.                                                       *)

Unmoved == UNCHANGED <<fsLayers, active, files, lost>>
Lower1  == {frames[j] : j \in 1 .. Len(frames) - 1}

(* A stack in use has one frame or more than one.                           *)
LEMMA OneOrMore == \A n \in Nat \ {0} : n = 1 \/ n > 1
OBVIOUS

(* While the mutex is held there is a frame on top, and what is below it is the rest. *)
LEMMA TopFacts ==
  ASSUME Shape, Locked
  PROVE  /\ Len(frames) \in Nat \ {0} /\ Top = frames[Len(frames)] /\ Top \in Frame
         /\ Below \in Seq(Frame) /\ Len(Below) = Len(frames) - 1
         /\ \A j \in 1 .. Len(frames) - 1 : Below[j] = frames[j] /\ frames[j] \in Frame
<1>1. frames # <<>> /\ frames \in Seq(Frame)
  BY DEF Locked, Shape
<1>2. Len(frames) \in Nat \ {0} /\ \A j \in 1 .. Len(frames) : frames[j] \in Frame
  BY <1>1
<1>3. /\ Below \in Seq(Frame) /\ Len(Below) = Len(frames) - 1
      /\ \A j \in 1 .. Len(frames) - 1 : Below[j] = frames[j]
  <2> DEFINE m == Len(frames) - 1
  <2>1. 1 \in Int /\ m \in Int /\ \A j \in 1 .. m : frames[j] \in Frame
    BY <1>2
  <2>2. Below = SubSeq(frames, 1, m)
    BY DEF Below
  <2> HIDE DEF m
  <2>3. /\ SubSeq(frames, 1, m) \in Seq(Frame)
        /\ Len(SubSeq(frames, 1, m)) = IF 1 <= m THEN m - 1 + 1 ELSE 0
        /\ \A j \in 1 .. m - 1 + 1 : SubSeq(frames, 1, m)[j] = frames[1 + j - 1]
    BY <2>1, SubSeqProperties
  <2>4. m \in Nat
    BY <1>2 DEF m
  <2>5. Len(Below) = m /\ \A j \in 1 .. m : Below[j] = frames[j]
    BY <2>2, <2>3, <2>4
  <2> QED
    BY <2>2, <2>3, <2>5 DEF m
<1> QED
  BY <1>2, <1>3 DEF Top

(* A frame's facts outlast a step that leaves the layers alone, if its wait does. *)
LEMMA FrameKept ==
  ASSUME Unmoved, NEW f, FrameOK(f), f.dir # Nil => Waits(f)'
  PROVE  FrameOK(f)'
<1>1. StartIndex(f.client)' = StartIndex(f.client) /\ Deciders(f)' = Deciders(f)
  BY DEF Unmoved, files, StartIndex, Deciders, IsDeleted
<1> QED
  BY <1>1 DEF FrameOK

(* What holds of every frame but the first, and of the first, when nothing that  *)
(* they rest on has changed.                                                   *)
BelowKept == \A f \in Lower1 : f.dir # Nil => Waits(f)' /\ parent[f.dir]' = parent[f.dir]

(* The frames below the top keep their facts when their waits do.           *)
LEMMA LowerKept ==
  ASSUME Shape, WalkOK, Locked, Unmoved, BelowKept, Len(frames) > 1 => held' = held,
         Len(frames') >= Len(frames) - 1,
         \A j \in 1 .. Len(frames) - 1 : frames[j]' = frames[j]
  PROVE  \A k \in 1 .. Len(frames) - 1 :
           (/\ FrameOK(frames[k])
            /\ k = 1 => First(frames[k])
            /\ k > 1 => Nested(frames[k], frames[k - 1])
            /\ \A j \in 1 .. k - 1 : frames[k].i < frames[j].i /\ frames[k].op = frames[j].op)'
<1> SUFFICES ASSUME NEW k \in 1 .. Len(frames) - 1
             PROVE  (/\ FrameOK(frames[k])
                     /\ k = 1 => First(frames[k])
                     /\ k > 1 => Nested(frames[k], frames[k - 1])
                     /\ \A j \in 1 .. k - 1 : frames[k].i < frames[j].i /\ frames[k].op = frames[j].op)'
  OBVIOUS
<1>1. /\ Len(frames) \in Nat /\ k \in 1 .. Len(frames) /\ Len(frames) > 1 /\ held' = held
      /\ \A j \in 1 .. k : frames[j]' = frames[j] /\ frames[j] \in Lower1 /\ j \in 1 .. Len(frames)
  BY TopFacts DEF Lower1
<1>2. /\ FrameOK(frames[k])
      /\ k = 1 => First(frames[k])
      /\ k > 1 => Nested(frames[k], frames[k - 1])
      /\ \A j \in 1 .. k - 1 : frames[k].i < frames[j].i /\ frames[k].op = frames[j].op
  BY <1>1 DEF WalkOK
<1>3. FrameOK(frames[k])'
  <2>1. PICK f : f = frames[k] /\ f = frames[k]' /\ f \in Lower1 /\ FrameOK(f)
    BY <1>1, <1>2
  <2>2. FrameOK(f)'
    BY <2>1, FrameKept DEF BelowKept
  <2> QED
    BY <2>1, <2>2
<1>4. k = 1 => First(frames[k])'
  BY <1>1, <1>2 DEF First, Unmoved
<1>5. k > 1 => Nested(frames[k], frames[k - 1])'
  <2> SUFFICES ASSUME k > 1 PROVE Nested(frames[k], frames[k - 1])'
    OBVIOUS
  <2>1. /\ frames[k]' = frames[k] /\ frames[k - 1]' = frames[k - 1] /\ frames[k - 1] \in Lower1
        /\ Nested(frames[k], frames[k - 1]) /\ fsLayers' = fsLayers
    BY <1>1, <1>2 DEF Unmoved
  <2> QED
    BY <2>1 DEF Nested, BelowKept
<1> QED
  BY <1>1, <1>2, <1>3, <1>4, <1>5

(* The application's client makes the outermost call only: those inside it are  *)
(* made with a layer's own.                                                   *)
LEMMA WhoseCall ==
  ASSUME Shape, WalkOK, Locked
  PROVE  /\ Len(frames) > 1 => Top.client # Client
         /\ ~(Len(frames) > 1) => Top.client = Client
<1>1. Len(frames) \in Nat \ {0} /\ Top = frames[Len(frames)]
  BY TopFacts
<1>2. ASSUME Len(frames) > 1 PROVE Top.client # Client
  <2>1. /\ Len(frames) \in 1 .. Len(frames) /\ Len(frames) - 1 \in 1 .. Len(frames)
    BY <1>1, <1>2
  <2>2. Nested(frames[Len(frames)], frames[Len(frames) - 1]) /\ FrameOK(frames[Len(frames) - 1])
    BY <1>2, <2>1 DEF WalkOK
  <2> QED
    BY <1>1, <2>2, LayerAssumption, NameAssumption DEF Nested, FrameOK, Waits
<1>3. ASSUME ~(Len(frames) > 1) PROVE Top.client = Client
  <2>1. Len(frames) = 1 /\ 1 \in 1 .. Len(frames)
    BY <1>1, <1>3
  <2> QED
    BY <1>1, <2>1 DEF WalkOK, First
<1> QED
  BY <1>2, <1>3

(* doForLayer returns to the frame below.                                      *)
LEMMA ReturnWalk ==
  ASSUME Shape, WalkOK, Locked, Unmoved, BelowKept,
         NEW by, NEW ok, NEW failed, NEW h, Return(by, ok, failed, h)
  PROVE  /\ WalkOK' /\ frames' \in Seq(Frame) /\ Len(frames') = Len(frames) - 1
         /\ \A j \in 1 .. Len(frames) - 1 : frames[j]' = frames[j]
         /\ Len(frames) > 1 => held' = held
<1>1. /\ frames' = Below /\ Len(frames) \in Nat \ {0} /\ Len(frames') = Len(frames) - 1
      /\ \A j \in 1 .. Len(frames) - 1 : frames[j]' = frames[j]
      /\ frames' \in Seq(Frame)
  BY TopFacts DEF Return
<1>2. Len(frames) > 1 => held' = held
  BY WhoseCall DEF Return, Tell
<1>3. \A k \in 1 .. Len(frames) - 1 :
           (/\ FrameOK(frames[k])
            /\ k = 1 => First(frames[k])
            /\ k > 1 => Nested(frames[k], frames[k - 1])
            /\ \A j \in 1 .. k - 1 : frames[k].i < frames[j].i /\ frames[k].op = frames[j].op)'
  BY <1>1, <1>2, LowerKept
<1> QED
  BY <1>1, <1>2, <1>3 DEF WalkOK

(* The loop goes on with the next layer below.                                 *)
Stepped(failed) == [Top EXCEPT !.i = @ - 1, !.failed = @ \/ failed, !.dir = Nil]

(* The stack after the loop has stepped down.                               *)
LEMMA NextFacts ==
  ASSUME Shape, Locked, Top.i > 0, NEW failed \in BOOLEAN, NextLayer(failed)
  PROVE  /\ frames' \in Seq(Frame) /\ Len(frames') = Len(frames)
         /\ \A j \in 1 .. Len(frames) - 1 : frames[j]' = frames[j]
         /\ frames'[Len(frames)] = Stepped(failed) /\ Stepped(failed) \in Frame
         /\ Top' = Stepped(failed)
<1>1. /\ Len(frames) \in Nat \ {0} /\ frames \in Seq(Frame) /\ Top = frames[Len(frames)]
      /\ Top \in Frame
  BY TopFacts DEF Shape
<1>2. frames' = [frames EXCEPT ![Len(frames)] = Stepped(failed)]
  BY <1>1 DEF NextLayer, Stepped
<1>3. Stepped(failed) \in Frame
  <2>1. PICK b \in BOOLEAN : b = (Top.failed \/ failed)
    BY Zenon
  <2>2. Stepped(failed) = [Top EXCEPT !.i = @ - 1, !.failed = b, !.dir = Nil]
    BY <2>1 DEF Stepped
  <2>3. Top.i - 1 \in Nat
    BY <1>1 DEF Frame
  <2>4. Stepped(failed) = [client |-> Top.client, op |-> Top.op, arg |-> Top.arg, i |-> Top.i - 1,
                           failed |-> b, dir |-> Nil]
    BY <1>1, <2>2 DEF Frame
  <2> QED
    BY <1>1, <2>3, <2>4 DEF Frame
<1> HIDE DEF Stepped
<1>4. /\ frames' \in Seq(Frame) /\ Len(frames') = Len(frames)
      /\ \A j \in 1 .. Len(frames) - 1 : frames[j]' = frames[j]
      /\ frames'[Len(frames)] = Stepped(failed)
  BY <1>1, <1>2, <1>3
<1> QED
  BY <1>3, <1>4 DEF Top

(* Stepping down is right when the layer it leaves neither decides nor is the handle's. *)
LEMMA NextWalk ==
  ASSUME TypeOK, Shape, WalkOK, Locked, Unmoved, BelowKept, held' = held,
         Top.i > 0, NEW failed \in BOOLEAN, NextLayer(failed),
         Top.op \in PathOps /\ ~Top.failed /\ ~failed => Top.i \notin Deciders(Top),
         Len(frames) = 1 /\ Top.op \notin PathOps /\ Top.arg \notin lost /\ held[Top.arg].by \in active
           /\ ~Top.failed /\ ~failed => At # held[Top.arg].by
  PROVE  WalkOK'
<1>0. PICK n, g : n = Len(frames) /\ g = Stepped(failed)
  OBVIOUS
<1>1. /\ n \in Nat \ {0} /\ Top = frames[n] /\ Top \in Frame
      /\ Len(frames') = n /\ frames' \in Seq(Frame)
      /\ \A j \in 1 .. n - 1 : frames[j]' = frames[j] /\ frames[j] \in Frame
      /\ frames[n]' = g
  BY <1>0, TopFacts, NextFacts
<1>2. /\ g.client = Top.client /\ g.op = Top.op /\ g.arg = Top.arg /\ g.dir = Nil
      /\ g.i = Top.i - 1 /\ (g.failed <=> Top.failed \/ failed) /\ Top.i \in Nat
  BY <1>0, <1>1 DEF Stepped, Frame
<1>3. /\ FrameOK(Top)
      /\ n = 1 => First(Top)
      /\ n > 1 => Nested(Top, frames[n - 1])
      /\ \A j \in 1 .. n - 1 : Top.i < frames[j].i /\ Top.op = frames[j].op
  BY <1>0, <1>1 DEF WalkOK
<1>4. FrameOK(g)'
  <2>1. /\ StartIndex(g.client)' = StartIndex(Top.client)
        /\ Deciders(g)' = Deciders(Top)
    BY <1>2 DEF Unmoved, files, StartIndex, Deciders, IsDeleted
  <2>2. StartIndex(Top.client) \in Nat
    BY ClientIndex
  <2>3. Deciders(Top) \subseteq Nat
    BY <2>2 DEF Deciders
  <2>4. g.op \in PathOps /\ ~g.failed => \A j \in Deciders(g)' : j <= g.i
    BY <1>2, <1>3, <2>1, <2>3 DEF FrameOK
  <2> QED
    BY <1>2, <1>3, <2>1, <2>2, <2>4 DEF FrameOK
<1>5. n = 1 => First(g)'
  <2> SUFFICES ASSUME n = 1 PROVE First(g)'
    OBVIOUS
  <2>1. First(Top) /\ UNCHANGED <<fsLayers, active, held, lost>>
    BY <1>3 DEF Unmoved
  <2>2. g.op \notin PathOps /\ g.arg \notin lost /\ held[g.arg].by \in active /\ ~g.failed =>
          \E j \in 1 .. g.i : fsLayers[j] = held[g.arg].by
    BY <1>0, <1>2, <2>1 DEF First, At
  <2> QED
    BY <1>2, <2>1, <2>2 DEF First
<1>6. n > 1 => Nested(g, frames[n - 1])'
  <2> SUFFICES ASSUME n > 1 PROVE Nested(g, frames[n - 1])'
    OBVIOUS
  <2>1. /\ frames[n - 1]' = frames[n - 1] /\ frames[n - 1] \in Lower1 /\ fsLayers' = fsLayers
        /\ Nested(Top, frames[n - 1])
    BY <1>0, <1>1, <1>3 DEF Unmoved, Lower1
  <2> QED
    BY <2>1, <1>2 DEF Nested, BelowKept
<1>7. \A k \in 1 .. n - 1 :
           (/\ FrameOK(frames[k])
            /\ k = 1 => First(frames[k])
            /\ k > 1 => Nested(frames[k], frames[k - 1])
            /\ \A j \in 1 .. k - 1 : frames[k].i < frames[j].i /\ frames[k].op = frames[j].op)'
  BY <1>0, <1>1, LowerKept
<1>8. (\A j \in 1 .. n - 1 : frames[n].i < frames[j].i /\ frames[n].op = frames[j].op)'
  BY <1>1, <1>2, <1>3 DEF Frame
<1> QED
  BY <1>1, <1>4, <1>5, <1>6, <1>7, <1>8 DEF WalkOK

(* A merging layer calls doForLayer again and waits.                           *)
LEMMA NestFacts ==
  ASSUME TypeOK, Shape, Locked, Top.i > 0, At \in Merging, Top.i <= Len(fsLayers),
         NEW op \in Ops, NEW arg \in Path \cup AnyHandle, NEW d \in Handle,
         Nest(op, arg, d)
  PROVE  /\ frames' \in Seq(Frame) /\ Len(frames') = Len(frames) + 1
         /\ \A j \in 1 .. Len(frames) - 1 : frames[j]' = frames[j]
         /\ frames'[Len(frames)] = [Top EXCEPT !.dir = d]
         /\ [Top EXCEPT !.dir = d] \in Frame
         /\ Top' = Call(At, op, arg) /\ frames'[Len(frames) + 1] = Call(At, op, arg)
         /\ StartIndex(At) = Top.i - 1
<1>0. PICK n : n = Len(frames)
  OBVIOUS
<1> DEFINE w == [Top EXCEPT !.dir = d]
           c == Call(At, op, arg)
           s == [frames EXCEPT ![n] = w]
<1>1. n \in Nat \ {0} /\ frames \in Seq(Frame) /\ Top = frames[n] /\ Top \in Frame
  BY <1>0, TopFacts DEF Shape
<1>2. frames' = Append(s, c)
  BY <1>0, <1>1 DEF Nest
<1>3. w \in Frame
  BY <1>1 DEF Frame
<1>4. At \in Layer /\ Top.i \in 1 .. Len(fsLayers)
  BY <1>1 DEF TypeOK, At, Frame
<1>5. StartIndex(At) = Top.i - 1
  BY <1>4, ClientIndex DEF At
<1>6. c \in Frame
  BY <1>1, <1>4, <1>5 DEF Call, Frame
<1> HIDE DEF w, c
<1>7. s \in Seq(Frame) /\ Len(s) = n /\ (\A j \in 1 .. n - 1 : s[j] = frames[j]) /\ s[n] = w
  BY <1>0, <1>1, <1>3
<1> HIDE DEF s
<1>8. /\ frames' \in Seq(Frame) /\ Len(frames') = n + 1
      /\ \A j \in 1 .. n : frames[j]' = s[j]
      /\ frames[n + 1]' = c
  BY <1>1, <1>2, <1>6, <1>7
<1>9. Top' = c
  BY <1>8 DEF Top
<1> QED
  BY <1>0, <1>1, <1>3, <1>5, <1>7, <1>8, <1>9 DEF w, c

(* A nested doForLayer starts with a frame that is right, and leaves one that waits. *)
LEMMA NestWalk ==
  ASSUME TypeOK, Shape, WalkOK, Locked, Unmoved, BelowKept, held' = held,
         NEW op \in Ops, NEW arg \in Path \cup AnyHandle, NEW d \in Handle,
         Nest(op, arg, d), Top.i > 0, At \in Merging, op = Top.op,
         op \in PathOps <=> arg \in Path,
         NEW w, w = [Top EXCEPT !.dir = d], Waits(w)', d # Nil,
         op \in DirOps => arg = parent[d]'
  PROVE  WalkOK'
<1>0. PICK n, c : n = Len(frames) /\ c = Call(At, op, arg)
  OBVIOUS
<1>1. /\ n \in Nat \ {0} /\ Top = frames[n] /\ Top \in Frame
      /\ \A j \in 1 .. n - 1 : frames[j] \in Frame
  BY <1>0, TopFacts
<1>2. /\ FrameOK(Top)
      /\ n = 1 => First(Top)
      /\ n > 1 => Nested(Top, frames[n - 1])
      /\ \A j \in 1 .. n - 1 : Top.i < frames[j].i /\ Top.op = frames[j].op
  BY <1>0, <1>1 DEF WalkOK
<1>3. Top.i <= Len(fsLayers) /\ Len(fsLayers) \in Nat
  BY <1>1, <1>2, ClientIndex DEF FrameOK, Frame, TypeOK
<1>4. /\ Len(frames') = n + 1 /\ frames' \in Seq(Frame)
      /\ \A j \in 1 .. n - 1 : frames[j]' = frames[j]
      /\ frames[n]' = w /\ frames[n + 1]' = c /\ StartIndex(At) = Top.i - 1
  BY <1>0, <1>3, NestFacts
<1>5. /\ w.client = Top.client /\ w.op = Top.op /\ w.arg = Top.arg /\ w.dir = d
      /\ w.i = Top.i /\ w.failed = Top.failed /\ Top.i \in Nat
  BY <1>1 DEF Frame
<1>6. c.client = At /\ c.op = op /\ c.arg = arg /\ c.i = Top.i - 1 /\ c.dir = Nil
  BY <1>0, <1>4 DEF Call
<1>8. FrameOK(w)'
  <2>1. /\ StartIndex(w.client)' = StartIndex(Top.client)
        /\ Deciders(w)' = Deciders(Top)
    BY <1>5 DEF Unmoved, files, StartIndex, Deciders, IsDeleted
  <2> QED
    BY <1>2, <1>5, <2>1 DEF FrameOK
<1>9. FrameOK(c)'
  <2>1. StartIndex(c.client)' = c.i
    BY <1>4, <1>6 DEF Unmoved, StartIndex
  <2>2. \A j \in Deciders(c)' : j <= c.i
    BY <2>1, <1>5, <1>6 DEF Deciders
  <2> QED
    BY <1>5, <1>6, <2>1, <2>2 DEF FrameOK
<1>10. n = 1 => First(w)'
  BY <1>1, <1>2, <1>5 DEF First, Unmoved
<1>11. n > 1 => Nested(w, frames[n - 1])'
  <2> SUFFICES ASSUME n > 1 PROVE Nested(w, frames[n - 1])'
    OBVIOUS
  <2>1. /\ frames[n - 1]' = frames[n - 1] /\ frames[n - 1] \in Lower1 /\ fsLayers' = fsLayers
        /\ Nested(Top, frames[n - 1])
    BY <1>0, <1>1, <1>2, <1>4 DEF Unmoved, Lower1
  <2> QED
    BY <2>1, <1>5 DEF Nested, BelowKept
<1>12. Nested(c, w)'
  BY <1>1, <1>5, <1>6 DEF Nested, Unmoved, At
<1>13. \A k \in 1 .. n - 1 :
           (/\ FrameOK(frames[k])
            /\ k = 1 => First(frames[k])
            /\ k > 1 => Nested(frames[k], frames[k - 1])
            /\ \A j \in 1 .. k - 1 : frames[k].i < frames[j].i /\ frames[k].op = frames[j].op)'
  BY <1>0, <1>1, <1>4, LowerKept
<1>14. (\A j \in 1 .. n - 1 : frames[n].i < frames[j].i /\ frames[n].op = frames[j].op)'
  BY <1>1, <1>2, <1>4, <1>5
<1>15. (\A j \in 1 .. n : frames[n + 1].i < frames[j].i /\ frames[n + 1].op = frames[j].op)'
  <2>1. \A j \in 1 .. n - 1 : frames[j].i \in Nat
    BY <1>1 DEF Frame
  <2>2. \A j \in 1 .. n - 1 : c.i < frames[j].i /\ c.op = frames[j].op
    BY <1>2, <1>5, <1>6, <2>1
  <2>3. c.i < w.i /\ c.op = w.op
    BY <1>5, <1>6
  <2>4. \A j \in 1 .. n : j \in 1 .. n - 1 \/ j = n
    BY <1>1
  <2>5. ASSUME NEW j \in 1 .. n
        PROVE  frames'[n + 1].i < frames'[j].i /\ frames'[n + 1].op = frames'[j].op
    BY <1>4, <2>2, <2>3, <2>4
  <2> QED
    BY <2>5
<1> QED
  <2>1. \A k \in 1 .. n + 1 : k \in 1 .. n - 1 \/ k = n \/ k = n + 1
    BY <1>1
  <2>2. n + 1 > 1 /\ n + 1 - 1 = n /\ n + 1 # 1
    BY <1>1
  <2>3. (/\ FrameOK(frames[n])
         /\ n = 1 => First(frames[n])
         /\ n > 1 => Nested(frames[n], frames[n - 1])
         /\ \A j \in 1 .. n - 1 : frames[n].i < frames[j].i /\ frames[n].op = frames[j].op)'
    <3>1. n > 1 => frames'[n - 1] = frames[n - 1]
      BY <1>1, <1>4
    <3> QED
      BY <1>4, <1>8, <1>10, <1>11, <1>14, <3>1
  <2>4. ASSUME NEW k \in 1 .. n + 1
        PROVE  (/\ FrameOK(frames[k])
                /\ k = 1 => First(frames[k])
                /\ k > 1 => Nested(frames[k], frames[k - 1])
                /\ \A j \in 1 .. k - 1 : frames[k].i < frames[j].i /\ frames[k].op = frames[j].op)'
    <3>1. CASE k \in 1 .. n - 1
      BY <1>13, <3>1
    <3>2. CASE k = n
      BY <2>3, <3>2
    <3>3. CASE k = n + 1
      <4>1. k - 1 = n /\ k # 1 /\ k > 1 /\ frames'[k] = c /\ frames'[k - 1] = w
        BY <1>1, <1>4, <3>3
      <4>2. FrameOK(frames[k])' /\ Nested(frames[k], frames[k - 1])'
        BY <1>9, <1>12, <4>1
      <4>3. (\A j \in 1 .. k - 1 : frames[k].i < frames[j].i /\ frames[k].op = frames[j].op)'
        BY <1>15, <3>3, <4>1
      <4> QED
        BY <4>1, <4>2, <4>3
    <3> QED
      BY <2>1, <3>1, <3>2, <3>3
  <2> QED
    BY <1>4, <2>4 DEF WalkOK

-----------------------------------------------------------------------------
(* What is known of the frame that runs and of those that wait below it.       *)
LEMMA FrameFacts ==
  ASSUME IInv, Locked
  PROVE  /\ Len(frames) \in Nat \ {0} /\ Top = frames[Len(frames)] /\ Top \in Frame
         /\ Len(frames) = 1 \/ Len(frames) > 1
         /\ FrameOK(Top)
         /\ Len(frames) = 1 => First(Top)
         /\ Len(frames) > 1 => Nested(Top, frames[Len(frames) - 1]) /\ frames[Len(frames) - 1] \in Lower1
         /\ Top.i \in Nat /\ Len(fsLayers) \in Nat /\ Top.i <= Len(fsLayers)
         /\ Top.i > 0 => At \in Layer
<1>1. /\ Len(frames) \in Nat \ {0} /\ Top = frames[Len(frames)] /\ Top \in Frame
  BY TopFacts DEF IInv
<1>2. /\ FrameOK(Top)
      /\ Len(frames) = 1 => First(Top)
      /\ Len(frames) > 1 => Nested(Top, frames[Len(frames) - 1]) /\ frames[Len(frames) - 1] \in Lower1
  BY <1>1 DEF IInv, WalkOK, Lower1
<1>3. Top.i \in Nat /\ Len(fsLayers) \in Nat /\ Top.i <= Len(fsLayers)
  <2>1. StartIndex(Top.client) \in 0 .. Len(fsLayers)
    BY ClientIndex DEF IInv
  <2>2. Len(fsLayers) \in Nat
    BY DEF IInv, TypeOK
  <2> QED
    BY <1>1, <1>2, <2>1, <2>2 DEF FrameOK, Frame
<1>4. Top.i > 0 => At \in Layer
  BY <1>3 DEF At, IInv, TypeOK
<1>5. Len(frames) = 1 \/ Len(frames) > 1
  BY <1>1, OneOrMore
<1> QED
  BY <1>1, <1>2, <1>3, <1>4, <1>5

(* A frame below the top waits with a directory of a layer above the top's index. *)
LEMMA LowerFacts ==
  ASSUME IInv, Locked, NEW f \in Lower1
  PROVE  /\ Len(frames) > 1 /\ f \in Frame /\ f.dir \in Handle /\ f.dir # Nil /\ Waits(f)
         /\ f.i > Top.i /\ f.i \in 1 .. Len(fsLayers) /\ f.op = Top.op
         /\ owner[f.dir] \in Layer /\ (Top.i > 0 => owner[f.dir] # At)
<1>1. PICK j \in 1 .. Len(frames) - 1 : f = frames[j]
  BY DEF Lower1
<1>2. /\ Len(frames) \in Nat /\ Len(frames) > 1 /\ j \in 1 .. Len(frames) /\ j + 1 \in 1 .. Len(frames)
      /\ j + 1 > 1 /\ j + 1 - 1 = j /\ f \in Frame
  BY <1>1, TopFacts DEF IInv
<1>3. FrameOK(f) /\ f.dir # Nil
  BY <1>1, <1>2 DEF IInv, WalkOK, Nested
<1>4. f.i > Top.i /\ f.op = Top.op
  BY <1>1, <1>2, FrameFacts DEF IInv, WalkOK
<1>5. Waits(f) /\ f.dir \in Handle
  BY <1>2, <1>3 DEF FrameOK, Frame
<1>6. f.i \in 1 .. Len(fsLayers)
  <2>1. StartIndex(f.client) \in 0 .. Len(fsLayers)
    BY ClientIndex DEF IInv
  <2>2. Len(fsLayers) \in Nat
    BY DEF IInv, TypeOK
  <2> QED
    BY <1>2, <1>3, <1>5, <2>1, <2>2 DEF FrameOK, Waits, Frame
<1>7. owner[f.dir] = fsLayers[f.i] /\ owner[f.dir] \in Layer
  BY <1>5, <1>6 DEF Waits, IInv, TypeOK
<1>8. Top.i > 0 => owner[f.dir] # At
  BY <1>4, <1>6, <1>7, FrameFacts DEF IInv, Shape, At
<1> QED
  BY <1>1, <1>2, <1>3, <1>4, <1>5, <1>6, <1>7, <1>8

(* A merging layer that waits has its own directory open.                   *)
LEMMA WaiterFacts ==
  ASSUME IInv, Locked, Top.dir # Nil
  PROVE  /\ Waits(Top) /\ Top.dir \in Handle /\ owner[Top.dir] = At /\ At \in Merging /\ At \in Layer
         /\ Top.i \in 1 .. Len(fsLayers) /\ Top.dir \in isDir /\ Top.op \in DirOps \cup {"openDir"}
         /\ Top.op \in DirOps => Top.arg = Top.dir /\ parent[Top.dir] # Nil
<1>1. Waits(Top) /\ Top.dir \in Handle
  BY FrameFacts DEF FrameOK, Frame
<1> QED
  BY <1>1, FrameFacts DEF Waits, At

(* The frames that wait are as before when their own directories are.          *)
LEMMA BelowStays ==
  ASSUME IInv, Locked, Unmoved, Len(frames) > 1 => held' = held,
         \A f \in Lower1 :
           /\ owner'[f.dir] = owner[f.dir] /\ f.dir \in isDir' /\ parent'[f.dir] = parent[f.dir]
           /\ f.op = "openDir" /\ f.dir \notin lost =>
                \A h \in Handle : parent'[h] = f.dir => parent[h] = f.dir
  PROVE  BelowKept
<1> SUFFICES ASSUME NEW f \in Lower1
             PROVE  Waits(f)' /\ parent[f.dir]' = parent[f.dir]
  BY DEF BelowKept
<1>1. Waits(f) /\ held' = held
  BY LowerFacts
<1>2. Deciders(f)' = Deciders(f)
  BY DEF Unmoved, files, StartIndex, Deciders, IsDeleted
<1>3. f.op = "openDir" => Free(f.dir)'
  BY <1>1 DEF Waits, Free, Unmoved
<1>4. fsLayers' = fsLayers
  BY DEF Unmoved
<1> QED
  BY <1>1, <1>2, <1>3, <1>4 DEF Waits

-----------------------------------------------------------------------------
(* What the application holds after doForLayer has returned to the wrapper.    *)
HeldTyped == /\ held = [g \in AnyHandle |-> held[g]]
             /\ \A g \in AnyHandle : held[g] # Nil => held[g].by \in Layer \cup {Real}

(* A handle operation has a handle for argument.                            *)
LEMMA ArgFacts ==
  ASSUME IInv, Locked, Top.op \notin PathOps
  PROVE  Top.arg \in AnyHandle /\ Top.arg # Nil /\ (Top.arg \in Handle => Top.arg \notin RealHandle)
BY FrameFacts, NameAssumption DEF FrameOK, Frame, AnyHandle

(* The application's handles after a return, whoever answered.              *)
LEMMA ReturnHeld ==
  ASSUME IInv, Locked, NEW by \in Layer \cup {Real}, NEW ok, NEW h,
         Tell(by, ok, h), Top.op \in Opening /\ ok => h \in AnyHandle
  PROVE  /\ HeldTyped'
         /\ Len(frames) > 1 => held' = held
         /\ Len(frames) = 1 /\ Top.op \in Opening /\ ok =>
              \A g \in AnyHandle : held'[g] = IF g = h THEN Received(by) ELSE held[g]
         /\ ~(Top.op \in Opening /\ ok) => \A g \in AnyHandle : held'[g] = held[g] \/ held'[g] = Nil
         /\ Len(frames) = 1 /\ Top.op \in Closing => held'[Top.arg] = Nil
<1>1. HeldTyped /\ Len(frames) \in Nat \ {0} /\ Opening \cap Closing = {}
  BY FrameFacts DEF IInv, Shape, TypeOK, HeldTyped, Opening, Closing
<1>2. CASE Len(frames) > 1
  <2>1. held' = held
    BY <1>2, WhoseCall DEF Tell, IInv
  <2>2. HeldTyped'
    BY <1>1, <2>1 DEF HeldTyped, AnyHandle
  <2>3. ~(Len(frames) = 1)
    <3> DEFINE n == Len(frames)
    <3>1. n \in Nat /\ n > 1
      BY <1>1, <1>2
    <3> HIDE DEF n
    <3>2. n # 1
      BY <3>1
    <3> QED
      BY <3>2 DEF n
  <2> QED
    BY <2>1, <2>2, <2>3, Zenon
<1>3. CASE Len(frames) = 1 /\ Top.op \in Opening /\ ok
  <2>1. held' = [held EXCEPT ![h] = Received(by)]
    <3>1. ~(Len(frames) > 1) /\ Top.client = Client
      BY <1>3, WhoseCall DEF IInv
    <3>2. held' = CASE Top.op \in Opening /\ ok -> [held EXCEPT ![h] = Received(by)]
                     [] Top.op \in Closing -> [held EXCEPT ![Top.arg] = Nil]
                     [] OTHER -> held
      BY <3>1 DEF Tell
    <3>3. ~(Top.op \in Closing)
      BY <1>1, <1>3
    <3> QED
      BY <1>3, <3>2, <3>3
  <2>2. \A g \in AnyHandle : held'[g] = IF g = h THEN Received(by) ELSE held[g]
    BY <1>1, <2>1 DEF HeldTyped
  <2>3. held' = [g \in AnyHandle |-> held'[g]]
    BY <1>1, <2>1 DEF HeldTyped
  <2>4. \A g \in AnyHandle : held'[g] # Nil => held'[g].by \in Layer \cup {Real}
    BY <1>1, <2>2 DEF HeldTyped, Received
  <2> QED
    BY <1>1, <1>3, <2>2, <2>3, <2>4 DEF HeldTyped
<1>4. CASE Len(frames) = 1 /\ ~(Top.op \in Opening /\ ok) /\ Top.op \in Closing
  <2>1. held' = [held EXCEPT ![Top.arg] = Nil]
    BY <1>4, WhoseCall DEF Tell, IInv
  <2>2. Top.arg \in AnyHandle
    BY <1>4, ArgFacts DEF Closing, PathOps
  <2>3. \A g \in AnyHandle : held'[g] = IF g = Top.arg THEN Nil ELSE held[g]
    BY <1>1, <2>1 DEF HeldTyped
  <2>4. held' = [g \in AnyHandle |-> held'[g]]
    BY <1>1, <2>1 DEF HeldTyped
  <2> QED
    BY <1>1, <1>4, <2>2, <2>3, <2>4 DEF HeldTyped
<1>5. CASE Len(frames) = 1 /\ ~(Top.op \in Opening /\ ok) /\ Top.op \notin Closing
  <2>1. held' = held
    BY <1>5, WhoseCall DEF Tell, IInv
  <2> QED
    BY <1>1, <1>5, <2>1 DEF HeldTyped
<1>6. Len(frames) = 1 \/ Len(frames) > 1
  BY FrameFacts
<1> QED
  BY <1>2, <1>3, <1>4, <1>5, <1>6, Zenon

-----------------------------------------------------------------------------
(* Steps on the tables.  After is what the rest of the step must do: the frames *)
(* below stay, only the first frame gives or takes the application a handle.    *)

TablesTyped ==
  /\ owner \in [AnyHandle -> Layer \cup {Real, Nil}] /\ isDir \subseteq AnyHandle
  /\ opener \in [RealHandle -> Layer \cup {Client, Nil}]
  /\ parent \in [Handle -> AnyHandle \cup {Nil}]

FramesStay ==
  /\ frames' \in Seq(Frame) /\ Len(frames') >= Len(frames) - 1
  /\ \A j \in 1 .. Len(frames) - 1 : frames'[j] = frames[j]

(* The first frame goes on with the same call.                                 *)
FirstGoesOn == /\ Len(frames') >= 1 /\ frames'[1].op = Top.op /\ frames'[1].arg = Top.arg
               /\ Top.failed => frames'[1].failed

(* Nothing in the tables changes.                                              *)
LEMMA SameStep ==
  ASSUME IInv, Locked, Unmoved, UNCHANGED tables, FramesStay,
         Len(frames) > 1 => held' = held,
         \A g \in AnyHandle : held'[g] = held[g] \/ held'[g] = Nil,
         Len(frames) = 1 /\ Top.op \in Closing => FirstGoesOn \/ held'[Top.arg] = Nil,
         Top.op = "closeDir" => Top.dir = Nil
  PROVE  TablesTyped' /\ TablesOK' /\ HeldOK' /\ ParentOK' /\ BelowKept
<1>1. UNCHANGED <<fsLayers, lost, owner, isDir, opener, parent>>
  BY DEF Unmoved, tables
<1>2. /\ Len(frames) \in Nat \ {0} /\ Top = frames[Len(frames)] /\ frames' \in Seq(Frame)
      /\ Len(frames') >= Len(frames) - 1
      /\ \A j \in 1 .. Len(frames) - 1 : frames'[j] = frames[j]
  BY FrameFacts DEF FramesStay
<1>3. TablesTyped' /\ TablesOK'
  BY <1>1 DEF IInv, TypeOK, TablesTyped, TablesOK, InStack
<1>4. HeldOK'
  <2> SUFFICES ASSUME NEW h \in AnyHandle \ lost, held'[h] # Nil
               PROVE  \/ Open(h)'
                      \/ /\ frames' # <<>> /\ frames'[1].op \in Closing /\ frames'[1].arg = h
                         /\ owner'[h] = Nil /\ frames'[1].failed
    BY <1>1 DEF HeldOK
  <2>1. held'[h] = held[h] /\ held[h] # Nil
    OBVIOUS
  <2>2. CASE Open(h)
    BY <1>1, <2>1, <2>2 DEF Open
  <2>3. CASE /\ frames # <<>> /\ frames[1].op \in Closing /\ frames[1].arg = h
             /\ owner[h] = Nil /\ frames[1].failed
    <3>1. CASE Len(frames) = 1
      BY <1>1, <1>2, <2>3, <3>1 DEF FirstGoesOn
    <3>2. CASE Len(frames) > 1
      BY <1>1, <1>2, <2>3, <3>2
    <3>3. Len(frames) = 1 \/ Len(frames) > 1
      BY FrameFacts
    <3> QED
      BY <3>1, <3>2, <3>3, Zenon
  <2> QED
    BY <2>1, <2>2, <2>3 DEF IInv, HeldOK
<1>5. ParentOK'
  <2> SUFFICES ASSUME NEW h \in Handle, parent[h] \notin lost \cup {Nil}
               PROVE  /\ held'[parent[h]] = Nil
                      /\ \A g \in Handle : parent[g] = parent[h] => g = h
                      /\ \/ Lower(parent[h], owner[h])'
                         \/ \E k \in 1 .. Len(frames') : frames'[k].op = "closeDir" /\ frames'[k].dir = h
    BY <1>1 DEF ParentOK
  <2>1. /\ held[parent[h]] = Nil
        /\ \A g \in Handle : parent[g] = parent[h] => g = h
        /\ \/ Lower(parent[h], owner[h])
           \/ \E k \in 1 .. Len(frames) : frames[k].op = "closeDir" /\ frames[k].dir = h
    BY DEF IInv, ParentOK
  <2>2. held'[parent[h]] = Nil
    BY <2>1 DEF IInv, TypeOK
  <2>3. CASE Lower(parent[h], owner[h])
    BY <1>1, <2>1, <2>2, <2>3 DEF Lower, Under
  <2>4. ASSUME NEW k \in 1 .. Len(frames), frames[k].op = "closeDir", frames[k].dir = h
        PROVE  \E m \in 1 .. Len(frames') : frames'[m].op = "closeDir" /\ frames'[m].dir = h
    <3>1. h # Nil
      BY NameAssumption DEF AnyHandle
    <3>2. k # Len(frames)
      BY <1>2, <2>4, <3>1
    <3> QED
      BY <1>2, <2>4, <3>2
  <2> QED
    BY <2>1, <2>2, <2>3, <2>4
<1>6. BelowKept
  BY <1>1, LowerFacts, BelowStays DEF Waits
<1> QED
  BY <1>3, <1>4, <1>5, <1>6

(* The handle of a closing call, open in a layer or on the console, is closed.   *)
LEMMA CloseStep ==
  ASSUME IInv, Locked, Unmoved, FramesStay, Top.op \in Closing,
         NEW x, x = Top.arg, owner[x] # Nil, owner[x] = Real \/ (Top.i > 0 /\ owner[x] = At),
         owner' = [owner EXCEPT ![x] = Nil], isDir' = isDir \ {x},
         parent' = [parent EXCEPT ![x] = Nil],
         opener' = opener \/ opener' = [opener EXCEPT ![x] = Nil],
         owner[x] = Real => opener' = [opener EXCEPT ![x] = Nil],
         Len(frames) > 1 => held' = held,
         \A g \in AnyHandle : held'[g] = held[g] \/ held'[g] = Nil,
         Len(frames) = 1 => (FirstGoesOn /\ frames'[1].failed) \/ held'[x] = Nil
  PROVE  TablesTyped' /\ TablesOK' /\ HeldOK' /\ ParentOK' /\ BelowKept
<1>1. /\ fsLayers' = fsLayers /\ lost' = lost
      /\ Len(frames) \in Nat \ {0} /\ Top = frames[Len(frames)] /\ frames' \in Seq(Frame)
      /\ Len(frames') >= Len(frames) - 1
      /\ \A j \in 1 .. Len(frames) - 1 : frames'[j] = frames[j]
      /\ Len(frames) = 1 \/ Len(frames) > 1
  BY FrameFacts DEF Unmoved, FramesStay
<1>2. x \in AnyHandle /\ x # Nil
  BY ArgFacts DEF Closing, PathOps
<1>3. TablesTyped /\ TablesOK
  BY DEF IInv, TypeOK, TablesTyped
<1>4. TablesTyped'
  BY <1>2, <1>3 DEF TablesTyped
<1>5. /\ \A h \in AnyHandle : owner'[h] = IF h = x THEN Nil ELSE owner[h]
      /\ \A h \in Handle : parent'[h] = IF h = x THEN Nil ELSE parent[h]
      /\ \A h \in RealHandle : h # x => opener'[h] = opener[h]
      /\ \A h \in RealHandle : h = x => owner[x] = Real /\ opener'[h] = Nil
  <2>1. \A h \in RealHandle : owner[h] \in {Real, Nil}
    BY <1>3 DEF TablesOK
  <2> QED
    BY <1>2, <1>3, <2>1 DEF TablesTyped
<1>6. TablesOK'
  <2>1. \A h \in Handle : owner'[h] \in Layer \cup {Nil} /\ (owner'[h] \in Layer => InStack(owner'[h]))
    BY <1>3, <1>5, NameAssumption DEF TablesOK, AnyHandle
  <2>2. \A h \in RealHandle : owner'[h] \in {Real, Nil} /\ (owner'[h] = Nil => opener'[h] = Nil)
    BY <1>3, <1>5 DEF TablesOK, AnyHandle
  <2>3. \A h \in isDir' : owner'[h] # Nil
    BY <1>3, <1>5 DEF TablesOK, TablesTyped
  <2>4. \A h \in Handle : parent'[h] # Nil => h \in isDir' /\ owner'[h] \in Merging
    BY <1>3, <1>5 DEF TablesOK, AnyHandle
  <2> QED
    BY <1>1, <2>1, <2>2, <2>3, <2>4 DEF TablesOK, InStack
<1>7. ASSUME Len(frames) > 1 PROVE HeldOK' /\ ParentOK'
  <2>1. PICK g \in Lower1 : /\ g = frames[Len(frames) - 1] /\ g.dir # Nil /\ Waits(g) /\ g.op = Top.op
                            /\ g.dir \in Handle /\ x = parent[g.dir] /\ g.op = "closeDir"
    <3>1. PICK g \in Lower1 : g = frames[Len(frames) - 1] /\ Nested(Top, g)
      BY <1>7, FrameFacts
    <3>2. g.dir # Nil /\ Waits(g) /\ g.op = Top.op /\ g.dir \in Handle
      BY LowerFacts
    <3>3. g.op = "closeDir"
      BY <3>2 DEF Waits, Closing, DirOps
    <3> QED
      BY <3>1, <3>2, <3>3 DEF Nested, DirOps
  <2>2. x \notin lost => held[x] = Nil /\ \A h \in Handle : parent[h] = x => h = g.dir
    BY <1>2, <2>1 DEF IInv, ParentOK
  <2>3. HeldOK'
    <3> SUFFICES ASSUME NEW h \in AnyHandle \ lost, held'[h] # Nil
                 PROVE  \/ Open(h)'
                        \/ /\ frames' # <<>> /\ frames'[1].op \in Closing /\ frames'[1].arg = h
                           /\ owner'[h] = Nil /\ frames'[1].failed
      BY <1>1 DEF HeldOK
    <3>1. held' = held /\ h # x
      BY <1>7, <2>2
    <3>2. CASE Open(h)
      BY <1>5, <3>1, <3>2 DEF Open
    <3>3. CASE /\ frames # <<>> /\ frames[1].op \in Closing /\ frames[1].arg = h
               /\ owner[h] = Nil /\ frames[1].failed
      <4>1. frames'[1] = frames[1] /\ frames' # <<>>
        BY <1>1, <1>7
      <4> QED
        BY <1>5, <3>1, <3>3, <4>1
    <3> QED
      BY <3>1, <3>2, <3>3 DEF IInv, HeldOK
  <2>4. ParentOK'
    <3> SUFFICES ASSUME NEW h \in Handle, parent'[h] \notin lost \cup {Nil}
                 PROVE  /\ held'[parent'[h]] = Nil
                        /\ \A y \in Handle : parent'[y] = parent'[h] => y = h
                        /\ \/ Lower(parent[h], owner[h])'
                           \/ \E k \in 1 .. Len(frames') : frames'[k].op = "closeDir" /\ frames'[k].dir = h
      BY <1>1 DEF ParentOK
    <3>1. parent'[h] = parent[h] /\ h # x /\ parent[h] \notin lost \cup {Nil} /\ parent[h] \in AnyHandle
      BY <1>3, <1>5 DEF TablesTyped
    <3>2. /\ held[parent[h]] = Nil
          /\ \A y \in Handle : parent[y] = parent[h] => y = h
          /\ \/ Lower(parent[h], owner[h])
             \/ \E k \in 1 .. Len(frames) : frames[k].op = "closeDir" /\ frames[k].dir = h
      BY <3>1 DEF IInv, ParentOK
    <3>3. held'[parent'[h]] = Nil /\ \A y \in Handle : parent'[y] = parent'[h] => y = h
      BY <1>5, <1>7, <3>1, <3>2
    <3>4. CASE parent[h] = x
      BY <1>1, <1>7, <2>1, <2>2, <3>1, <3>3, <3>4
    <3>5. CASE parent[h] # x /\ Lower(parent[h], owner[h])
      <4>1. PICK p, o : p = parent[h] /\ o = owner[h]
        OBVIOUS
      <4>2. owner'[h] = o /\ parent'[h] = p /\ p # x /\ p \in AnyHandle /\ Lower(p, o)
        BY <1>5, <3>1, <3>5, <4>1 DEF AnyHandle
      <4>3. p \in RealHandle => opener'[p] = opener[p]
        BY <1>5, <4>2
      <4>4. owner[p] = Real => p \in RealHandle
        BY <1>3, <4>2, NameAssumption DEF TablesOK, AnyHandle
      <4>5. Lower(p, o)'
        BY <1>1, <1>5, <4>2, <4>3, <4>4 DEF Lower, Under
      <4> QED
        BY <3>3, <4>2, <4>5
    <3>6. ASSUME NEW k \in 1 .. Len(frames), frames[k].op = "closeDir", frames[k].dir = h
          PROVE  \E m \in 1 .. Len(frames') : frames'[m].op = "closeDir" /\ frames'[m].dir = h
      <4>1. h # Nil
        BY NameAssumption DEF AnyHandle
      <4>2. k # Len(frames)
        <5>1. SUFFICES ASSUME k = Len(frames) PROVE FALSE
          OBVIOUS
        <5>2. Top.dir = h /\ Top.dir # Nil /\ Top.op \in DirOps
          BY <1>1, <3>6, <4>1, <5>1 DEF DirOps
        <5> QED
          BY <3>1, <5>2, WaiterFacts
      <4> QED
        BY <1>1, <3>6, <4>2
    <3> QED
      BY <3>2, <3>3, <3>4, <3>5, <3>6
  <2> QED
    BY <2>3, <2>4
<1>8. ASSUME Len(frames) = 1 PROVE HeldOK' /\ ParentOK'
  <2>1. First(Top) /\ held[x] # Nil
    BY <1>8, FrameFacts DEF First, Closing, PathOps
  <2>2. HeldOK'
    <3> SUFFICES ASSUME NEW h \in AnyHandle \ lost, held'[h] # Nil
                 PROVE  \/ Open(h)'
                        \/ /\ frames' # <<>> /\ frames'[1].op \in Closing /\ frames'[1].arg = h
                           /\ owner'[h] = Nil /\ frames'[1].failed
      BY <1>1 DEF HeldOK
    <3>1. held'[h] = held[h] /\ held[h] # Nil
      OBVIOUS
    <3>2. CASE h = x
      BY <1>1, <1>2, <1>5, <1>8, <3>1, <3>2 DEF FirstGoesOn
    <3>3. CASE h # x
      <4>1. Open(h)
        BY <1>1, <1>8, <3>1, <3>3 DEF IInv, HeldOK
      <4> QED
        BY <1>5, <3>1, <3>3, <4>1 DEF Open
    <3> QED
      BY <3>2, <3>3
  <2>3. ParentOK'
    <3> SUFFICES ASSUME NEW h \in Handle, parent'[h] \notin lost \cup {Nil}
                 PROVE  /\ held'[parent'[h]] = Nil
                        /\ \A y \in Handle : parent'[y] = parent'[h] => y = h
                        /\ Lower(parent[h], owner[h])'
      BY <1>1 DEF ParentOK
    <3>1. parent'[h] = parent[h] /\ h # x /\ parent[h] \notin lost \cup {Nil} /\ parent[h] \in AnyHandle
      BY <1>3, <1>5 DEF TablesTyped
    <3>2. /\ held[parent[h]] = Nil
          /\ \A y \in Handle : parent[y] = parent[h] => y = h
          /\ \/ Lower(parent[h], owner[h])
             \/ \E k \in 1 .. Len(frames) : frames[k].op = "closeDir" /\ frames[k].dir = h
      BY <3>1 DEF IInv, ParentOK
    <3>3. held'[parent'[h]] = Nil /\ \A y \in Handle : parent'[y] = parent'[h] => y = h
      BY <1>5, <3>1, <3>2
    <3>4. Lower(parent[h], owner[h])
      <4>1. ASSUME NEW k \in 1 .. Len(frames), frames[k].op = "closeDir", frames[k].dir = h
            PROVE  FALSE
        <5>1. h # Nil
          BY NameAssumption DEF AnyHandle
        <5>2. Top.dir = h /\ Top.dir # Nil /\ Top.op \in DirOps
          BY <1>1, <1>8, <4>1, <5>1 DEF DirOps
        <5> QED
          BY <3>1, <5>2, WaiterFacts
      <4> QED
        BY <3>2, <4>1
    <3>5. Lower(parent[h], owner[h])'
      <4>1. PICK p, o : p = parent[h] /\ o = owner[h]
        OBVIOUS
      <4>2. owner'[h] = o /\ parent'[h] = p /\ p # x /\ p \in AnyHandle /\ Lower(p, o)
        BY <1>5, <2>1, <3>1, <3>2, <3>4, <4>1 DEF AnyHandle
      <4>3. p \in RealHandle => opener'[p] = opener[p]
        BY <1>5, <4>2
      <4>4. owner[p] = Real => p \in RealHandle
        BY <1>3, <4>2, NameAssumption DEF TablesOK, AnyHandle
      <4>5. Lower(p, o)'
        BY <1>1, <1>5, <4>2, <4>3, <4>4 DEF Lower, Under
      <4> QED
        BY <4>2, <4>5
    <3> QED
      BY <3>3, <3>5
  <2> QED
    BY <2>2, <2>3
<1>9. BelowKept
  <2>1. ASSUME NEW f \in Lower1
        PROVE  owner'[f.dir] = owner[f.dir] /\ f.dir \in isDir' /\ parent'[f.dir] = parent[f.dir]
    <3>1. /\ f.dir \in Handle /\ Waits(f) /\ owner[f.dir] \in Layer
          /\ Top.i > 0 => owner[f.dir] # At
      BY LowerFacts
    <3>2. f.dir # x
      BY <3>1, NameAssumption
    <3> QED
      BY <1>5, <3>1, <3>2 DEF Waits, AnyHandle
  <2>2. \A h, y \in Handle : parent'[h] = y => parent[h] = y
    <3>1. \A y \in Handle : y # Nil
      BY NameAssumption DEF AnyHandle
    <3> QED
      BY <1>5, <3>1
  <2> QED
    BY <2>1, <2>2, LowerFacts, BelowStays
<1> QED
  BY <1>1, <1>4, <1>6, <1>7, <1>8, <1>9

(* A nested doForLayer has the command of the one it is nested in.          *)
LEMMA SameOps ==
  ASSUME IInv, Locked
  PROVE  \A k \in 1 .. Len(frames) : frames[k].op = Top.op
BY FrameFacts DEF IInv, WalkOK

(* While handles are opened, none is half closed.                              *)
LEMMA NobodyCloses ==
  ASSUME IInv, Locked, Top.op \notin Closing
  PROVE  /\ \A h \in AnyHandle \ lost : held[h] # Nil => Open(h)
         /\ \A h \in Handle : parent[h] \notin lost \cup {Nil} =>
              /\ held[parent[h]] = Nil
              /\ \A g \in Handle : parent[g] = parent[h] => g = h
              /\ Lower(parent[h], owner[h])
<1>1. \A k \in 1 .. Len(frames) : frames[k].op \notin Closing
  BY SameOps
<1>2. frames # <<>> => 1 \in 1 .. Len(frames)
  BY FrameFacts
<1>3. \A h \in AnyHandle \ lost : held[h] # Nil => Open(h)
  BY <1>1, <1>2 DEF IInv, HeldOK
<1>4. "closeDir" \in Closing
  BY DEF Closing
<1> QED
  BY <1>1, <1>3, <1>4 DEF IInv, ParentOK

(* A handle that is not open is nobody's.                                      *)
LEMMA FreshIsFree ==
  ASSUME IInv, Locked, Top.op \notin Closing, NEW x \in AnyHandle, owner[x] = Nil
  PROVE  Free(x) /\ x \notin isDir /\ \A h \in Handle : h = x => parent[h] = Nil
<1>1. x \notin isDir /\ \A h \in Handle : h = x => parent[h] = Nil
  BY DEF IInv, TablesOK
<1>2. x \notin lost => held[x] = Nil
  <2>1. held[x] # Nil => held[x].by # Nil
    BY NameAssumption DEF IInv, TypeOK
  <2> QED
    BY <2>1, NobodyCloses DEF Open
<1>3. x \notin lost => \A h \in Handle : parent[h] # x
  <2>1. x # Nil
    BY NameAssumption DEF AnyHandle
  <2> QED
    BY <1>1, <2>1, NobodyCloses DEF Lower
<1> QED
  BY <1>1, <1>2, <1>3 DEF Free

(* What is noted of a new handle is who gave it and what it is.             *)
LEMMA ReceivedFields ==
  \A o : Received(o).by = o /\ (Received(o).dir <=> Top.op = "openDir")
<1> SUFFICES ASSUME NEW o PROVE Received(o).by = o /\ (Received(o).dir <=> Top.op = "openDir")
  OBVIOUS
<1>1. PICK b \in BOOLEAN : b = (Top.op = "openDir")
  BY Zenon
<1>2. Received(o) = [by |-> o, dir |-> b]
  BY <1>1, Zenon DEF Received
<1>3. Received(o).by = o /\ Received(o).dir = b
  BY <1>2
<1> QED
  BY <1>1, <1>3, Zenon

(* A new handle, of the layer that is asked or of the console.                  *)
LEMMA ClaimStep ==
  ASSUME IInv, Locked, Unmoved, FramesStay, Top.op \in Opening,
         NEW x \in AnyHandle, NEW o, owner[x] = Nil,
         \/ x \in Handle /\ Top.i > 0 /\ o = At /\ opener' = opener
         \/ x \in RealHandle /\ o = Real /\ opener' = [opener EXCEPT ![x] = Top.client],
         owner' = [owner EXCEPT ![x] = o], parent' = parent,
         isDir' = IF Top.op = "openDir" THEN isDir \cup {x} ELSE isDir,
         held' = held \/ Tell(o, TRUE, x)
  PROVE  TablesTyped' /\ TablesOK' /\ HeldOK' /\ ParentOK' /\ BelowKept
<1>1. /\ fsLayers' = fsLayers /\ lost' = lost
      /\ Len(frames) \in Nat \ {0} /\ Top = frames[Len(frames)]
      /\ Len(frames) = 1 \/ Len(frames) > 1
      /\ Top.op \notin Closing
  BY FrameFacts DEF Unmoved, Opening, Closing
<1>2. /\ Free(x) /\ x \notin isDir /\ \A h \in Handle : h = x => parent[h] = Nil
  BY <1>1, FreshIsFree
<1>3. TablesTyped /\ TablesOK
  BY DEF IInv, TypeOK, TablesTyped
<1>4. o \in Layer \cup {Real} /\ o # Nil /\ (o \in Layer => InStack(o)) /\ Top.client \in Layer \cup {Client}
  <2>1. Top.i > 0 => At \in Layer /\ Top.i \in 1 .. Len(fsLayers)
    BY FrameFacts
  <2>2. Top.client \in Layer \cup {Client}
    BY FrameFacts DEF Frame
  <2> QED
    BY <2>1, <2>2, NameAssumption DEF InStack, At
<1>5. /\ \A h \in AnyHandle : owner'[h] = IF h = x THEN o ELSE owner[h]
      /\ \A h \in RealHandle : h # x => opener'[h] = opener[h]
      /\ \A h \in RealHandle : h = x => opener'[h] = Top.client /\ o = Real
      /\ \A h : h # x => (h \in isDir' <=> h \in isDir)
  BY <1>3, NameAssumption DEF TablesTyped
<1>6. TablesTyped'
  BY <1>3, <1>4 DEF TablesTyped, AnyHandle
<1>7. TablesOK'
  <2>1. \A h \in Handle : owner'[h] \in Layer \cup {Nil} /\ (owner'[h] \in Layer => InStack(owner'[h]))
    BY <1>3, <1>4, <1>5, NameAssumption, FrameFacts DEF TablesOK, AnyHandle
  <2>2. \A h \in RealHandle : owner'[h] \in {Real, Nil} /\ (owner'[h] = Nil => opener'[h] = Nil)
    BY <1>3, <1>4, <1>5 DEF TablesOK, AnyHandle
  <2>3. \A h \in isDir' : owner'[h] # Nil
    BY <1>3, <1>4, <1>5 DEF TablesOK, TablesTyped
  <2>4. \A h \in Handle : parent'[h] # Nil => h \in isDir' /\ owner'[h] \in Merging
    BY <1>2, <1>3, <1>5 DEF TablesOK, AnyHandle
  <2> QED
    BY <1>1, <2>1, <2>2, <2>3, <2>4 DEF TablesOK, InStack
<1>8. \A g \in AnyHandle : held'[g] = held[g] \/ (g = x /\ Len(frames) = 1 /\ held'[g] = Received(o))
  <2>1. CASE Tell(o, TRUE, x)
    BY <1>1, <1>4, <2>1, ReturnHeld
  <2> QED
    BY <2>1
<1>9. HeldOK'
  <2> SUFFICES ASSUME NEW h \in AnyHandle \ lost, held'[h] # Nil
               PROVE  Open(h)'
    BY <1>1 DEF HeldOK
  <2>1. CASE held'[h] = held[h]
    <3>1. Open(h) /\ h # x
      BY <1>1, <1>2, <2>1, NobodyCloses DEF Free
    <3> QED
      BY <1>5, <2>1, <3>1 DEF Open
  <2>2. CASE h = x /\ Len(frames) = 1 /\ held'[h] = Received(o)
    <3>1. Top.client = Client
      BY <2>2, FrameFacts DEF First
    <3>2. x \in isDir' <=> Top.op = "openDir"
      BY <1>2
    <3>3. held'[h].by = o /\ (held'[h].dir <=> Top.op = "openDir")
      BY <2>2, ReceivedFields
    <3> QED
      BY <1>5, <2>2, <3>1, <3>2, <3>3 DEF Open
  <2> QED
    BY <1>8, <2>1, <2>2
<1>10. ParentOK'
  <2> SUFFICES ASSUME NEW h \in Handle, parent[h] \notin lost \cup {Nil}
               PROVE  /\ held'[parent[h]] = Nil
                      /\ \A g \in Handle : parent[g] = parent[h] => g = h
                      /\ Lower(parent[h], owner[h])'
    BY <1>1 DEF ParentOK
  <2>1. /\ held[parent[h]] = Nil
        /\ \A g \in Handle : parent[g] = parent[h] => g = h
        /\ Lower(parent[h], owner[h])
    BY <1>1, NobodyCloses
  <2>2. PICK p, q : p = parent[h] /\ q = owner[h]
    OBVIOUS
  <2>3. p \in AnyHandle /\ p # x /\ h # x
    BY <1>2, <1>3, <2>2 DEF Free, TablesTyped
  <2>4. owner'[h] = q /\ parent'[h] = p /\ owner'[p] = owner[p] /\ (p \in isDir' <=> p \in isDir)
    BY <1>5, <2>2, <2>3 DEF AnyHandle
  <2>5. owner[p] = Real => p \in RealHandle
    BY <1>3, <2>3, NameAssumption DEF TablesOK, AnyHandle
  <2>6. Lower(p, q)'
    BY <1>1, <1>5, <2>1, <2>2, <2>3, <2>4, <2>5 DEF Lower, Under
  <2> QED
    BY <1>8, <2>1, <2>2, <2>3, <2>4, <2>6
<1>11. BelowKept
  <2>1. ASSUME NEW f \in Lower1
        PROVE  owner'[f.dir] = owner[f.dir] /\ f.dir \in isDir' /\ parent'[f.dir] = parent[f.dir]
    <3>1. f.dir \in Handle /\ Waits(f) /\ owner[f.dir] \in Layer
      BY LowerFacts
    <3>2. f.dir # x
      BY <3>1, NameAssumption
    <3> QED
      BY <1>5, <3>1, <3>2 DEF Waits, AnyHandle
  <2>2. Len(frames) > 1 => held' = held
    BY <1>1, <1>4, ReturnHeld
  <2> QED
    BY <2>1, <2>2, BelowStays
<1> QED
  BY <1>6, <1>7, <1>9, <1>10, <1>11

(* The parent of the directory that waits: set when it is open, given up when   *)
(* it was rewound.                                                            *)
LEMMA ParentStep ==
  ASSUME IInv, Locked, Unmoved, FramesStay, NEW d, d = Top.dir, d # Nil, Top.op # "closeDir",
         UNCHANGED <<owner, isDir, opener>>,
         NEW g \in AnyHandle \cup {Nil},
         parent' = [parent EXCEPT ![d] = g],
         g # Nil => Top.op = "openDir" /\ Free(g) /\ Lower(g, At),
         held' = held \/ Tell(At, TRUE, d)
  PROVE  /\ TablesTyped' /\ TablesOK' /\ HeldOK' /\ ParentOK' /\ BelowKept
         /\ Len(frames) > 1 /\ Top.op = "openDir" => Free(d)'
<1>1. /\ fsLayers' = fsLayers /\ lost' = lost
      /\ Len(frames) \in Nat \ {0} /\ Top = frames[Len(frames)]
      /\ Len(frames) = 1 \/ Len(frames) > 1
  BY FrameFacts DEF Unmoved
<1>2. /\ Waits(Top) /\ d \in Handle /\ owner[d] = At /\ At \in Merging /\ At \in Layer
      /\ Top.i \in 1 .. Len(fsLayers) /\ d \in isDir /\ Top.op \in DirOps \cup {"openDir"}
      /\ Top.op \in DirOps => Top.arg = d /\ parent[d] # Nil
  BY WaiterFacts
<1>4. TablesTyped /\ TablesOK /\ Top.op \notin Closing
  BY <1>2 DEF IInv, TypeOK, TablesTyped, Closing, DirOps
<1>5. \A h \in Handle : parent'[h] = IF h = d THEN g ELSE parent[h]
  BY <1>2, <1>4 DEF TablesTyped
<1>6. TablesTyped'
  BY <1>4 DEF TablesTyped
<1>7. TablesOK'
  BY <1>1, <1>2, <1>4, <1>5 DEF TablesOK, InStack
<1>8. Top.op = "openDir" => Free(d) /\ parent[d] = Nil
  BY <1>2 DEF Waits
<1>9. \A h \in AnyHandle : \/ held'[h] = held[h]
                          \/ (h = d /\ Len(frames) = 1 /\ Top.op = "openDir" /\ held'[h] = Received(At))
  <2>1. CASE Tell(At, TRUE, d)
    <3>1. CASE Len(frames) = 1 /\ Top.op \in Opening
      <4>1. Top.op = "openDir"
        BY <1>2, <3>1 DEF Opening, DirOps
      <4> QED
        BY <1>2, <2>1, <3>1, <4>1, ReturnHeld DEF AnyHandle
    <3>2. CASE Len(frames) = 1 /\ Top.op \notin Opening
      <4>1. held' = held
        <5>1. ~(Len(frames) > 1)
          BY <3>2
        <5> QED
          BY <1>4, <2>1, <3>2, <5>1, WhoseCall DEF Tell, IInv
      <4> QED
        BY <4>1
    <3>3. CASE Len(frames) > 1
      BY <2>1, <3>3, WhoseCall DEF Tell, IInv
    <3> QED
      BY <1>1, <3>1, <3>2, <3>3
  <2> QED
    BY <2>1
<1>10. HeldOK'
  <2> SUFFICES ASSUME NEW h \in AnyHandle \ lost, held'[h] # Nil
               PROVE  Open(h)'
    BY <1>1 DEF HeldOK
  <2>1. CASE held'[h] = held[h]
    <3>1. Open(h)
      BY <1>4, <2>1, NobodyCloses
    <3> QED
      BY <2>1, <3>1 DEF Open
  <2>2. CASE h = d /\ Len(frames) = 1 /\ Top.op = "openDir" /\ held'[h] = Received(At)
    <3>1. held'[h].by = At /\ (held'[h].dir <=> Top.op = "openDir")
      BY <2>2, ReceivedFields
    <3>2. d \notin RealHandle
      BY <1>2, NameAssumption
    <3> QED
      BY <1>2, <2>2, <3>1, <3>2 DEF Open
  <2> QED
    BY <1>9, <2>1, <2>2
<1>11. ParentOK'
  <2> SUFFICES ASSUME NEW h \in Handle, parent'[h] \notin lost \cup {Nil}
               PROVE  /\ held'[parent'[h]] = Nil
                      /\ \A y \in Handle : parent'[y] = parent'[h] => y = h
                      /\ Lower(parent[h], owner[h])'
    BY <1>1 DEF ParentOK
  <2>1. PICK p, q : p = parent'[h] /\ q = owner[h]
    OBVIOUS
  <2>2. p \in AnyHandle /\ p \notin lost /\ p # Nil
    BY <1>6, <2>1 DEF TablesTyped
  <2>3. CASE h # d
    <3>1. p = parent[h]
      BY <1>5, <2>1, <2>3
    <3>2. /\ held[p] = Nil
          /\ \A y \in Handle : parent[y] = p => y = h
          /\ Lower(p, q)
      BY <1>4, <2>1, <2>2, <3>1, NobodyCloses
    <3>3. p # d \/ Top.op # "openDir"
      BY <1>8, <2>2, <2>3, <3>1 DEF Free
    <3>4. held'[p] = Nil
      BY <1>9, <2>2, <3>2, <3>3
    <3>5. p # g
      BY <2>2, <3>1 DEF Free
    <3>6. Lower(p, q)'
      BY <1>1, <3>2 DEF Lower, Under
    <3> QED
      BY <1>5, <2>1, <3>2, <3>4, <3>5, <3>6
  <2>4. CASE h = d
    <3>1. p = g /\ Top.op = "openDir" /\ Free(p) /\ Lower(p, At)
      BY <1>5, <2>1, <2>2, <2>4
    <3>2. q = At
      BY <1>2, <2>1, <2>4
    <3>3. p # d
      <4>1. CASE owner[p] = Real
        BY <1>2, <4>1, NameAssumption, <1>4 DEF TablesOK
      <4>2. CASE Under(owner[p], At)
        BY <1>2, <4>2 DEF Under, IInv, Shape
      <4> QED
        BY <3>1, <4>1, <4>2 DEF Lower
    <3>4. held'[p] = Nil
      BY <1>9, <2>2, <3>1, <3>3 DEF Free
    <3>5. \A y \in Handle : parent'[y] = p => y = h
      BY <1>5, <2>2, <2>4, <3>1 DEF Free
    <3>6. Lower(p, q)'
      BY <1>1, <3>1, <3>2 DEF Lower, Under
    <3> QED
      BY <2>1, <3>4, <3>5, <3>6
  <2> QED
    BY <2>3, <2>4
<1>12. ASSUME g # Nil
       PROVE  g # d /\ \A f \in Lower1 : g # f.dir
  <2>1. ASSUME owner[g] = Real
        PROVE  \A h \in Handle : g # h
    BY <2>1, <1>4, NameAssumption DEF TablesOK
  <2>2. ASSUME Under(owner[g], At)
        PROVE  \E k \in 1 .. Len(fsLayers) : k < Top.i /\ owner[g] = fsLayers[k]
    BY <1>2, <2>2 DEF Under, IInv, Shape, At
  <2>3. owner[g] = Real \/ Under(owner[g], At)
    BY <1>12 DEF Lower
  <2>4. g # d
    BY <1>2, <2>1, <2>2, <2>3 DEF IInv, Shape, At
  <2>5. ASSUME NEW f \in Lower1 PROVE g # f.dir
    <3>1. f.dir \in Handle /\ f.i > Top.i /\ f.i \in 1 .. Len(fsLayers) /\ owner[f.dir] = fsLayers[f.i]
      BY LowerFacts DEF Waits
    <3>2. ASSUME NEW k \in 1 .. Len(fsLayers), k < Top.i, owner[g] = fsLayers[k], g = f.dir
          PROVE  FALSE
      <4>1. k = f.i
        BY <3>1, <3>2 DEF IInv, Shape
      <4> QED
        BY <1>2, <3>1, <3>2, <4>1
    <3> QED
      BY <2>1, <2>2, <2>3, <3>1, <3>2
  <2> QED
    BY <2>4, <2>5
<1>13. BelowKept
  <2>1. ASSUME NEW f \in Lower1
        PROVE  /\ owner'[f.dir] = owner[f.dir] /\ f.dir \in isDir' /\ parent'[f.dir] = parent[f.dir]
               /\ \A h \in Handle : parent'[h] = f.dir => parent[h] = f.dir
    <3>1. f.dir \in Handle /\ f.dir # Nil /\ Waits(f) /\ owner[f.dir] # At
      BY <1>2, LowerFacts
    <3> QED
      BY <1>2, <1>5, <1>12, <3>1 DEF Waits
  <2>2. Len(frames) > 1 => held' = held
    BY WhoseCall DEF Tell, IInv
  <2> QED
    BY <2>1, <2>2, BelowStays
<1>14. Len(frames) > 1 /\ Top.op = "openDir" => Free(d)'
  <2>1. Len(frames) > 1 => held' = held
    BY WhoseCall DEF Tell, IInv
  <2>2. d # Nil
    BY <1>2, NameAssumption DEF AnyHandle
  <2>3. \A h \in Handle : parent[h] # d => parent'[h] # d
    BY <1>5, <1>12, <2>2
  <2> QED
    BY <1>1, <1>8, <2>1, <2>3 DEF Free
<1> QED
  BY <1>6, <1>7, <1>10, <1>11, <1>13, <1>14

-----------------------------------------------------------------------------
(* Ways a step ends, each with what it does to the tables.                     *)

(* The types, put together from those of the tables and the frames.         *)
LEMMA TypeStep ==
  ASSUME IInv, Unmoved, TablesTyped', HeldTyped', frames' \in Seq(Frame)
  PROVE  TypeOK' /\ Shape'
<1>1. /\ fsLayers' = fsLayers /\ active' = active /\ has' = has /\ deleted' = deleted
      /\ realHas' = realHas /\ lost' = lost
  BY DEF Unmoved, files
<1>2. \A k \in 1 .. Len(frames') : frames'[k] \in Frame
  BY DEF TypeOK
<1>3. TypeOK'
  BY <1>1, <1>2 DEF IInv, TypeOK, TablesTyped, HeldTyped
<1>4. Shape'
  BY <1>1 DEF IInv, Shape, HeldTyped
<1> QED
  BY <1>3, <1>4

(* The application's handles keep their type when they stay.                *)
LEMMA HeldStays ==
  ASSUME IInv, held' = held
  PROVE  HeldTyped'
BY DEF IInv, Shape, TypeOK, HeldTyped

(* The parts of an answer.                                                  *)
LEMMA RetFields ==
  ASSUME NEW by, NEW ok, NEW failed, NEW h, Return(by, ok, failed, h)
  PROVE  /\ ret'.by = by /\ ret'.ok = ok /\ ret'.h = h
         /\ ret'.call = [Top EXCEPT !.failed = @ \/ failed]
<1>1. PICK c : c = [Top EXCEPT !.failed = @ \/ failed]
  OBVIOUS
<1>2. ret' = [call |-> c, by |-> by, ok |-> ok, h |-> h]
  BY <1>1, Zenon DEF Return
<1>3. ret'.by = by /\ ret'.ok = ok /\ ret'.h = h /\ ret'.call = c
  BY <1>2
<1> QED
  BY <1>1, <1>3, Zenon

(* The stack after a return.                                                *)
LEMMA ReturnFrames ==
  ASSUME Shape, Locked, NEW by, NEW ok, NEW failed, NEW h, Return(by, ok, failed, h)
  PROVE  FramesStay /\ Len(frames') = Len(frames) - 1 /\ Tell(by, ok, h)
BY TopFacts DEF Return, FramesStay

(* The invariant after a return, but for the tables.                           *)
LEMMA ReturnStep ==
  ASSUME IInv, Locked, Unmoved, NEW by \in Layer \cup {Real}, NEW ok, NEW failed, NEW h,
         Return(by, ok, failed, h), Top.op \in Opening /\ ok => h \in AnyHandle,
         TablesTyped' /\ TablesOK' /\ HeldOK' /\ ParentOK' /\ BelowKept,
         \A f \in Lower1 : f = frames[Len(frames) - 1] /\ Top.op = "openDir" /\ ok =>
                            Free(h)' /\ Lower(h, fsLayers[f.i])'
  PROVE  IInv'
<1>1. /\ WalkOK' /\ frames' \in Seq(Frame) /\ Len(frames') = Len(frames) - 1
      /\ \A j \in 1 .. Len(frames) - 1 : frames[j]' = frames[j]
  BY ReturnWalk DEF IInv
<1>2. HeldTyped'
  BY ReturnFrames, ReturnHeld DEF IInv
<1>3. TypeOK' /\ Shape'
  BY <1>1, <1>2, TypeStep
<1>4. RetOK'
  <2>1. SUFFICES ASSUME frames' # <<>>, Top'.op = "openDir", ret'.ok
                 PROVE  ret'.h \in AnyHandle /\ Free(ret.h)' /\ Lower(ret.h, fsLayers[Top.i])'
    BY DEF RetOK
  <2>2. Len(frames) > 1
    BY <1>1, <2>1, FrameFacts
  <2>3. PICK f \in Lower1 : f = frames[Len(frames) - 1] /\ f.op = Top.op
    BY <2>2, FrameFacts, LowerFacts
  <2>4. Top' = f
    BY <1>1, <2>2, <2>3, FrameFacts DEF Top
  <2>5. ret'.ok = ok /\ ret'.h = h
    BY RetFields
  <2>6. Top.op = "openDir" /\ "openDir" \in Opening
    BY <2>1, <2>3, <2>4 DEF Opening
  <2>7. h \in AnyHandle /\ Free(h)' /\ Lower(h, fsLayers[f.i])'
    BY <2>1, <2>3, <2>5, <2>6
  <2> QED
    BY <2>4, <2>5, <2>7
<1> QED
  BY <1>1, <1>3, <1>4 DEF IInv

(* A return that neither opens nor closes.                                  *)
LEMMA QuietReturn ==
  ASSUME IInv, Locked, Unmoved, UNCHANGED tables, NEW by \in Layer \cup {Real}, NEW ok, NEW failed,
         NEW h, Return(by, ok, failed, h), ok => Top.op \notin Opening,
         Top.op = "closeDir" => Top.dir = Nil
  PROVE  IInv'
<1>1. Shape
  BY DEF IInv
<1>2. FramesStay /\ Tell(by, ok, h)
  BY <1>1, ReturnFrames
<1>3. /\ Len(frames) > 1 => held' = held
      /\ \A g \in AnyHandle : held'[g] = held[g] \/ held'[g] = Nil
      /\ Len(frames) = 1 /\ Top.op \in Closing => held'[Top.arg] = Nil
  BY <1>2, ReturnHeld
<1>4. TablesTyped' /\ TablesOK' /\ HeldOK' /\ ParentOK' /\ BelowKept
  BY <1>2, <1>3, SameStep
<1>5. Top.op = "openDir" => ~ok
  BY DEF Opening
<1> QED
  BY <1>4, <1>5, ReturnStep DEF Opening

(* The parts of a frame that stepped down.                                  *)
LEMMA SteppedFields ==
  ASSUME Shape, Locked, NEW failed \in BOOLEAN
  PROVE  LET g == Stepped(failed) IN
         /\ g.client = Top.client /\ g.op = Top.op /\ g.arg = Top.arg /\ g.dir = Nil
         /\ g.i = Top.i - 1 /\ (g.failed <=> Top.failed \/ failed)
<1>1. PICK b \in BOOLEAN : b = (Top.failed \/ failed)
  BY Zenon
<1>2. Stepped(failed) = [Top EXCEPT !.i = @ - 1, !.failed = b, !.dir = Nil]
  BY <1>1 DEF Stepped
<1>3. LET g == Stepped(failed) IN
         /\ g.client = Top.client /\ g.op = Top.op /\ g.arg = Top.arg /\ g.dir = Nil
         /\ g.i = Top.i - 1 /\ g.failed = b
  BY <1>2, TopFacts DEF Frame
<1> QED
  BY <1>1, <1>3, Zenon

(* Stepping down leaves the frames below as they are.                       *)
LEMMA NextFrames ==
  ASSUME IInv, Locked, Top.i > 0, NEW failed \in BOOLEAN, NextLayer(failed)
  PROVE  /\ FramesStay /\ frames' \in Seq(Frame) /\ Top'.dir = Nil
         /\ Len(frames) = 1 => FirstGoesOn /\ (failed => frames'[1].failed)
<1>1. /\ frames' \in Seq(Frame) /\ Len(frames') = Len(frames)
      /\ \A j \in 1 .. Len(frames) - 1 : frames[j]' = frames[j]
      /\ frames'[Len(frames)] = Stepped(failed) /\ Top' = Stepped(failed)
  BY NextFacts DEF IInv
<1>2. /\ Stepped(failed).op = Top.op /\ Stepped(failed).arg = Top.arg /\ Stepped(failed).dir = Nil
      /\ (Stepped(failed).failed <=> Top.failed \/ failed)
  BY SteppedFields DEF IInv
<1>3. Len(frames) \in Nat
  BY FrameFacts
<1>4. FramesStay
  BY <1>1, <1>3 DEF FramesStay
<1>5. Len(frames) = 1 => FirstGoesOn /\ (failed => frames'[1].failed)
  <2> SUFFICES ASSUME Len(frames) = 1 PROVE FirstGoesOn /\ (failed => frames'[1].failed)
    OBVIOUS
  <2>1. frames'[1] = Stepped(failed) /\ Len(frames') = 1
    BY <1>1
  <2> QED
    BY <1>2, <2>1 DEF FirstGoesOn
<1> QED
  BY <1>1, <1>2, <1>4, <1>5

(* The invariant after stepping down, but for the tables.                   *)
LEMMA NextStep ==
  ASSUME IInv, Locked, Unmoved, held' = held, Top.i > 0,
         NEW failed \in BOOLEAN, NextLayer(failed),
         Top.op \in PathOps /\ ~Top.failed /\ ~failed => Top.i \notin Deciders(Top),
         Len(frames) = 1 /\ Top.op \notin PathOps /\ Top.arg \notin lost /\ held[Top.arg].by \in active
           /\ ~Top.failed /\ ~failed => At # held[Top.arg].by,
         TablesTyped' /\ TablesOK' /\ HeldOK' /\ ParentOK' /\ BelowKept
  PROVE  IInv'
<1>1. WalkOK'
  BY NextWalk DEF IInv
<1>2. frames' \in Seq(Frame) /\ Top'.dir = Nil
  BY NextFrames
<1>3. TypeOK' /\ Shape'
  BY <1>2, HeldStays, TypeStep
<1>4. RetOK'
  BY <1>2 DEF RetOK
<1> QED
  BY <1>1, <1>3, <1>4 DEF IInv

(* Stepping down, with the tables left alone.                               *)
LEMMA QuietNext ==
  ASSUME IInv, Locked, Unmoved, UNCHANGED tables, held' = held, Top.i > 0, Top.dir = Nil,
         NEW failed \in BOOLEAN, NextLayer(failed),
         Top.op \in PathOps /\ ~Top.failed /\ ~failed => Top.i \notin Deciders(Top),
         Len(frames) = 1 /\ Top.op \notin PathOps /\ Top.arg \notin lost /\ held[Top.arg].by \in active
           /\ ~Top.failed /\ ~failed => At # held[Top.arg].by
  PROVE  IInv'
<1>1. FramesStay /\ (Len(frames) = 1 => FirstGoesOn)
  BY NextFrames
<1>2. TablesTyped' /\ TablesOK' /\ HeldOK' /\ ParentOK' /\ BelowKept
  BY <1>1, SameStep
<1> QED
  BY <1>2, NextStep

(* A nested call leaves the frames below as they are.                       *)
LEMMA NestFrames ==
  ASSUME IInv, Locked, Top.i > 0, At \in Merging,
         NEW op \in Ops, NEW arg \in Path \cup AnyHandle, NEW d \in Handle, Nest(op, arg, d)
  PROVE  /\ FramesStay /\ frames' \in Seq(Frame) /\ Top'.dir = Nil
         /\ Len(frames) = 1 => FirstGoesOn
<1>1. /\ frames' \in Seq(Frame) /\ Len(frames') = Len(frames) + 1
      /\ \A j \in 1 .. Len(frames) - 1 : frames[j]' = frames[j]
      /\ frames'[Len(frames)] = [Top EXCEPT !.dir = d] /\ Top' = Call(At, op, arg)
  BY FrameFacts, NestFacts DEF IInv
<1>2. Len(frames) \in Nat \ {0} /\ Top \in Frame
  BY FrameFacts
<1>3. Top'.dir = Nil
  BY <1>1 DEF Call
<1>4. PICK w : w = [Top EXCEPT !.dir = d]
  OBVIOUS
<1>5. w.op = Top.op /\ w.arg = Top.arg /\ w.failed = Top.failed
  BY <1>2, <1>4 DEF Frame
<1>6. FramesStay
  BY <1>1, <1>2 DEF FramesStay
<1>7. Len(frames) = 1 => FirstGoesOn
  <2> SUFFICES ASSUME Len(frames) = 1 PROVE FirstGoesOn
    OBVIOUS
  <2>1. Len(frames') >= 1 /\ frames'[1] = w
    BY <1>1, <1>4
  <2> QED
    BY <1>5, <2>1 DEF FirstGoesOn
<1> QED
  BY <1>1, <1>3, <1>6, <1>7

(* The invariant after a nested call, but for the tables.                   *)
LEMMA NestStep ==
  ASSUME IInv, Locked, Unmoved, held' = held,
         NEW op \in Ops, NEW arg \in Path \cup AnyHandle, NEW d \in Handle,
         Nest(op, arg, d), Top.i > 0, At \in Merging, op = Top.op,
         op \in PathOps <=> arg \in Path,
         NEW w, w = [Top EXCEPT !.dir = d], Waits(w)',
         op \in DirOps => arg = parent[d]',
         TablesTyped' /\ TablesOK' /\ HeldOK' /\ ParentOK' /\ BelowKept
  PROVE  IInv'
<1>1. d # Nil
  BY NameAssumption DEF AnyHandle
<1>2. WalkOK'
  BY <1>1, NestWalk DEF IInv
<1>3. frames' \in Seq(Frame) /\ Top'.dir = Nil
  BY NestFrames
<1>4. TypeOK' /\ Shape'
  BY <1>3, HeldStays, TypeStep
<1>5. RetOK'
  BY <1>3 DEF RetOK
<1> QED
  BY <1>2, <1>4, <1>5 DEF IInv

(* The layer goes to its parent with a directory of its own.                   *)
LEMMA QuietNest ==
  ASSUME IInv, Locked, Unmoved, UNCHANGED tables, held' = held, Top.i > 0, At \in Merging,
         Top.op \in DirOps, NEW d, d = Top.arg, owner[d] = At, d \in isDir, parent[d] # Nil,
         Top.op = "closeDir" => Top.dir = Nil,
         NEW p, p = parent[d], NEW op, op = Top.op, Nest(op, p, d)
  PROVE  IInv'
<1>1. d \in Handle
  BY FrameFacts, NameAssumption DEF IInv, TablesOK, TypeOK, AnyHandle
<1>2. op \in Ops /\ p \in AnyHandle /\ p \notin Path /\ op \notin PathOps
  BY <1>1, NameAssumption DEF IInv, TypeOK, Ops, DirOps, PathOps, AnyHandle
<1>3. FramesStay /\ (Len(frames) = 1 => FirstGoesOn)
  BY <1>1, <1>2, NestFrames
<1>4. TablesTyped' /\ TablesOK' /\ HeldOK' /\ ParentOK' /\ BelowKept
  BY <1>3, SameStep
<1>5. PICK w : w = [Top EXCEPT !.dir = d]
  OBVIOUS
<1>6. w.i = Top.i /\ w.op = Top.op /\ w.arg = Top.arg /\ w.dir = d
  BY <1>5, FrameFacts DEF Frame
<1>7. Waits(w)'
  <2>1. UNCHANGED <<fsLayers, owner, isDir, parent>>
    BY DEF Unmoved, tables
  <2> QED
    BY <1>6, <2>1 DEF Waits, DirOps, At
<1>8. parent' = parent
  BY DEF tables
<1> QED
  BY <1>1, <1>2, <1>4, <1>5, <1>7, <1>8, NestStep

(* Closes(x): what a close does to the tables.                                 *)
Closes(x) ==
  /\ x = Top.arg /\ Top.op \in Closing
  /\ owner[x] # Nil /\ (owner[x] = Real \/ (Top.i > 0 /\ owner[x] = At))
  /\ owner' = [owner EXCEPT ![x] = Nil] /\ isDir' = isDir \ {x}
  /\ parent' = [parent EXCEPT ![x] = Nil]
  /\ opener' = opener \/ opener' = [opener EXCEPT ![x] = Nil]
  /\ owner[x] = Real => opener' = [opener EXCEPT ![x] = Nil]

(* A close that is answered.                                                *)
LEMMA CloseReturn ==
  ASSUME IInv, Locked, Unmoved, NEW x, Closes(x), NEW by \in Layer \cup {Real}, NEW ok, NEW failed,
         NEW h, Return(by, ok, failed, h)
  PROVE  IInv'
<1>1. FramesStay /\ Tell(by, ok, h)
  BY ReturnFrames DEF IInv
<1>2. Top.op \notin Opening /\ Top.op # "openDir"
  BY DEF Closes, Opening, Closing
<1>3. /\ Len(frames) > 1 => held' = held
      /\ \A g \in AnyHandle : held'[g] = held[g] \/ held'[g] = Nil
      /\ Len(frames) = 1 /\ Top.op \in Closing => held'[Top.arg] = Nil
  BY <1>1, <1>2, ReturnHeld
<1>4. TablesTyped' /\ TablesOK' /\ HeldOK' /\ ParentOK' /\ BelowKept
  BY <1>1, <1>3, CloseStep DEF Closes
<1> QED
  BY <1>2, <1>4, ReturnStep

(* A close that failed in a merging layer and goes on.                      *)
LEMMA CloseNext ==
  ASSUME IInv, Locked, Unmoved, NEW x, Closes(x), Top.i > 0, held' = held, NextLayer(TRUE)
  PROVE  IInv'
<1>1. FramesStay /\ (Len(frames) = 1 => FirstGoesOn /\ frames'[1].failed)
  BY NextFrames
<1>2. TablesTyped' /\ TablesOK' /\ HeldOK' /\ ParentOK' /\ BelowKept
  BY <1>1, CloseStep DEF Closes
<1> QED
  BY <1>2, NextStep

(* Deleting the handle from the table is a close of it.                     *)
LEMMA DropCloses ==
  ASSUME IInv, Locked, NEW x, x = Top.arg, Top.op \in Closing, Top.i > 0, owner[x] = At, Drop(x)
  PROVE  Closes(x)
BY FrameFacts, NameAssumption DEF Closes, Drop

(* A layer's error: it is final or the loop goes on.                           *)
LEMMA CloseError ==
  ASSUME IInv, Locked, Unmoved, NEW x, Closes(x), Top.i > 0, ErrorAnswer(At, TRUE)
  PROVE  IInv'
<1>1. CASE NextLayer(TRUE) /\ held' = held
  BY <1>1, CloseNext
<1>2. CASE Return(At, FALSE, TRUE, Nil)
  BY <1>2, FrameFacts, CloseReturn
<1> QED
  BY <1>1, <1>2 DEF ErrorAnswer

(* FSCloseFileWrapper.                                                      *)
LEMMA CloseFileKeeps ==
  ASSUME IInv, AnswerCloseFile
  PROVE  IInv'
<1> PICK x : x = Top.arg
  OBVIOUS
<1>1. /\ Locked /\ Unmoved /\ Top.i > 0 /\ At \in Layer /\ Top.op \in Closing /\ owner[x] = At
      /\ x \notin isDir /\ x \in AnyHandle
  <2>1. Locked /\ Top.i > 0 /\ Top.op = "closeFile" /\ Concerned(At, Top) /\ Unmoved
    BY DEF AnswerCloseFile, Asked, Asking, Unmoved
  <2>2. owner[x] = At /\ x \notin isDir
    BY <2>1 DEF Concerned, PathOps, DirOps
  <2> QED
    BY <2>1, <2>2, FrameFacts, ArgFacts DEF Closing, PathOps
<1>2. parent = [parent EXCEPT ![x] = Nil] /\ isDir \ {x} = isDir
  BY <1>1 DEF IInv, TypeOK, TablesOK
<1>3. Closes(x)
  BY <1>1, <1>2, NameAssumption DEF Closes, AnswerCloseFile
<1>4. Return(At, TRUE, FALSE, Nil)
  BY DEF AnswerCloseFile
<1> QED
  BY <1>1, <1>3, <1>4, CloseReturn

(* FSCloseDirWrapper without a parent's directory.                          *)
LEMMA CloseDirKeeps ==
  ASSUME IInv, AnswerCloseDir
  PROVE  IInv'
<1> PICK x : x = Top.arg
  OBVIOUS
<1>1. /\ Locked /\ Unmoved /\ Top.i > 0 /\ At \in Layer /\ Top.op \in Closing /\ owner[x] = At
      /\ Drop(x) /\ Return(At, TRUE, FALSE, Nil)
  <2>1. /\ Locked /\ Top.i > 0 /\ Top.op = "closeDir" /\ Concerned(At, Top) /\ Unmoved
        /\ Drop(x) /\ Return(At, TRUE, FALSE, Nil)
    BY DEF AnswerCloseDir, Asked, Asking, Unmoved
  <2>2. owner[x] = At
    BY <2>1 DEF Concerned, PathOps
  <2> QED
    BY <2>1, <2>2, FrameFacts DEF Closing
<1> QED
  BY <1>1, DropCloses, CloseReturn

(* FSCloseDirWrapper after the parent's directory.                          *)
LEMMA ResumeCloseKeeps ==
  ASSUME IInv, ResumeCloseDir
  PROVE  IInv'
<1> PICK x : x = Top.arg
  OBVIOUS
<1>1. /\ Locked /\ Unmoved /\ Top.i > 0 /\ At \in Layer /\ Top.op \in Closing /\ owner[x] = At
      /\ Drop(x)
  <2>1. Locked /\ Top.dir # Nil /\ Top.op = "closeDir" /\ Drop(Top.dir) /\ Unmoved
    BY DEF ResumeCloseDir, Resuming, Unmoved
  <2>2. Top.dir = x /\ owner[x] = At /\ Top.i > 0
    BY <2>1, WaiterFacts DEF DirOps
  <2> QED
    BY <2>1, <2>2, FrameFacts DEF Closing
<1>2. Closes(x)
  BY <1>1, DropCloses
<1>3. \/ Return(At, TRUE, FALSE, Nil) \/ ErrorAnswer(At, TRUE) \/ Return(At, FALSE, TRUE, Nil)
  BY DEF ResumeCloseDir
<1> QED
  BY <1>1, <1>2, <1>3, CloseReturn, CloseError

(* The real function with a handle: closing frees it, if it was the console's. *)
LEMMA RealUseKeeps ==
  ASSUME IInv, RealUse
  PROVE  IInv'
<1> PICK x : x = Top.arg
  OBVIOUS
<1>0. PICK b : b = (owner[Top.arg] = Real)
  OBVIOUS
<1>1. Locked /\ Unmoved /\ Top.dir = Nil /\ Top.op \notin PathOps /\ Top.op \notin Opening
  BY DEF RealUse, AskReal, Unmoved, PathOps, Opening
<1>2. Return(Real, b, FALSE, Nil)
  BY <1>0, Zenon DEF RealUse
<1>3. CASE Top.op \in Closing /\ owner[x] = Real
  <2>1. x \in AnyHandle /\ x \notin Handle
    BY <1>1, <1>3, ArgFacts, NameAssumption DEF IInv, TablesOK
  <2>2. parent = [parent EXCEPT ![x] = Nil]
    BY <2>1 DEF IInv, TypeOK
  <2>3. /\ owner' = [owner EXCEPT ![x] = Nil] /\ opener' = [opener EXCEPT ![x] = Nil]
        /\ isDir' = isDir \ {x} /\ parent' = parent
    BY <1>3, Zenon DEF RealUse
  <2>4. Closes(x)
    BY <1>3, <2>2, <2>3, NameAssumption DEF Closes
  <2> QED
    BY <1>1, <1>2, <2>4, CloseReturn
<1>4. CASE ~(Top.op \in Closing /\ owner[x] = Real)
  <2>1. UNCHANGED tables
    BY <1>4 DEF RealUse, tables
  <2> QED
    BY <1>1, <1>2, <2>1, QuietReturn
<1> QED
  BY <1>3, <1>4

(* A handle is opened.                                                         *)
Opens(x, o) ==
  /\ Top.op \in Opening /\ x \in AnyHandle /\ owner[x] = Nil
  /\ \/ x \in Handle /\ Top.i > 0 /\ o = At /\ opener' = opener
     \/ x \in RealHandle /\ o = Real /\ opener' = [opener EXCEPT ![x] = Top.client]
  /\ owner' = [owner EXCEPT ![x] = o] /\ parent' = parent
  /\ isDir' = IF Top.op = "openDir" THEN isDir \cup {x} ELSE isDir

(* An open that is answered with a fresh handle.                            *)
LEMMA OpenReturn ==
  ASSUME IInv, Locked, Unmoved, NEW x, NEW o, Opens(x, o), Return(o, TRUE, FALSE, x)
  PROVE  IInv'
<1>1. FramesStay /\ Tell(o, TRUE, x)
  BY ReturnFrames DEF IInv
<1>2. /\ x \in AnyHandle /\ owner[x] = Nil /\ Top.op \notin Closing /\ o \in Layer \cup {Real}
      /\ fsLayers' = fsLayers /\ lost' = lost
  BY FrameFacts DEF Opens, Opening, Closing, Unmoved
<1>3. TablesTyped' /\ TablesOK' /\ HeldOK' /\ ParentOK' /\ BelowKept
  BY <1>1, ClaimStep DEF Opens
<1>4. ASSUME NEW f \in Lower1, f = frames[Len(frames) - 1], Top.op = "openDir"
      PROVE  Free(x)' /\ Lower(x, fsLayers[f.i])'
  <2>1. /\ Len(frames) > 1 /\ f.i > Top.i /\ f.i \in 1 .. Len(fsLayers)
        /\ Top.client = fsLayers[f.i] /\ Top.i \in Nat
    BY <1>4, FrameFacts, LowerFacts DEF Nested
  <2>2. held' = held
    BY <1>1, <2>1, WhoseCall DEF Tell, IInv
  <2>3. Free(x)
    BY <1>2, FreshIsFree
  <2>4. Free(x)'
    BY <1>2, <2>2, <2>3 DEF Free, Opens
  <2>5. owner'[x] = o /\ x \in isDir'
    BY <1>2, <1>4 DEF Opens, IInv, TypeOK
  <2>6. PICK l : l = fsLayers[f.i] /\ l = fsLayers'[f.i]
    BY <1>2
  <2>7. CASE o = Real
    <3>1. x \in RealHandle /\ opener' = [opener EXCEPT ![x] = Top.client]
      BY <2>7, FrameFacts, NameAssumption DEF Opens
    <3>2. opener'[x] = l
      BY <2>1, <2>6, <3>1 DEF IInv, TypeOK
    <3>3. Lower(x, l)'
      BY <2>5, <2>7, <3>2 DEF Lower
    <3> QED
      BY <2>4, <2>6, <3>3
  <2>8. CASE o # Real
    <3>1. o = At /\ Top.i > 0 /\ o \in Layer
      BY <2>8, FrameFacts DEF Opens
    <3>2. PICK i, j \in 1 .. Len(fsLayers) : i = Top.i /\ j = f.i
      BY <2>1, <3>1
    <3>3. i < j /\ fsLayers[i] = o /\ fsLayers[j] = l
      BY <2>1, <2>6, <3>1, <3>2 DEF At
    <3>4. Under(o, l)'
      BY <1>2, <3>3 DEF Under
    <3>5. Lower(x, l)'
      BY <2>5, <3>1, <3>4 DEF Lower
    <3> QED
      BY <2>4, <2>6, <3>5
  <2> QED
    BY <2>7, <2>8
<1> QED
  BY <1>2, <1>3, <1>4, ReturnStep

(* FSOpenFileWrapper.                                                       *)
LEMMA OpenFileKeeps ==
  ASSUME IInv, NEW h \in Handle, AnswerOpenFile(h)
  PROVE  IInv'
<1> PICK o : o = At
  OBVIOUS
<1>1. /\ Locked /\ Unmoved /\ Top.i > 0 /\ Top.op = "openFile" /\ owner[h] = Nil
      /\ Return(o, TRUE, FALSE, h)
  BY DEF AnswerOpenFile, Asked, Asking, Unmoved, Fresh
<1>2. Opens(h, o)
  BY <1>1 DEF Opens, AnswerOpenFile, Opening, AnyHandle
<1> QED
  BY <1>1, <1>2, OpenReturn

(* The real open functions.                                                 *)
LEMMA RealOpenKeeps ==
  ASSUME IInv, NEW h \in RealHandle, RealOpen(h)
  PROVE  IInv'
<1>1. Locked /\ Unmoved /\ Top.op \in Opening /\ Return(Real, TRUE, FALSE, h)
  BY DEF RealOpen, AskReal, Unmoved
<1>2. Opens(h, Real)
  BY <1>1 DEF Opens, RealOpen, AnyHandle
<1> QED
  BY <1>1, <1>2, OpenReturn

(* FSOpenDirWrapper: answered, or waiting for the parent's directory.       *)
LEMMA OpenDirKeeps ==
  ASSUME IInv, NEW h \in Handle, AnswerOpenDir(h)
  PROVE  IInv'
<1> PICK o : o = At
  OBVIOUS
<1>1. /\ Locked /\ Unmoved /\ Top.i > 0 /\ Top.op = "openDir" /\ owner[h] = Nil /\ Top.dir = Nil
      /\ o \in active /\ Concerned(o, Top) /\ Top.arg \in has[o]
  BY DEF AnswerOpenDir, Asked, Asking, Unmoved, Fresh
<1>2. parent[h] = Nil /\ Free(h)
  BY <1>1, FreshIsFree DEF AnyHandle, Closing
<1>3. parent' = parent
  BY <1>2 DEF AnswerOpenDir, IInv, TypeOK
<1>4. Opens(h, o)
  BY <1>1, <1>3 DEF Opens, AnswerOpenDir, Opening, AnyHandle
<1>5. CASE o \notin Merging
  <2>1. Return(o, TRUE, FALSE, h)
    BY <1>5 DEF AnswerOpenDir
  <2> QED
    BY <1>1, <1>4, <2>1, OpenReturn
<1>6. CASE o \in Merging
  <2>1. Nest("openDir", Top.arg, h) /\ held' = held
    BY <1>6 DEF AnswerOpenDir
  <2>2. Top.arg \in Path /\ "openDir" \in Ops /\ "openDir" \in PathOps /\ "openDir" \notin DirOps
    BY <1>1, FrameFacts DEF FrameOK, PathOps, Ops, DirOps
  <2>3. PICK a, p : a = Top.arg /\ p = "openDir"
    OBVIOUS
  <2>4. FramesStay
    BY <1>1, <1>6, <2>1, <2>2, NestFrames
  <2>5. TablesTyped' /\ TablesOK' /\ HeldOK' /\ ParentOK' /\ BelowKept
    BY <1>1, <1>4, <2>1, <2>4, ClaimStep DEF Opens
  <2>6. PICK w : w = [Top EXCEPT !.dir = h]
    OBVIOUS
  <2>7. w.i = Top.i /\ w.op = Top.op /\ w.arg = Top.arg /\ w.dir = h /\ w.client = Top.client
    BY <2>6, FrameFacts DEF Frame
  <2>8. Waits(w)'
    <3>1. /\ fsLayers' = fsLayers /\ lost' = lost /\ owner'[h] = o /\ h \in isDir'
      BY <1>1, <1>4 DEF Unmoved, Opens, IInv, TypeOK
    <3>2. Free(h)'
      BY <1>2, <1>3, <2>1, <3>1 DEF Free
    <3>3. Top.i \in Deciders(Top)
      <4>1. Top.i \in 1 .. StartIndex(Top.client)
        <5>1. StartIndex(Top.client) \in Nat
          BY ClientIndex DEF IInv
        <5> QED
          BY <1>1, <5>1, FrameFacts DEF FrameOK
      <4> QED
        BY <1>1, <2>2, <4>1 DEF Deciders, Concerned, At
    <3>4. Deciders(w)' = Deciders(Top)
      BY <1>1, <2>7 DEF Unmoved, files, StartIndex, Deciders, IsDeleted
    <3> QED
      BY <1>1, <1>2, <1>3, <1>6, <2>2, <2>7, <3>1, <3>2, <3>3, <3>4 DEF Waits, At
  <2> QED
    BY <1>1, <1>3, <1>6, <2>1, <2>2, <2>3, <2>5, <2>6, <2>8, NestStep
<1> QED
  BY <1>5, <1>6

(* The parent's directory becomes realDirHandle, or there is none.          *)
LEMMA ResumeOpenKeeps ==
  ASSUME IInv, ResumeOpenDir
  PROVE  IInv'
<1> PICK d, o : d = Top.dir /\ o = At
  OBVIOUS
<1>1. /\ Locked /\ Unmoved /\ Top.op = "openDir" /\ d # Nil /\ UNCHANGED <<owner, isDir, opener>>
      /\ Return(o, TRUE, FALSE, d)
      /\ parent' = [parent EXCEPT ![d] = IF ret.ok THEN ret.h ELSE Nil]
  BY DEF ResumeOpenDir, Resuming, Unmoved
<1>2. /\ d \in Handle /\ owner[d] = o /\ o \in Layer /\ Top.i \in 1 .. Len(fsLayers) /\ d \in isDir
  BY <1>1, WaiterFacts
<1>3. PICK g : g = IF ret.ok THEN ret.h ELSE Nil
  OBVIOUS
<1>4. g \in AnyHandle \cup {Nil} /\ (g # Nil => Free(g) /\ Lower(g, At))
  BY <1>1, <1>3 DEF IInv, RetOK, At, Locked
<1>5. FramesStay /\ Tell(o, TRUE, d)
  BY <1>1, ReturnFrames DEF IInv
<1>6. /\ TablesTyped' /\ TablesOK' /\ HeldOK' /\ ParentOK' /\ BelowKept
      /\ Len(frames) > 1 => Free(d)'
  BY <1>1, <1>3, <1>4, <1>5, ParentStep
<1>7. ASSUME NEW f \in Lower1
      PROVE  Free(d)' /\ Lower(d, fsLayers[f.i])'
  <2>1. Len(frames) > 1 /\ f.i > Top.i /\ f.i \in 1 .. Len(fsLayers) /\ fsLayers' = fsLayers
    BY <1>1, LowerFacts DEF Unmoved
  <2>2. PICK l : l = fsLayers[f.i] /\ l = fsLayers'[f.i]
    BY <2>1
  <2>3. PICK i, j \in 1 .. Len(fsLayers) : i = Top.i /\ j = f.i
    BY <1>2, <2>1
  <2>4. i < j /\ fsLayers[i] = o /\ fsLayers[j] = l
    BY <1>2, <2>1, <2>2, <2>3 DEF At
  <2>5. Under(o, l)'
    BY <2>1, <2>4 DEF Under
  <2>6. Lower(d, l)'
    BY <1>1, <1>2, <2>5 DEF Lower
  <2> QED
    BY <1>6, <2>1, <2>2, <2>6
<1> QED
  BY <1>1, <1>2, <1>6, <1>7, ReturnStep DEF AnyHandle

(* After a rewind realDirHandle is 0 if the parent could rewind.            *)
LEMMA ResumeRewindKeeps ==
  ASSUME IInv, ResumeRewindDir
  PROVE  IInv'
<1> PICK d, o : d = Top.dir /\ o = At
  OBVIOUS
<1>1. /\ Locked /\ Unmoved /\ Top.op = "rewindDir" /\ d # Nil /\ UNCHANGED <<owner, isDir, opener>>
      /\ Return(o, TRUE, FALSE, Nil)
      /\ parent' = IF ret.ok THEN [parent EXCEPT ![d] = Nil] ELSE parent
  BY DEF ResumeRewindDir, Resuming, Unmoved
<1>2. o \in Layer /\ Top.op \notin Opening /\ Top.op \notin Closing
  BY <1>1, WaiterFacts DEF Opening, Closing
<1>3. CASE parent' = parent
  BY <1>1, <1>2, <1>3, QuietReturn DEF tables
<1>4. CASE parent' = [parent EXCEPT ![d] = Nil]
  <2>1. FramesStay /\ Tell(o, TRUE, Nil)
    BY <1>1, ReturnFrames DEF IInv
  <2>2. Tell(o, TRUE, d)
    BY <1>2, <2>1 DEF Tell
  <2>3. TablesTyped' /\ TablesOK' /\ HeldOK' /\ ParentOK' /\ BelowKept
    BY <1>1, <1>4, <2>1, <2>2, ParentStep
  <2> QED
    BY <1>1, <1>2, <2>3, ReturnStep
<1> QED
  BY <1>1, <1>3, <1>4

(* The merging layer calls the patched function for the parent's directory. *)
LEMMA AskParentKeeps ==
  ASSUME IInv, NEW op \in DirOps, AskParent(op)
  PROVE  IInv'
<1> PICK d, p : d = Top.arg /\ p = parent[d]
  OBVIOUS
<1>1. /\ Locked /\ Unmoved /\ UNCHANGED tables /\ held' = held /\ Top.i > 0 /\ At \in Merging
      /\ Top.dir = Nil /\ op = Top.op /\ Concerned(At, Top) /\ p # Nil /\ Nest(op, p, d)
  BY DEF AskParent, Asked, Asking, Unmoved
<1>2. owner[d] = At /\ d \in isDir
  BY <1>1 DEF Concerned, PathOps, DirOps
<1> QED
  BY <1>1, <1>2, QuietNest

(* It reads the parent's next entry.                                        *)
LEMMA ReadAgainKeeps ==
  ASSUME IInv, ReadParentAgain
  PROVE  IInv'
<1> PICK d, p, op : d = Top.arg /\ p = parent[d] /\ op = "readDir"
  OBVIOUS
<1>1. /\ Locked /\ Unmoved /\ UNCHANGED tables /\ held' = held
      /\ Top.dir # Nil /\ op = Top.op /\ Nest(op, parent[Top.dir], Top.dir)
  BY DEF ReadParentAgain, Resuming, Unmoved
<1>2. /\ d = Top.dir /\ owner[d] = At /\ d \in isDir /\ p # Nil /\ Top.i > 0 /\ At \in Merging
      /\ op \in DirOps
  BY <1>1, WaiterFacts DEF DirOps
<1> QED
  BY <1>1, <1>2, QuietNest

(* FS_ERROR_FORCE_PARENT_LAYER.                                             *)
LEMMA PassByKeeps ==
  ASSUME IInv, PassBy
  PROVE  IInv'
<1>1. /\ Locked /\ Unmoved /\ UNCHANGED tables /\ held' = held /\ Top.i > 0 /\ Top.dir = Nil
      /\ NextLayer(FALSE) /\ (At \notin active \/ ~Concerned(At, Top))
  BY DEF PassBy, Asking, Unmoved
<1>2. Top.op \in PathOps => Top.i \notin Deciders(Top)
  BY <1>1 DEF Deciders, Concerned, At
<1>3. Len(frames) = 1 /\ Top.op \notin PathOps /\ Top.arg \notin lost /\ held[Top.arg].by \in active
        /\ ~Top.failed => At # held[Top.arg].by
  <2> SUFFICES ASSUME Len(frames) = 1, Top.op \notin PathOps, Top.arg \notin lost,
                      held[Top.arg].by \in active, ~Top.failed, At = held[Top.arg].by
               PROVE  FALSE
    OBVIOUS
  <2>1. /\ First(Top) /\ Top = frames[1] /\ Top.arg \in AnyHandle
    BY <1>1, FrameFacts, ArgFacts
  <2>2. Open(Top.arg)
    BY <2>1 DEF IInv, HeldOK, First
  <2>3. Concerned(At, Top)
    BY <2>1, <2>2 DEF Concerned, First, Open
  <2> QED
    BY <1>1, <2>3
<1> QED
  BY <1>1, <1>2, <1>3, QuietNext

(* A layer's error, final or passed by; a close takes the handle all the same. *)
LEMMA ErrorKeeps ==
  ASSUME IInv, AnswerError
  PROVE  IInv'
<1>1. PICK b \in BOOLEAN : b = ~(Top.op \in PathOps /\ Top.arg \notin has[At])
  BY Zenon
<1>2. /\ Locked /\ Unmoved /\ Top.i > 0 /\ Top.dir = Nil /\ Concerned(At, Top) /\ ~IsDeleted(At, Top)
      /\ IF Top.op \in Closing THEN Drop(Top.arg) ELSE UNCHANGED tables
  BY DEF AnswerError, Asking, Unmoved
<1>3. ErrorAnswer(At, b)
  BY <1>1, Zenon DEF AnswerError
<1>4. CASE Top.op \in Closing
  <2>1. PICK x : x = Top.arg
    OBVIOUS
  <2>2. Top.op \notin PathOps /\ owner[x] = At /\ Drop(x)
    BY <1>2, <1>4, <2>1 DEF Closing, PathOps, Concerned
  <2>3. b = TRUE
    BY <1>1, <2>2, Zenon
  <2> QED
    BY <1>2, <1>3, <1>4, <2>1, <2>2, <2>3, DropCloses, CloseError
<1>5. CASE Top.op \notin Closing
  <2>1. UNCHANGED tables
    BY <1>2, <1>5
  <2>2. ~b => Top.op \in PathOps /\ Top.arg \notin has[At]
    BY <1>1
  <2>3. CASE Return(At, FALSE, b, Nil)
    BY <1>2, <2>1, <2>3, QuietReturn, FrameFacts
  <2>4. CASE NextLayer(b) /\ held' = held /\ At \in Merging
    <3>1. ~b => Top.i \notin Deciders(Top)
      BY <1>2, <2>2, <2>4 DEF Deciders, At
    <3> QED
      BY <1>2, <2>1, <2>2, <2>4, <3>1, QuietNext
  <2> QED
    BY <1>3, <2>3, <2>4 DEF ErrorAnswer, FallBackOnError
<1> QED
  BY <1>4, <1>5

(* The answers that leave the tables alone.                                 *)
LEMMA QuietKeeps ==
  ASSUME IInv, \/ AnswerDeleted \/ AnswerStat \/ AnswerUseFile \/ AnswerReadDir
               \/ AnswerRewindDir \/ ResumeReadDir \/ RealStat \/ RealFails
  PROVE  IInv'
<1>1. CASE AnswerDeleted
  <2>1. /\ Locked /\ Unmoved /\ UNCHANGED tables /\ Top.i > 0 /\ Top.dir = Nil
        /\ Return(At, FALSE, FALSE, Nil)
    BY <1>1 DEF AnswerDeleted, Asked, Asking, Unmoved
  <2> QED
    BY <2>1, FrameFacts, QuietReturn
<1>2. CASE AnswerStat
  <2>1. /\ Locked /\ Unmoved /\ UNCHANGED tables /\ Top.i > 0 /\ Top.dir = Nil /\ Top.op \notin Opening
        /\ Return(At, TRUE, FALSE, Nil)
    BY <1>2 DEF AnswerStat, Asked, Asking, Unmoved, Opening
  <2> QED
    BY <2>1, FrameFacts, QuietReturn
<1>3. CASE AnswerUseFile \/ AnswerReadDir \/ AnswerRewindDir
  <2>1. /\ Locked /\ Unmoved /\ UNCHANGED tables /\ Top.i > 0 /\ Top.dir = Nil /\ Top.op \notin Opening
        /\ Return(At, TRUE, FALSE, Nil)
    BY <1>3 DEF AnswerUseFile, AnswerReadDir, AnswerRewindDir, Asked, Asking, Unmoved, Opening
  <2> QED
    BY <2>1, FrameFacts, QuietReturn
<1>4. CASE ResumeReadDir
  <2>1. /\ Locked /\ Unmoved /\ UNCHANGED tables /\ Top.dir # Nil /\ Top.op = "readDir"
        /\ Return(At, TRUE, FALSE, Nil)
    BY <1>4 DEF ResumeReadDir, Resuming, Unmoved
  <2>2. At \in Layer /\ Top.op \notin Opening
    BY <2>1, WaiterFacts DEF Opening
  <2> QED
    BY <2>1, <2>2, QuietReturn
<1>5. CASE RealStat
  <2>1. PICK b : b = (Top.arg \in realHas)
    OBVIOUS
  <2>2. /\ Locked /\ Unmoved /\ UNCHANGED tables /\ Top.dir = Nil /\ Top.op = "stat"
    BY <1>5 DEF RealStat, AskReal, Unmoved
  <2>3. Return(Real, b, FALSE, Nil)
    BY <1>5, <2>1, Zenon DEF RealStat
  <2>4. Top.op \notin Opening
    BY <2>2 DEF Opening
  <2> QED
    BY <2>2, <2>3, <2>4, QuietReturn
<1>6. CASE RealFails
  <2>1. PICK b : b = (Top.arg \in realHas)
    OBVIOUS
  <2>2. /\ Locked /\ Unmoved /\ UNCHANGED tables /\ Top.dir = Nil
    BY <1>6 DEF RealFails, AskReal, Unmoved
  <2>3. Return(Real, FALSE, b, Nil)
    BY <1>6, <2>1, Zenon DEF RealFails
  <2> QED
    BY <2>2, <2>3, QuietReturn
<1> QED
  BY <1>1, <1>2, <1>3, <1>4, <1>5, <1>6

(* Every step under the mutex.                                              *)
LEMMA WalkKeeps ==
  ASSUME IInv, Walk
  PROVE  IInv'
<1>1. CASE \E h \in Handle : AnswerOpenFile(h) \/ AnswerOpenDir(h)
  BY <1>1, OpenFileKeeps, OpenDirKeeps
<1>2. CASE \E op \in DirOps : AskParent(op)
  BY <1>2, AskParentKeeps
<1>3. CASE \E h \in RealHandle : RealOpen(h)
  BY <1>3, RealOpenKeeps
<1> QED
  BY <1>1, <1>2, <1>3, PassByKeeps, ErrorKeeps, QuietKeeps, CloseFileKeeps, CloseDirKeeps,
     ResumeOpenKeeps, ResumeRewindKeeps, ReadAgainKeeps, ResumeCloseKeeps, RealUseKeeps DEF Walk

-----------------------------------------------------------------------------
(* Between two calls of the application.                                       *)

(* The application calls a patched function.                                *)
LEMMA EnterKeeps ==
  ASSUME IInv, NEW op \in Ops, NEW arg \in Path \cup AnyHandle, Enter(op, arg)
  PROVE  IInv'
<1> PICK c : c = Call(Client, op, arg)
  OBVIOUS
<1>1. /\ frames = <<>> /\ frames' = <<c>>
      /\ UNCHANGED <<fsLayers, active, lost, files, tables, held>>
      /\ IF op \in PathOps THEN arg \in Path
         ELSE arg \in AnyHandle /\ held[arg] # Nil /\ (held[arg].dir <=> op \in DirOps)
  BY DEF Enter, Locked
<1>2. /\ StartIndex(Client) = Len(fsLayers) /\ Len(fsLayers) \in Nat
      /\ \A k \in 1 .. Len(fsLayers) : fsLayers[k] \in Layer
  BY ClientIndex, NameAssumption DEF IInv, TypeOK
<1>3. /\ c.client = Client /\ c.op = op /\ c.arg = arg /\ c.i = Len(fsLayers) /\ c.dir = Nil
      /\ c.failed = FALSE /\ c \in Frame
  BY <1>2 DEF Call, Frame
<1>4. /\ frames' \in Seq(Frame) /\ Len(frames') = 1 /\ frames'[1] = c /\ Top' = c
  BY <1>1, <1>3 DEF Top
<1>5. TypeOK' /\ Shape'
  BY <1>1, <1>3, <1>4 DEF IInv, TypeOK, Shape, files, tables
<1>6. TablesOK'
  BY <1>1 DEF IInv, TablesOK, InStack, tables
<1>7. HeldOK'
  BY <1>1 DEF IInv, HeldOK, Open, tables
<1>8. ParentOK'
  <2>1. \A h \in Handle : parent[h] \notin lost \cup {Nil} =>
          /\ held[parent[h]] = Nil
          /\ \A g \in Handle : parent[g] = parent[h] => g = h
          /\ Lower(parent[h], owner[h])
    BY <1>1 DEF IInv, ParentOK
  <2> QED
    BY <1>1, <2>1 DEF ParentOK, Lower, Under, tables
<1>9. FrameOK(c)'
  <2>1. StartIndex(c.client)' = Len(fsLayers) /\ fsLayers' = fsLayers
    BY <1>1, <1>2, <1>3 DEF StartIndex
  <2>2. \A j \in Deciders(c)' : j <= Len(fsLayers)
    BY <1>2, <2>1 DEF Deciders
  <2>3. arg \in Path <=> op \in PathOps
    BY <1>1, NameAssumption DEF AnyHandle
  <2> QED
    BY <1>2, <1>3, <2>1, <2>2, <2>3 DEF FrameOK
<1>10. First(c)'
  <2>1. op \notin PathOps => held'[arg] # Nil /\ (held'[arg].dir <=> op \in DirOps)
    BY <1>1
  <2>2. ASSUME op \notin PathOps, arg \notin lost, held[arg].by \in active
        PROVE  \E j \in 1 .. Len(fsLayers) : fsLayers[j] = held[arg].by
    <3>1. Open(arg) /\ arg \in AnyHandle
      BY <1>1, <2>2 DEF IInv, HeldOK
    <3>2. owner[arg] \in Layer
      BY <2>2, <3>1 DEF IInv, TypeOK, Open
    <3>3. arg \in Handle
      BY <3>1, <3>2, NameAssumption DEF IInv, TablesOK, AnyHandle
    <3> QED
      BY <3>1, <3>2, <3>3 DEF IInv, TablesOK, InStack, Open
  <2> QED
    BY <1>1, <1>3, <2>1, <2>2 DEF First
<1>11. WalkOK'
  <2>1. \A k \in 1 .. Len(frames') : k = 1 /\ ~(k > 1) /\ 1 .. k - 1 = {}
    BY <1>4
  <2> QED
    BY <1>4, <1>9, <1>10, <2>1 DEF WalkOK
<1>12. RetOK'
  BY <1>3, <1>4 DEF RetOK
<1> QED
  BY <1>5, <1>6, <1>7, <1>8, <1>11, <1>12 DEF IInv

(* The layers' order is what their removal leaves.                             *)
LEMMA RemoveFacts ==
  ASSUME NEW S, NEW s \in Seq(S), NEW k \in 1 .. Len(s)
  PROVE  /\ RemoveAt(s, k) \in Seq(S) /\ Len(RemoveAt(s, k)) = Len(s) - 1
         /\ \A j \in 1 .. k - 1 : RemoveAt(s, k)[j] = s[j]
         /\ \A j \in k + 1 .. Len(s) : RemoveAt(s, k)[j - 1] = s[j]
<1> DEFINE n == Len(s)
           a == SubSeq(s, 1, k - 1)
           b == SubSeq(s, k + 1, n)
<1>1. n \in Nat /\ k \in Nat /\ k \in Int /\ \A j \in 1 .. n : s[j] \in S
  OBVIOUS
<1>2. a \in Seq(S) /\ Len(a) = k - 1 /\ \A j \in 1 .. k - 1 : a[j] = s[j]
  <2>1. /\ a \in Seq(S) /\ Len(a) = IF 1 <= k - 1 THEN k - 1 - 1 + 1 ELSE 0
        /\ \A j \in 1 .. k - 1 - 1 + 1 : a[j] = s[1 + j - 1]
    <3>1. \A j \in 1 .. k - 1 : s[j] \in S
      BY <1>1
    <3> QED
      BY <1>1, <3>1, SubSeqProperties
  <2> QED
    BY <1>1, <2>1
<1>3. b \in Seq(S) /\ Len(b) = n - k /\ \A j \in 1 .. n - k : b[j] = s[k + j]
  <2>1. /\ b \in Seq(S) /\ Len(b) = IF k + 1 <= n THEN n - (k + 1) + 1 ELSE 0
        /\ \A j \in 1 .. n - (k + 1) + 1 : b[j] = s[k + 1 + j - 1]
    <3>1. \A j \in k + 1 .. n : s[j] \in S
      BY <1>1
    <3> QED
      BY <1>1, <3>1, SubSeqProperties
  <2> QED
    BY <1>1, <2>1
<1>4. RemoveAt(s, k) = a \o b
  BY DEF RemoveAt
<1> HIDE DEF a, b
<1>5. /\ a \o b \in Seq(S) /\ Len(a \o b) = n - 1
      /\ \A j \in 1 .. k - 1 : (a \o b)[j] = a[j]
      /\ \A j \in k .. n - 1 : (a \o b)[j] = b[j - (k - 1)]
  <2>1. /\ a \o b \in Seq(S) /\ Len(a \o b) = k - 1 + (n - k)
        /\ \A j \in 1 .. k - 1 + (n - k) : (a \o b)[j] = IF j <= k - 1 THEN a[j] ELSE b[j - (k - 1)]
    <3>1. /\ a \o b \in Seq(S) /\ Len(a \o b) = Len(a) + Len(b)
          /\ \A j \in 1 .. Len(a) + Len(b) : (a \o b)[j] = IF j <= Len(a) THEN a[j] ELSE b[j - Len(a)]
      BY <1>2, <1>3, ConcatProperties
    <3> QED
      BY <1>2, <1>3, <3>1
  <2>2. k - 1 + (n - k) = n - 1
    BY <1>1
  <2>3. \A j \in 1 .. k - 1 : j \in 1 .. n - 1 /\ j <= k - 1
    BY <1>1
  <2>4. \A j \in k .. n - 1 : j \in 1 .. n - 1 /\ ~(j <= k - 1)
    BY <1>1
  <2> QED
    BY <2>1, <2>2, <2>3, <2>4
<1>6. \A j \in k + 1 .. n : j - 1 \in k .. n - 1 /\ j - k \in 1 .. n - k
                            /\ j - 1 - (k - 1) = j - k /\ k + (j - k) = j
  BY <1>1
<1>7. \A j \in k + 1 .. n : (a \o b)[j - 1] = s[j]
  BY <1>3, <1>5, <1>6
<1> QED
  BY <1>2, <1>4, <1>5, <1>7

(* No frame, nothing to be said of frames.                                     *)
LEMMA NoFrames ==
  ASSUME frames' = <<>>
  PROVE  WalkOK' /\ RetOK'
BY DEF WalkOK, RetOK

(* CRAddFSLayer.                                                            *)
LEMMA AddKeeps ==
  ASSUME IInv, NEW l \in Layer, AddLayer(l)
  PROVE  IInv'
<1>1. /\ frames = <<>> /\ frames' = <<>> /\ fsLayers' = Append(fsLayers, l)
      /\ ~InStack(l) /\ active' = active \cup {l} /\ UNCHANGED <<files, tables, held, lost, frames, ret>>
  BY DEF AddLayer, Locked
<1>2. /\ fsLayers \in Seq(Layer) /\ fsLayers' \in Seq(Layer) /\ Len(fsLayers) \in Nat
      /\ Len(fsLayers') = Len(fsLayers) + 1
      /\ \A j \in 1 .. Len(fsLayers) : fsLayers'[j] = fsLayers[j]
      /\ fsLayers'[Len(fsLayers) + 1] = l
  BY <1>1 DEF IInv, TypeOK
<1>3. TypeOK'
  BY <1>1, <1>2 DEF IInv, TypeOK, files, tables
<1>4. Shape'
  BY <1>1, <1>2 DEF IInv, Shape, InStack
<1>5. \A x : InStack(x) => InStack(x)'
  BY <1>2 DEF InStack
<1>6. \A x, y : Under(x, y) => Under(x, y)'
  BY <1>2 DEF Under
<1>7. TablesOK'
  BY <1>1, <1>5 DEF IInv, TablesOK, tables
<1>8. HeldOK'
  BY <1>1 DEF IInv, HeldOK, Open, tables
<1>9. ParentOK'
  BY <1>1, <1>6 DEF IInv, ParentOK, Lower, tables
<1> QED
  BY <1>1, <1>3, <1>4, <1>7, <1>8, <1>9, NoFrames DEF IInv

(* CRSetActive.                                                             *)
LEMMA SwitchKeeps ==
  ASSUME IInv, NEW l \in Layer, SetActive(l)
  PROVE  IInv'
<1>1. /\ frames = <<>> /\ frames' = <<>> /\ active' \subseteq active \cup {l}
      /\ UNCHANGED <<fsLayers, files, tables, held, lost>>
  BY DEF SetActive, Locked
<1>2. TypeOK' /\ Shape' /\ TablesOK' /\ HeldOK'
  BY <1>1 DEF IInv, TypeOK, Shape, TablesOK, HeldOK, Open, InStack, files, tables
<1>3. ParentOK'
  BY <1>1 DEF IInv, ParentOK, Lower, Under, tables
<1> QED
  BY <1>1, <1>2, <1>3, NoFrames DEF IInv

(* clearFSLayer.                                                            *)
LEMMA ClearKeeps ==
  ASSUME IInv, ClearFSLayer
  PROVE  IInv'
<1>1. /\ frames = <<>> /\ frames' = <<>> /\ fsLayers' = <<>> /\ active' = {} /\ isDir' = {} /\ lost' = {}
      /\ owner' = [h \in AnyHandle |-> Nil] /\ held' = [h \in AnyHandle |-> Nil]
      /\ opener' = [h \in RealHandle |-> Nil] /\ parent' = [h \in Handle |-> Nil]
      /\ UNCHANGED files
  BY DEF ClearFSLayer, Locked
<1>2. TypeOK'
  BY <1>1 DEF IInv, TypeOK, files
<1>3. Shape' /\ HeldOK' /\ ParentOK'
  BY <1>1 DEF Shape, HeldOK, ParentOK
<1>4. TablesOK'
  BY <1>1, NameAssumption DEF TablesOK, AnyHandle
<1> QED
  BY <1>1, <1>2, <1>3, <1>4, NoFrames DEF IInv

(* What the layer had open is lost, and what the others have open stays.       *)
LEMMA RemoveKeeps ==
  ASSUME IInv, NEW l \in Layer, RemoveFSLayer(l)
  PROVE  IInv'
<1> DEFINE gone == {h \in Handle : owner[h] \in {l}} \cup {h \in RealHandle : opener[h] \in {l}}
<1>1. /\ frames = <<>> /\ frames' = <<>> /\ active' = active \ {l}
      /\ lost' = lost \cup {h \in Handle : owner[h] = l} /\ UNCHANGED <<files, held>>
  BY DEF RemoveFSLayer, Locked
<1>2. /\ owner' = [h \in AnyHandle |-> IF h \in gone THEN Nil ELSE owner[h]]
      /\ isDir' = isDir \ gone
      /\ opener' = [h \in RealHandle |-> IF h \in gone THEN Nil ELSE opener[h]]
      /\ parent' = [h \in Handle |-> IF h \in gone THEN Nil ELSE parent[h]]
  BY DEF RemoveFSLayer, Forget
<1>3. /\ \A h \in Handle : h \in gone <=> owner[h] = l
      /\ \A h \in RealHandle : h \in gone <=> opener[h] = l
  BY NameAssumption
<1> HIDE DEF gone
<1>4. PICK k \in 1 .. Len(fsLayers) : fsLayers[k] = l /\ fsLayers' = RemoveAt(fsLayers, k)
  BY DEF RemoveFSLayer
<1>5. /\ fsLayers \in Seq(Layer) /\ fsLayers' \in Seq(Layer) /\ Len(fsLayers) \in Nat
      /\ Len(fsLayers') = Len(fsLayers) - 1
      /\ \A j \in 1 .. k - 1 : fsLayers'[j] = fsLayers[j]
      /\ \A j \in k + 1 .. Len(fsLayers) : fsLayers'[j - 1] = fsLayers[j]
  <2>1. PICK s : s = fsLayers
    OBVIOUS
  <2>2. s \in Seq(Layer) /\ k \in 1 .. Len(s) /\ fsLayers' = RemoveAt(s, k)
    BY <1>4, <2>1 DEF IInv, TypeOK
  <2>3. /\ RemoveAt(s, k) \in Seq(Layer) /\ Len(RemoveAt(s, k)) = Len(s) - 1
        /\ \A j \in 1 .. k - 1 : RemoveAt(s, k)[j] = s[j]
        /\ \A j \in k + 1 .. Len(s) : RemoveAt(s, k)[j - 1] = s[j]
    BY <2>2, RemoveFacts
  <2> QED
    BY <2>1, <2>2, <2>3
<1>6. \A x : InStack(x) /\ x # l => InStack(x)'
  <2> SUFFICES ASSUME NEW x, InStack(x), x # l PROVE \E j \in 1 .. Len(fsLayers') : fsLayers'[j] = x
    BY DEF InStack
  <2>1. PICK j \in 1 .. Len(fsLayers) : fsLayers[j] = x
    BY DEF InStack
  <2>2. j \in 1 .. k - 1 \/ j \in k + 1 .. Len(fsLayers)
    BY <1>4, <1>5, <2>1
  <2> QED
    BY <1>4, <1>5, <2>1, <2>2
<1>7. \A x, y : Under(x, y) /\ x # l /\ y # l => Under(x, y)'
  <2> SUFFICES ASSUME NEW x, NEW y, Under(x, y), x # l, y # l
               PROVE  \E i, j \in 1 .. Len(fsLayers') : i < j /\ fsLayers'[i] = x /\ fsLayers'[j] = y
    BY DEF Under
  <2>1. PICK i, j \in 1 .. Len(fsLayers) : i < j /\ fsLayers[i] = x /\ fsLayers[j] = y
    BY DEF Under
  <2>2. i # k /\ j # k
    BY <1>4, <2>1
  <2>3. CASE j < k
    <3>1. i \in 1 .. k - 1 /\ j \in 1 .. k - 1 /\ i \in 1 .. Len(fsLayers') /\ j \in 1 .. Len(fsLayers')
      BY <1>4, <1>5, <2>1, <2>3
    <3> QED
      BY <1>5, <2>1, <3>1
  <2>4. CASE i < k /\ k < j
    <3>1. /\ i \in 1 .. k - 1 /\ j \in k + 1 .. Len(fsLayers) /\ i < j - 1
          /\ i \in 1 .. Len(fsLayers') /\ j - 1 \in 1 .. Len(fsLayers')
      BY <1>4, <1>5, <2>1, <2>4
    <3> QED
      BY <1>5, <2>1, <3>1
  <2>5. CASE k < i
    <3>1. /\ i \in k + 1 .. Len(fsLayers) /\ j \in k + 1 .. Len(fsLayers) /\ i - 1 < j - 1
          /\ i - 1 \in 1 .. Len(fsLayers') /\ j - 1 \in 1 .. Len(fsLayers')
      BY <1>4, <1>5, <2>1, <2>5
    <3> QED
      BY <1>5, <2>1, <3>1
  <2> QED
    BY <1>4, <2>1, <2>2, <2>3, <2>4, <2>5
<1>8. TypeOK'
  BY <1>1, <1>2, <1>5 DEF IInv, TypeOK, files, AnyHandle
<1>9. Shape'
  <2>1. \A i, j \in 1 .. Len(fsLayers') : fsLayers'[i] = fsLayers'[j] => i = j
    <3> DEFINE up(i) == IF i < k THEN i ELSE i + 1
    <3>1. \A i \in 1 .. Len(fsLayers') : up(i) \in 1 .. Len(fsLayers) /\ fsLayers'[i] = fsLayers[up(i)]
      <4> SUFFICES ASSUME NEW i \in 1 .. Len(fsLayers')
                   PROVE  up(i) \in 1 .. Len(fsLayers) /\ fsLayers'[i] = fsLayers[up(i)]
        OBVIOUS
      <4>1. CASE i < k
        BY <1>4, <1>5, <4>1
      <4>2. CASE ~(i < k)
        <5>1. i + 1 \in k + 1 .. Len(fsLayers) /\ i + 1 - 1 = i
          BY <1>4, <1>5, <4>2
        <5> QED
          BY <1>4, <1>5, <4>2, <5>1
      <4> QED
        BY <4>1, <4>2
    <3>2. \A i, j \in 1 .. Len(fsLayers') : up(i) = up(j) => i = j
      BY <1>4, <1>5
    <3> QED
      BY <3>1, <3>2 DEF IInv, Shape
  <2> QED
    BY <1>1, <2>1 DEF IInv, Shape
<1>10. TablesOK'
  <2>1. \A h \in Handle : (owner[h] \in Layer \cup {Nil} /\ (owner[h] \in Layer => InStack(owner[h])))'
    <3> SUFFICES ASSUME NEW h \in Handle
                 PROVE  (owner[h] \in Layer \cup {Nil} /\ (owner[h] \in Layer => InStack(owner[h])))'
      OBVIOUS
    <3>1. PICK o : o = owner[h]
      OBVIOUS
    <3>2. /\ o \in Layer \cup {Nil} /\ (o \in Layer => InStack(o)) /\ Nil \notin Layer
          /\ owner'[h] = IF o = l THEN Nil ELSE o
      BY <1>2, <1>3, <3>1, NameAssumption DEF IInv, TablesOK, AnyHandle
    <3>3. o \in Layer /\ o # l => InStack(o)'
      BY <1>6, <3>2
    <3> QED
      BY <3>2, <3>3 DEF InStack
  <2>2. \A h \in RealHandle : owner'[h] \in {Real, Nil} /\ (owner'[h] = Nil => opener'[h] = Nil)
    BY <1>2, <1>3 DEF IInv, TablesOK, AnyHandle
  <2>3. \A h \in isDir' : owner'[h] # Nil
    BY <1>2 DEF IInv, TablesOK, TypeOK
  <2>4. \A h \in Handle : parent'[h] # Nil => h \in isDir' /\ owner'[h] \in Merging
    BY <1>2 DEF IInv, TablesOK, AnyHandle
  <2> QED
    BY <2>1, <2>2, <2>3, <2>4 DEF TablesOK, InStack
<1>11. HeldOK'
  <2> SUFFICES ASSUME NEW h \in AnyHandle \ lost', held[h] # Nil
               PROVE  Open(h)'
    BY <1>1 DEF HeldOK
  <2>1. h \in AnyHandle \ lost /\ Open(h)
    BY <1>1 DEF IInv, HeldOK
  <2>2. h \notin gone
    <3>1. h \in Handle => owner[h] # l
      BY <1>1
    <3>2. h \in RealHandle => opener[h] # l
      BY <2>1, NameAssumption DEF Open
    <3> QED
      BY <1>3, <3>1, <3>2 DEF AnyHandle
  <2> QED
    BY <1>1, <1>2, <2>1, <2>2 DEF Open
<1>12. ParentOK'
  <2> SUFFICES ASSUME NEW h \in Handle, parent'[h] \notin lost' \cup {Nil}
               PROVE  /\ held[parent'[h]] = Nil
                      /\ \A g \in Handle : parent'[g] = parent'[h] => g = h
                      /\ Lower(parent[h], owner[h])'
    BY <1>1 DEF ParentOK
  <2>1. PICK p, o : p = parent[h] /\ o = owner[h]
    OBVIOUS
  <2>2. h \notin gone /\ parent'[h] = p /\ owner'[h] = o /\ p \notin lost \cup {Nil} /\ o # l
    BY <1>1, <1>2, <1>3, <2>1 DEF AnyHandle
  <2>3. /\ held[p] = Nil /\ Lower(p, o)
        /\ \A g \in Handle : parent[g] = p => g = h
    BY <1>1, <2>1, <2>2 DEF IInv, ParentOK
  <2>4. \A g \in Handle : parent'[g] = p => g = h
    BY <1>2, <2>2, <2>3
  <2>5. p \in AnyHandle /\ (p \in Handle => owner[p] # l)
    BY <1>1, <2>1, <2>2 DEF IInv, TypeOK
  <2>6. p \notin gone
    <3>1. ASSUME p \in RealHandle PROVE opener[p] # l
      <4>1. owner[p] \in {Real, Nil}
        BY <3>1 DEF IInv, TablesOK
      <4>2. owner[p] \notin Layer
        BY <4>1, NameAssumption
      <4> QED
        BY <2>2, <2>3, <4>2 DEF Lower
    <3> QED
      BY <1>3, <2>5, <3>1 DEF AnyHandle
  <2>7. owner'[p] = owner[p] /\ p \in isDir' /\ (p \in RealHandle => opener'[p] = opener[p])
    BY <1>2, <2>3, <2>5, <2>6 DEF Lower
  <2>8. Lower(p, o)'
    <3>1. CASE owner[p] = Real /\ opener[p] = o
      <4>1. p \notin Handle
        <5>1. p \in Handle => owner[p] \in Layer \cup {Nil}
          BY DEF IInv, TablesOK
        <5> QED
          BY <3>1, <5>1, NameAssumption
      <4> QED
        BY <2>5, <2>7, <3>1, <4>1 DEF Lower, AnyHandle
    <3>2. CASE owner[p] \in Layer /\ Under(owner[p], o)
      <4>1. PICK x : x = owner[p]
        OBVIOUS
      <4>2. p \in Handle
        <5>1. p \in RealHandle => owner[p] \in {Real, Nil}
          BY DEF IInv, TablesOK
        <5> QED
          BY <2>5, <3>2, <5>1, NameAssumption DEF AnyHandle
      <4>3. Under(x, o)'
        BY <1>7, <2>2, <2>5, <3>2, <4>1, <4>2
      <4> QED
        BY <2>7, <3>2, <4>1, <4>3 DEF Lower, Under
    <3> QED
      BY <2>3, <3>1, <3>2 DEF Lower
  <2> QED
    BY <2>2, <2>3, <2>4, <2>8 DEF Lower, Under
<1> QED
  BY <1>1, <1>8, <1>9, <1>10, <1>11, <1>12, NoFrames DEF IInv

-----------------------------------------------------------------------------
(* The invariant.                                                             *)

(* The invariant holds at first,                                            *)
LEMMA InitHolds == Init => IInv
<1> SUFFICES ASSUME Init PROVE IInv
  OBVIOUS
<1>1. /\ fsLayers = <<>> /\ active = {} /\ isDir = {} /\ lost = {} /\ frames = <<>>
      /\ owner = [h \in AnyHandle |-> Nil] /\ held = [h \in AnyHandle |-> Nil]
      /\ opener = [h \in RealHandle |-> Nil] /\ parent = [h \in Handle |-> Nil]
      /\ has \in [Layer -> SUBSET Path] /\ deleted \in [Layer -> SUBSET Path] /\ realHas \subseteq Path
  BY DEF Init
<1>2. TypeOK
  BY <1>1 DEF TypeOK
<1>3. Shape /\ HeldOK /\ ParentOK /\ WalkOK /\ RetOK
  BY <1>1 DEF Shape, HeldOK, ParentOK, WalkOK, RetOK
<1>4. TablesOK
  BY <1>1, NameAssumption DEF TablesOK, AnyHandle
<1> QED
  BY <1>2, <1>3, <1>4 DEF IInv

(* stays when nothing happens,                                              *)
LEMMA StutterKeeps == IInv /\ UNCHANGED vars => IInv'
<1> SUFFICES ASSUME IInv, UNCHANGED vars PROVE IInv'
  OBVIOUS
<1>1. UNCHANGED <<fsLayers, active, has, deleted, realHas, owner, isDir, opener, parent, held, lost,
                  frames, ret>>
  BY DEF vars, files, tables
<1>2. TypeOK' /\ Shape' /\ TablesOK' /\ HeldOK'
  BY <1>1 DEF IInv, TypeOK, Shape, TablesOK, HeldOK, Open, InStack
<1>3. ParentOK' /\ RetOK'
  BY <1>1 DEF IInv, ParentOK, RetOK, Free, Lower, Under, Top
<1>4. WalkOK'
  <2>1. \A f : Deciders(f)' = Deciders(f) /\ StartIndex(f.client)' = StartIndex(f.client)
    BY <1>1 DEF Deciders, StartIndex, IsDeleted
  <2>2. \A f : Waits(f)' <=> Waits(f)
    BY <1>1, <2>1 DEF Waits, Free
  <2>3. \A f : FrameOK(f)' <=> FrameOK(f)
    BY <2>1, <2>2 DEF FrameOK
  <2>4. \A f, g : (First(f)' <=> First(f)) /\ (Nested(f, g)' <=> Nested(f, g))
    BY <1>1 DEF First, Nested
  <2>5. ASSUME NEW k \in 1 .. Len(frames)
        PROVE  (/\ FrameOK(frames[k])
                /\ k = 1 => First(frames[k])
                /\ k > 1 => Nested(frames[k], frames[k - 1]))'
    <3>1. /\ FrameOK(frames[k])
          /\ k = 1 => First(frames[k])
          /\ k > 1 => Nested(frames[k], frames[k - 1])
      BY <2>5 DEF IInv, WalkOK
    <3>2. PICK f, g : f = frames[k] /\ g = frames[k - 1] /\ f = frames'[k] /\ g = frames'[k - 1]
      BY <1>1
    <3> QED
      BY <2>3, <2>4, <3>1, <3>2
  <2> QED
    BY <1>1, <2>5 DEF IInv, WalkOK
<1> QED
  BY <1>2, <1>3, <1>4 DEF IInv

(* and stays in every step.                                                 *)
LEMMA NextKeeps == IInv /\ Next => IInv'
<1> SUFFICES ASSUME IInv, Next PROVE IInv'
  OBVIOUS
<1>1. CASE Plugin
  BY <1>1, AddKeeps, RemoveKeeps, SwitchKeeps, ClearKeeps DEF Plugin
<1>2. CASE Walk
  BY <1>2, WalkKeeps
<1>3. CASE \E op \in Ops, arg \in Path \cup AnyHandle : Enter(op, arg)
  BY <1>3, EnterKeeps
<1> QED
  BY <1>1, <1>2, <1>3 DEF Next

(* Every reachable state satisfies the invariant the properties below follow    *)
(* from: doForLayer and the layers keep their tables, what the application     *)
(* holds and the frames on the stack in step.                                  *)
THEOREM Invariance == Spec => []IInv
BY InitHolds, NextKeeps, StutterKeeps, PTL DEF Spec

(* The tables and the frames have their types: the index of doForLayer's loop   *)
(* is a natural number in every frame.                                         *)
THEOREM TypeCorrect == Spec => []TypeOK
<1>1. IInv => TypeOK
  BY DEF IInv
<1> QED
  BY <1>1, Invariance, PTL

(* Between two calls every handle the application was given is open where it    *)
(* came from, unless a plugin removed the layer.                               *)
THEOREM AlwaysOpen == Spec => []HeldIsOpen
<1>1. IInv => HeldIsOpen
  BY DEF IInv, HeldOK, HeldIsOpen, Open, Locked
<1> QED
  BY <1>1, Invariance, PTL

(* The directory a merging layer continues with is below it, so the nested     *)
(* doForLayer finds it.                                                        *)
THEOREM AlwaysBelow == Spec => []ParentBelow
<1>1. IInv => ParentBelow
  <2> SUFFICES ASSUME IInv, NEW h \in Handle \ lost, parent[h] \notin lost \cup {Nil},
                      \A k \in 1 .. Len(frames) : frames[k].dir # h
               PROVE  /\ owner[h] \in Merging /\ h \in isDir /\ parent[h] \in isDir
                      /\ \/ owner[parent[h]] = Real /\ opener[parent[h]] = owner[h]
                         \/ /\ owner[parent[h]] \in Layer /\ InStack(owner[parent[h]])
                            /\ Position(owner[parent[h]]) < Position(owner[h])
    BY DEF ParentBelow
  <2>1. Lower(parent[h], owner[h])
    BY DEF IInv, ParentOK
  <2>2. owner[h] \in Merging /\ h \in isDir /\ parent[h] \in isDir
    BY <2>1 DEF IInv, TablesOK, Lower
  <2>3. ASSUME NEW l, NEW m, Under(l, m) PROVE InStack(l) /\ Position(l) < Position(m)
    <3>1. PICK i, j \in 1 .. Len(fsLayers) : i < j /\ fsLayers[i] = l /\ fsLayers[j] = m
      BY <2>3 DEF Under
    <3>2. Position(l) = i /\ Position(m) = j
      BY <3>1 DEF IInv, Shape, Position
    <3> QED
      BY <3>1, <3>2 DEF InStack
  <2> QED
    BY <2>1, <2>2, <2>3 DEF Lower
<1> QED
  BY <1>1, Invariance, PTL

-----------------------------------------------------------------------------
(* Who answers, and what.                                                     *)

(* The call that is answered is the one on top, failed if it had.               *)
Finished ==
  /\ ret'.call.client = Top.client /\ ret'.call.op = Top.op /\ ret'.call.arg = Top.arg
  /\ ~ret'.call.failed => ~Top.failed
ByLayer ==
  /\ Top.i > 0 /\ Top.dir = Nil /\ At \in active /\ Concerned(At, Top) /\ ret'.by = At
  /\ Top.op \in PathOps /\ ~ret'.call.failed =>
       Top.i \in Deciders(Top) /\ (ret'.ok <=> Top.arg \in has[At] /\ ~IsDeleted(At, Top))
ByMerger ==
  Top.dir # Nil /\ ret'.by = At /\ (Top.op = "openDir" => ret'.ok = TRUE)
ByReal ==
  /\ AskReal /\ ret'.by = Real
  /\ Top.op \in PathOps /\ ~ret'.call.failed => (ret'.ok <=> Top.arg \in realHas)

(* A return answers the call on top.                                        *)
LEMMA FinishedCall ==
  ASSUME IInv, Locked, NEW by, NEW ok, NEW failed, Return(by, ok, failed, Nil)
         \/ \E h : Return(by, ok, failed, h)
  PROVE  Finished /\ (~ret'.call.failed => ~failed) /\ ret'.by = by /\ ret'.ok = ok
<1>1. PICK h : Return(by, ok, failed, h)
  OBVIOUS
<1>2. PICK b : b = (Top.failed \/ failed)
  OBVIOUS
<1>3. ret'.call = [Top EXCEPT !.failed = b] /\ ret'.by = by /\ ret'.ok = ok
  <2>1. PICK c : c = [Top EXCEPT !.failed = @ \/ failed]
    OBVIOUS
  <2>2. ret' = [call |-> c, by |-> by, ok |-> ok, h |-> h]
    BY <1>1, <2>1, Zenon DEF Return
  <2>3. c = [Top EXCEPT !.failed = b]
    BY <1>2, <2>1
  <2> QED
    BY <2>2, <2>3
<1>4. Top \in Frame
  BY FrameFacts
<1>5. /\ ret'.call.client = Top.client /\ ret'.call.op = Top.op /\ ret'.call.arg = Top.arg
      /\ ret'.call.failed = b
  BY <1>3, <1>4 DEF Frame
<1>6. ~b => ~Top.failed /\ ~failed
  BY <1>2
<1> QED
  BY <1>3, <1>5, <1>6 DEF Finished

(* A layer that covers the path and has or hides it, or replaces, decides.      *)
LEMMA IsDecider ==
  ASSUME IInv, Locked, Top.i > 0, At \in active, Concerned(At, Top), Top.op \in PathOps,
         At \in Merging => Top.arg \in has[At] \/ IsDeleted(At, Top)
  PROVE  Top.i \in Deciders(Top)
<1>1. Top.i \in 1 .. StartIndex(Top.client)
  BY FrameFacts, ClientIndex DEF IInv, FrameOK
<1> QED
  BY <1>1 DEF Deciders, Concerned, At

(* The answers of layers that do not wait.                                  *)
LEMMA LayerAnswers ==
  ASSUME IInv, ret' # ret,
         \/ AnswerDeleted \/ AnswerError \/ AnswerStat \/ AnswerUseFile \/ AnswerCloseFile
         \/ AnswerReadDir \/ AnswerRewindDir \/ AnswerCloseDir
         \/ \E h \in Handle : AnswerOpenFile(h) \/ AnswerOpenDir(h)
  PROVE  Locked /\ Finished /\ ByLayer
<1>1. Locked /\ Top.i > 0 /\ Top.dir = Nil /\ At \in active /\ Concerned(At, Top)
  BY DEF AnswerDeleted, AnswerError, AnswerStat, AnswerUseFile, AnswerCloseFile, AnswerReadDir,
         AnswerRewindDir, AnswerCloseDir, AnswerOpenFile, AnswerOpenDir, Asked, Asking
<1>2. ASSUME AnswerUseFile \/ AnswerCloseFile \/ AnswerReadDir \/ AnswerRewindDir \/ AnswerCloseDir
      PROVE  Finished /\ ByLayer
  <2>1. Return(At, TRUE, FALSE, Nil) /\ Top.op \notin PathOps
    BY <1>2 DEF AnswerUseFile, AnswerCloseFile, AnswerReadDir, AnswerRewindDir, AnswerCloseDir,
                Asked, PathOps
  <2> QED
    BY <1>1, <2>1, FinishedCall DEF ByLayer
<1>3. ASSUME AnswerDeleted PROVE Finished /\ ByLayer
  <2>1. /\ Return(At, FALSE, FALSE, Nil) /\ IsDeleted(At, Top) /\ Top.op \in PathOps
    BY <1>3 DEF AnswerDeleted, Asked
  <2>2. Finished /\ ret'.by = At /\ ret'.ok = FALSE /\ Top.i \in Deciders(Top)
    BY <1>1, <2>1, FinishedCall, IsDecider
  <2> QED
    BY <1>1, <2>1, <2>2 DEF ByLayer
<1>4. ASSUME AnswerStat \/ (\E h \in Handle : AnswerOpenFile(h)) \/ (\E h \in Handle : AnswerOpenDir(h))
      PROVE  Finished /\ ByLayer
  <2>1. Top.op \in PathOps /\ Top.arg \in has[At] /\ ~IsDeleted(At, Top)
    BY <1>4 DEF AnswerStat, AnswerOpenFile, AnswerOpenDir, Asked, PathOps, IsDeleted
  <2>2. \E h : Return(At, TRUE, FALSE, h)
    BY <1>4 DEF AnswerStat, AnswerOpenFile, AnswerOpenDir
  <2>3. Finished /\ ret'.by = At /\ ret'.ok = TRUE /\ Top.i \in Deciders(Top)
    BY <1>1, <2>1, <2>2, FinishedCall, IsDecider
  <2> QED
    BY <1>1, <2>1, <2>3 DEF ByLayer
<1>5. ASSUME AnswerError PROVE Finished /\ ByLayer
  <2>1. PICK b : b = ~(Top.op \in PathOps /\ Top.arg \notin has[At])
    OBVIOUS
  <2>2. ErrorAnswer(At, b)
    BY <1>5, <2>1, Zenon DEF AnswerError
  <2>3. At \notin Merging /\ Return(At, FALSE, b, Nil)
    BY <2>2 DEF ErrorAnswer, FallBackOnError
  <2>4. Finished /\ (~ret'.call.failed => ~b) /\ ret'.by = At /\ ret'.ok = FALSE
    BY <1>1, <2>3, FinishedCall
  <2>5. ASSUME Top.op \in PathOps, ~ret'.call.failed
        PROVE  Top.i \in Deciders(Top) /\ (ret'.ok <=> Top.arg \in has[At] /\ ~IsDeleted(At, Top))
    <3>1. Top.arg \notin has[At]
      BY <2>1, <2>4, <2>5
    <3>2. Top.i \in Deciders(Top)
      BY <1>1, <2>3, <2>5, IsDecider
    <3> QED
      BY <2>4, <3>1, <3>2
  <2> QED
    BY <1>1, <2>4, <2>5 DEF ByLayer
<1> QED
  BY <1>1, <1>2, <1>3, <1>4, <1>5

(* The answers of merging layers that waited.                               *)
LEMMA MergerAnswers ==
  ASSUME IInv, ret' # ret,
         ResumeOpenDir \/ ResumeReadDir \/ ResumeRewindDir \/ ResumeCloseDir
  PROVE  Locked /\ Finished /\ ByMerger
<1>1. Locked /\ Top.dir # Nil
  BY DEF ResumeOpenDir, ResumeReadDir, ResumeRewindDir, ResumeCloseDir, Resuming
<1>2. CASE ResumeOpenDir
  <2>1. Return(At, TRUE, FALSE, Top.dir)
    BY <1>2 DEF ResumeOpenDir
  <2> QED
    BY <1>1, <2>1, FinishedCall DEF ByMerger
<1>3. CASE ResumeReadDir \/ ResumeRewindDir \/ ResumeCloseDir
  <2>1. Top.op # "openDir"
    BY <1>3 DEF ResumeReadDir, ResumeRewindDir, ResumeCloseDir, Resuming
  <2>2. \E ok, failed : Return(At, ok, failed, Nil)
    BY <1>3 DEF ResumeReadDir, ResumeRewindDir, ResumeCloseDir, ErrorAnswer
  <2>3. PICK ok, failed : Return(At, ok, failed, Nil)
    BY <2>2
  <2> QED
    BY <1>1, <2>1, <2>3, FinishedCall DEF ByMerger
<1> QED
  BY <1>1, <1>2, <1>3

(* The answers of the real functions.                                       *)
LEMMA RealAnswers ==
  ASSUME IInv, ret' # ret, (\E h \in RealHandle : RealOpen(h)) \/ RealStat \/ RealFails \/ RealUse
  PROVE  Locked /\ Finished /\ ByReal
<1>1. AskReal /\ Locked
  BY DEF RealOpen, RealStat, RealFails, RealUse, AskReal
<1>2. CASE \E h \in RealHandle : RealOpen(h)
  <2>1. /\ \E h : Return(Real, TRUE, FALSE, h)
        /\ Top.arg \in realHas
    BY <1>2 DEF RealOpen
  <2>2. Finished /\ ret'.by = Real /\ ret'.ok = TRUE
    BY <1>1, <2>1, FinishedCall
  <2> QED
    BY <1>1, <2>1, <2>2 DEF ByReal
<1>3. CASE RealStat
  <2>1. PICK b : b = (Top.arg \in realHas)
    OBVIOUS
  <2>2. Return(Real, b, FALSE, Nil)
    BY <1>3, <2>1, Zenon DEF RealStat
  <2>3. Finished /\ ret'.by = Real /\ ret'.ok = b
    BY <1>1, <2>2, FinishedCall
  <2> QED
    BY <1>1, <2>1, <2>3 DEF ByReal
<1>4. CASE RealFails
  <2>1. PICK b : b = (Top.arg \in realHas)
    OBVIOUS
  <2>2. Return(Real, FALSE, b, Nil)
    BY <1>4, <2>1, Zenon DEF RealFails
  <2>3. Finished /\ (~ret'.call.failed => ~b) /\ ret'.by = Real /\ ret'.ok = FALSE
    BY <1>1, <2>2, FinishedCall
  <2> QED
    BY <1>1, <2>1, <2>3 DEF ByReal
<1>5. CASE RealUse
  <2>1. PICK b : b = (owner[Top.arg] = Real)
    OBVIOUS
  <2>2. Return(Real, b, FALSE, Nil) /\ Top.op \notin PathOps
    BY <1>5, <2>1, Zenon DEF RealUse
  <2> QED
    BY <1>1, <2>2, FinishedCall DEF ByReal
<1> QED
  BY <1>1, <1>2, <1>3, <1>4, <1>5

(* There are no others.                                                     *)
LEMMA WhoAnswers ==
  ASSUME IInv, [Next]_vars, ret' # ret, ret' # Nil
  PROVE  Locked /\ Finished /\ (ByLayer \/ ByMerger \/ ByReal)
<1>1. Next
  BY DEF vars
<1>2. Walk
  BY <1>1 DEF Next, Plugin, AddLayer, RemoveFSLayer, SetActive, ClearFSLayer, Enter
<1>3. ~(PassBy \/ ReadParentAgain \/ \E op \in DirOps : AskParent(op))
  BY DEF PassBy, ReadParentAgain, AskParent
<1> QED
  BY <1>2, <1>3, LayerAnswers, MergerAnswers, RealAnswers DEF Walk

(* The largest decider is where the walk is: nothing above decided.            *)
LEMMA Decides ==
  ASSUME IInv, Locked, Top.op \in PathOps, ~Top.failed,
         NEW c, c.client = Top.client, c.op = Top.op, c.arg = Top.arg
  PROVE  /\ Top.i \in Deciders(Top) => Decider(c) = At /\ Decider(c) # Real
         /\ Top.i = 0 => Decider(c) = Real
<1>1. Deciders(c) = Deciders(Top)
  BY DEF Deciders, IsDeleted
<1>2. \A j \in Deciders(Top) : j <= Top.i
  BY FrameFacts DEF FrameOK
<1>3. StartIndex(Top.client) \in Nat /\ Deciders(Top) \subseteq 1 .. StartIndex(Top.client)
  BY ClientIndex DEF IInv, Deciders
<1>4. ASSUME Top.i \in Deciders(Top) PROVE Decider(c) = At /\ Decider(c) # Real
  <2>1. PICK D, m : D = Deciders(Top) /\ m = Top.i
    OBVIOUS
  <2>2. m \in D /\ D \subseteq Nat /\ \A j \in D : j <= m
    BY <1>2, <1>3, <1>4, <2>1
  <2>3. Max(D) = m
    <3>1. Max(D) \in D /\ \A y \in D : Max(D) >= y
      BY <2>2 DEF Max
    <3>2. PICK x \in D : x = Max(D)
      BY <3>1
    <3>3. x \in Nat /\ m \in Nat /\ x <= m /\ x >= m
      BY <2>2, <3>1, <3>2
    <3> QED
      BY <3>2, <3>3
  <2>4. Decider(c) = At
    BY <1>1, <2>1, <2>2, <2>3 DEF Decider, At
  <2>5. At \in Layer
    BY <1>3, <1>4, FrameFacts
  <2> QED
    BY <2>4, <2>5, NameAssumption
<1>5. ASSUME Top.i = 0 PROVE Decider(c) = Real
  <2>1. Deciders(c) = {}
    BY <1>1, <1>2, <1>3, <1>5
  <2> QED
    BY <2>1 DEF Decider
<1> QED
  BY <1>4, <1>5

(* A walk for a path ends at the topmost layer that decides about it, with its   *)
(* answer, whatever was nested on the way: doForLayer and the merging layers    *)
(* together are an overlay.                                                   *)
THEOREM Resolves == Spec => OverlayResolution
<1>1. ASSUME IInv, [Next]_vars, ret' # ret, ret' # Nil, ret'.call.op \in PathOps, ~ret'.call.failed
      PROVE  ret'.by = Decider(ret'.call) /\ (ret'.ok <=> Present(ret'.call))
  <2>1. PICK c : c = ret'.call
    OBVIOUS
  <2>2. /\ Locked /\ c.client = Top.client /\ c.op = Top.op /\ c.arg = Top.arg
        /\ ~Top.failed /\ Top.op \in PathOps /\ (ByLayer \/ ByMerger \/ ByReal)
    BY <1>1, <2>1, WhoAnswers DEF Finished
  <2>3. /\ Top.i \in Deciders(Top) => Decider(c) = At /\ Decider(c) # Real
        /\ Top.i = 0 => Decider(c) = Real
    BY <1>1, <2>2, Decides
  <2>4. \A l : IsDeleted(l, c) <=> IsDeleted(l, Top)
    BY <2>2 DEF IsDeleted
  <2>5. CASE ByLayer
    <3>1. /\ Decider(c) = At /\ Decider(c) # Real /\ ret'.by = At
          /\ ret'.ok <=> Top.arg \in has[At] /\ ~IsDeleted(At, Top)
      BY <1>1, <2>2, <2>3, <2>5 DEF ByLayer
    <3> QED
      BY <2>1, <2>2, <2>4, <3>1 DEF Present
  <2>6. CASE ByMerger
    <3>1. Waits(Top) /\ Top.op = "openDir" /\ At \in Merging
      BY <1>1, <2>2, <2>6, WaiterFacts DEF ByMerger, DirOps, PathOps
    <3>2. Top.i \in Deciders(Top) /\ ret'.by = At /\ ret'.ok = TRUE
      BY <2>6, <3>1 DEF ByMerger, Waits
    <3>3. Top.arg \in has[At] /\ ~IsDeleted(At, Top)
      BY <3>1, <3>2 DEF Deciders, At, IsDeleted
    <3> QED
      BY <2>1, <2>2, <2>3, <2>4, <3>2, <3>3 DEF Present
  <2>7. CASE ByReal
    <3>1. Decider(c) = Real /\ ret'.by = Real /\ (ret'.ok <=> Top.arg \in realHas)
      BY <1>1, <2>2, <2>3, <2>7 DEF ByReal, AskReal
    <3> QED
      BY <2>1, <2>2, <3>1 DEF Present
  <2> QED
    BY <2>2, <2>5, <2>6, <2>7
<1>2. IInv /\ [Next]_vars =>
        (ret' # ret /\ ret' # Nil =>
           (ret'.call.op \in PathOps /\ ~ret'.call.failed =>
              ret'.by = Decider(ret'.call) /\ (ret'.ok <=> Present(ret'.call))))
  BY <1>1
<1> QED
  BY <1>2, Invariance, PTL DEF Spec, OverlayResolution

(* An application's handle is answered for by the layer that opened it, and by   *)
(* the real function only when that layer is switched off or failed.            *)
THEOREM AnsweredAtHome == Spec => GoesHome
<1>1. ASSUME IInv, [Next]_vars, ret' # ret, ret' # Nil, ret'.call.client = Client,
             ret'.call.op \notin PathOps, ret'.call.arg \notin lost
      PROVE  LET home == held[ret'.call.arg].by IN
             \/ ret'.by = home
             \/ ret'.by = Real /\ (home \notin active \/ ret'.call.failed)
  <2>1. PICK g, home : g = ret'.call.arg /\ home = held[g].by
    OBVIOUS
  <2>2. /\ Locked /\ Top.client = Client /\ Top.op \notin PathOps /\ g = Top.arg /\ g \notin lost
        /\ (~ret'.call.failed => ~Top.failed) /\ (ByLayer \/ ByMerger \/ ByReal)
    BY <1>1, <2>1, WhoAnswers DEF Finished
  <2>3. Len(frames) = 1 /\ First(Top) /\ Top = frames[1]
    <3>1. Len(frames) > 1 => Top.client \in Layer
      <4> SUFFICES ASSUME Len(frames) > 1 PROVE Top.client \in Layer
        OBVIOUS
      <4>1. PICK f \in Lower1 : Nested(Top, f)
        BY <1>1, <2>2, FrameFacts
      <4>2. f.i \in 1 .. Len(fsLayers)
        BY <1>1, <2>2, LowerFacts
      <4> QED
        BY <1>1, <4>1, <4>2 DEF Nested, IInv, TypeOK
    <3> QED
      BY <1>1, <2>2, <3>1, FrameFacts, NameAssumption
  <2>4. g \in AnyHandle /\ held[g] # Nil
    BY <1>1, <2>2, <2>3, ArgFacts DEF First
  <2>5. owner[g] = home \/ owner[g] = Nil
    BY <1>1, <2>1, <2>2, <2>4 DEF IInv, HeldOK, Open
  <2>6. Nil \notin Layer
    BY NameAssumption
  <2>7. CASE ByLayer
    <3>1. owner[g] = At /\ At \in Layer /\ ret'.by = At
      BY <1>1, <2>2, <2>7, FrameFacts DEF ByLayer, Concerned
    <3> QED
      BY <2>1, <2>5, <2>6, <3>1
  <2>8. CASE ByMerger
    <3>1. owner[Top.dir] = At /\ At \in Layer /\ ret'.by = At
          /\ (Top.op \in DirOps => Top.arg = Top.dir) /\ Top.op \in DirOps \cup {"openDir"}
      BY <1>1, <2>2, <2>8, WaiterFacts DEF ByMerger
    <3>2. owner[g] = At
      BY <2>2, <3>1 DEF PathOps
    <3> QED
      BY <2>1, <2>5, <2>6, <3>1, <3>2
  <2>9. CASE ByReal
    <3>1. Top.i = 0 /\ ret'.by = Real
      BY <2>9 DEF ByReal, AskReal
    <3>2. ~(home \in active /\ ~Top.failed)
      <4>1. home \in active /\ ~Top.failed => \E j \in 1 .. Top.i : fsLayers[j] = home
        BY <2>1, <2>2, <2>3 DEF First
      <4> QED
        BY <3>1, <4>1
    <3> QED
      BY <2>1, <2>2, <3>1, <3>2
  <2> QED
    BY <2>2, <2>7, <2>8, <2>9
<1>2. IInv /\ [Next]_vars =>
        (ret' # ret /\ ret' # Nil /\ ret'.call.client = Client
           /\ ret'.call.op \notin PathOps /\ ret'.call.arg \notin lost =>
           LET home == held[ret'.call.arg].by IN
           \/ ret'.by = home
           \/ ret'.by = Real /\ (home \notin active \/ ret'.call.failed))
  BY <1>1
<1> QED
  BY <1>2, Invariance, PTL DEF Spec, GoesHome
=============================================================================
