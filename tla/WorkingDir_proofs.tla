-------------------------- MODULE WorkingDir_proofs --------------------------
(***************************************************************************)
(* Proofs about WorkingDir for every set of clients, layers and paths, any    *)
(* number of layers and of changes of directory on their way.                *)
(***************************************************************************)
EXTENDS WorkingDir, Paths_proofs, FiniteSetTheorems

-----------------------------------------------------------------------------
(* The inductive invariant: as long as the notes are not cleared, the layers   *)
(* of a walk completed its path to what getFullPath makes of it now.           *)

Fields == {"client", "path", "i", "asked", "by", "full", "target", "cleared"}
WalkIsRecord == walk # Nil => walk = [f \in Fields |-> walk[f]]
AskedSame == walk # Nil /\ ~walk.cleared =>
               walk.asked \subseteq {getFullPath(walk.client, walk.path)}
IInv == TypeOK /\ WalkIsRecord /\ AskedSame

Layers == [is : LayerKind, active : BOOLEAN]

-----------------------------------------------------------------------------
(* A note ends with a slash, also the one that is made up.                     *)
LEMMA EndOfAppend ==
  ASSUME NEW S, NEW seq \in Seq(S), NEW e \in S
  PROVE  Append(seq, e) \in Seq(S) /\ (EndsWithSlash(Append(seq, e)) <=> e = Slash)
<1> DEFINE s == Append(seq, e)
<1>1. s \in Seq(S) /\ s # <<>> /\ Len(s) = Len(seq) + 1 /\ s[Len(seq) + 1] = e
  <2>1. /\ Append(seq, e) \in Seq(S) /\ Append(seq, e) # <<>>
        /\ Len(Append(seq, e)) = Len(seq) + 1
        /\ Append(seq, e)[Len(seq) + 1] = e
    BY AppendProperties
  <2> QED
    BY <2>1
<1> HIDE DEF s
<1>2. s[Len(s)] = e
  BY <1>1
<1> QED
  BY <1>1, <1>2, Zenon DEF EndsWithSlash, s

(* The slash that setWorkingDir adds.                                          *)
LEMMA WithSlashEnds ==
  ASSUME NEW path \in Seq(Token)
  PROVE  WithSlash(path) \in Seq(Token) /\ EndsWithSlash(WithSlash(path))
<1>1. CASE path # <<>> /\ path[Len(path)] = Slash
  BY <1>1 DEF WithSlash, EndsWithSlash
<1>2. CASE ~(path # <<>> /\ path[Len(path)] = Slash)
  <2>1. WithSlash(path) = Append(path, Slash)
    BY <1>2, Zenon DEF WithSlash
  <2>2. Slash \in Token
    BY DEF Token
  <2> QED
    BY <2>1, <2>2, EndOfAppend, Zenon
<1> QED
  BY <1>1, <1>2

(* A note ends in a slash, the made-up one included.                           *)
LEMMA NoteEnds ==
  ASSUME TypeOK, NEW c \in Client
  PROVE  NoteOf(c) \in Seq(Token) /\ EndsWithSlash(NoteOf(c))
<1>1. CASE workingDirs[c] = Nil
  <2>1. NoteOf(c) = <<Slash>>
    BY <1>1 DEF NoteOf
  <2>2. <<Slash>> = Append(<<>>, Slash) /\ <<>> \in Seq(Token) /\ Slash \in Token
    BY DEF Token
  <2> QED
    BY <2>1, <2>2, EndOfAppend, Zenon
<1>2. CASE workingDirs[c] # Nil
  BY <1>2 DEF NoteOf, TypeOK
<1> QED
  BY <1>1, <1>2

(* Completing a path leaves what it completes to as it was, for every path of   *)
(* the client: the note that is made up is the one that was used.              *)
LEMMA NoteKept ==
  ASSUME TypeOK, NEW c \in Client, NEW path,
         workingDirs' = NoteAfterwards(c, path), NEW d \in Client
  PROVE  /\ NoteOf(d)' = NoteOf(d)
         /\ workingDirs'[d] = workingDirs[d] \/ (workingDirs[d] = Nil /\ workingDirs'[d] = <<Slash>>)
<1>1. CASE IsAbsolute(path)
  BY <1>1 DEF NoteAfterwards, NoteOf
<1>2. CASE ~IsAbsolute(path)
  <2>1. workingDirs' = [workingDirs EXCEPT ![c] = NoteOf(c)]
    BY <1>2 DEF NoteAfterwards
  <2>2. NoteOf(c) # Nil
    BY NoteEnds, WorkingDirAssumption
  <2> QED
    BY <2>1, <2>2 DEF NoteOf, TypeOK
<1> QED
  BY <1>1, <1>2

LEMMA NoteKeepsPaths ==
  ASSUME TypeOK, NEW c \in Client, NEW path,
         workingDirs' = NoteAfterwards(c, path)
  PROVE  \A d \in Client : \A p : getFullPath(d, p)' = getFullPath(d, p)
BY NoteKept DEF getFullPath

-----------------------------------------------------------------------------
(* The types.                                                                 *)

LEMMA NotesAfterwards ==
  ASSUME TypeOK, NEW c \in Client, NEW path,
         workingDirs' = NoteAfterwards(c, path)
  PROVE  /\ workingDirs' \in [Client -> {Nil} \cup Seq(Token)]
         /\ \A d \in Client : workingDirs'[d] # Nil => EndsWithSlash(workingDirs'[d])
BY NoteEnds DEF TypeOK, NoteAfterwards

(* Noting a directory keeps the notes' type and slashes.                       *)
LEMMA NoteTaken ==
  ASSUME TypeOK, NEW c \in Client, NEW path \in Dir,
         workingDirs' = [workingDirs EXCEPT ![c] = WithSlash(path)]
  PROVE  /\ workingDirs' \in [Client -> {Nil} \cup Seq(Token)]
         /\ \A d \in Client : workingDirs'[d] # Nil => EndsWithSlash(workingDirs'[d])
<1>1. path \in Seq(Token)
  BY WorkingDirAssumption
<1>2. WithSlash(path) \in Seq(Token) /\ EndsWithSlash(WithSlash(path))
  BY <1>1, WithSlashEnds
<1> QED
  BY <1>2 DEF TypeOK

(* Marking changes as overtaken keeps the sequence's type and length.          *)
LEMMA OvertakenType ==
  ASSUME NEW sq \in Seq(Change)
  PROVE  Overtaken(sq) \in Seq(Change) /\ Len(Overtaken(sq)) = Len(sq)
<1>1. Len(sq) \in Nat /\ DOMAIN sq = 1 .. Len(sq)
      /\ \A i \in 1 .. Len(sq) : sq[i] \in Change
  BY LenProperties, ElementOfSeq
<1>2. \A i \in 1 .. Len(sq) : [sq[i] EXCEPT !.newest = FALSE] \in Change
  BY <1>1 DEF Change
<1>3. Overtaken(sq) = [i \in 1 .. Len(sq) |-> [sq[i] EXCEPT !.newest = FALSE]]
  BY <1>1 DEF Overtaken
<1> QED
  BY <1>1, <1>2, <1>3, IsASeq

(* Taking a change out shortens the sequence by one.                           *)
LEMMA RemoveAtType ==
  ASSUME NEW S, NEW sq \in Seq(S), NEW i \in 1 .. Len(sq)
  PROVE  RemoveAt(sq, i) \in Seq(S) /\ Len(RemoveAt(sq, i)) = Len(sq) - 1
<1> DEFINE low == SubSeq(sq, 1, i - 1)
           high == SubSeq(sq, i + 1, Len(sq))
<1>1. Len(sq) \in Nat
  BY LenProperties
<1>2. /\ low \in Seq(S) /\ Len(low) = i - 1
      /\ high \in Seq(S) /\ Len(high) = Len(sq) - i
  BY <1>1
<1>3. RemoveAt(sq, i) = low \o high
  BY DEF RemoveAt
<1> HIDE DEF low, high
<1>4. low \o high \in Seq(S) /\ Len(low \o high) = Len(low) + Len(high)
  BY <1>2, ConcatProperties
<1> QED
  BY <1>1, <1>2, <1>3, <1>4

-----------------------------------------------------------------------------

(* The invariant holds at the start.                                           *)
LEMMA InitIInv == Init => IInv
<1> SUFFICES ASSUME Init PROVE IInv
  OBVIOUS
<1>1. /\ layers \in Seq(Layers) /\ Len(layers) <= MaxLayers
      /\ changes \in [Client -> Seq(Change)]
      /\ \A c \in Client : Len(changes[c]) <= MaxChanges
  BY WorkingDirAssumption, EmptySeq DEF Init
<1>2. workingDirs \in [Client -> {Nil} \cup Seq(Token)] /\ excuse \in [Client -> {Nil} \cup Reasons]
      /\ consoleDir \in [Client -> Places]
      /\ \A c \in Client : workingDirs[c] = Nil
  BY WorkingDirAssumption DEF Init, Reasons
<1>3. phase = "running" /\ late = {} /\ walk = Nil
  BY DEF Init
<1> QED
  BY <1>1, <1>2, <1>3 DEF IInv, TypeOK, WalkIsRecord, AskedSame, Layers

(* The walk of a step that leaves the walk and the notes alone.                *)
LEMMA NothingAsked ==
  ASSUME IInv, UNCHANGED <<walk, workingDirs>>
  PROVE  WalkIsRecord' /\ AskedSame'
<1>1. \A c, p : getFullPath(c, p)' = getFullPath(c, p)
  BY DEF getFullPath, NoteOf
<1> QED
  BY <1>1 DEF IInv, WalkIsRecord, AskedSame

(* Between walks there is nothing to compare.                                  *)
LEMMA NoWalk == walk' = Nil => WalkIsRecord' /\ AskedSame'
BY DEF WalkIsRecord, AskedSame

(* The walk of a step that goes on to index n, with what was asked for.        *)
WalkSame(asked, n) ==
  /\ walk' = [f \in Fields |-> walk'[f]]
  /\ walk'.client = walk.client /\ walk'.path = walk.path /\ walk'.cleared = walk.cleared
  /\ walk'.asked = asked /\ walk'.i = n /\ walk'.by \in {walk.by, walk.i}

(* Every action keeps it.                                                      *)
LEMMA StepIInv == IInv /\ [Next]_vars => IInv'
<1> SUFFICES ASSUME IInv, [Next]_vars PROVE IInv'
  OBVIOUS
<1>1. ASSUME NEW l \in LayerKind, AddLayer(l) PROVE IInv'
  <2>1. WalkIsRecord' /\ AskedSame'
    BY <1>1, NothingAsked DEF AddLayer
  <2>2. layers' \in Seq(Layers) /\ Len(layers') <= MaxLayers
    <3>1. [is |-> l, active |-> TRUE] \in Layers /\ layers \in Seq(Layers)
      BY <1>1 DEF IInv, TypeOK, Layers
    <3> QED
      BY <1>1, <3>1, AppendProperties, LenProperties, WorkingDirAssumption DEF AddLayer
  <2> QED
    BY <1>1, <2>1, <2>2 DEF IInv, TypeOK, AddLayer, Unlocked, Layers
<1>2. ASSUME NEW i \in 1 .. MaxLayers, SetActive(i) PROVE IInv'
  <2>1. WalkIsRecord' /\ AskedSame'
    BY <1>2, NothingAsked DEF SetActive
  <2>2. layers' \in Seq(Layers) /\ Len(layers') = Len(layers)
    <3>1. i \in 1 .. Len(layers) /\ layers \in Seq(Layers)
      BY <1>2 DEF IInv, TypeOK, SetActive, Layers
    <3>2. layers[i] \in Layers
      BY <3>1, ElementOfSeq
    <3>3. [layers[i] EXCEPT !.active = ~@] \in Layers
      BY <3>2, Zenon DEF Layers
    <3> QED
      BY <1>2, <3>1, <3>3, ExceptSeq DEF SetActive
  <2> QED
    BY <1>2, <2>1, <2>2 DEF IInv, TypeOK, SetActive, Unlocked, Layers
<1>3. ASSUME NEW c \in Client, NEW dir \in Dir, FSAChangeDir(c, dir) PROVE IInv'
  <2>1. walk' = Nil
    BY <1>3 DEF FSAChangeDir, Unlocked
  <2>2. /\ workingDirs' \in [Client -> {Nil} \cup Seq(Token)]
        /\ \A d \in Client : workingDirs'[d] # Nil => EndsWithSlash(workingDirs'[d])
    <3>1. CASE SomeActive
      BY <1>3, <3>1, NoteTaken DEF FSAChangeDir, IInv
    <3>2. CASE ~SomeActive
      BY <1>3, <3>2 DEF FSAChangeDir, IInv, TypeOK
    <3> QED
      BY <3>1, <3>2
  <2>3. changes' \in [Client -> Seq(Change)] /\ \A d \in Client : Len(changes'[d]) <= MaxChanges
    <3> DEFINE before == IF SomeActive THEN Overtaken(changes[c]) ELSE changes[c]
               new == [path |-> dir, noted |-> SomeActive, newest |-> SomeActive]
    <3>1. before \in Seq(Change) /\ Len(before) = Len(changes[c])
      BY OvertakenType DEF IInv, TypeOK
    <3>2. new \in Change
      BY Zenon DEF Change, SomeActive
    <3>3. Append(before, new) \in Seq(Change) /\ Len(Append(before, new)) = Len(changes[c]) + 1
      BY <3>1, <3>2, AppendProperties
    <3>4. changes' = [changes EXCEPT ![c] = Append(before, new)]
      BY <1>3 DEF FSAChangeDir
    <3>5. Len(changes[c]) < MaxChanges /\ Len(changes[c]) \in Nat
      BY <1>3, LenProperties DEF FSAChangeDir, IInv, TypeOK
    <3> QED
      BY <3>3, <3>4, <3>5, WorkingDirAssumption DEF IInv, TypeOK
  <2>4. late' \subseteq Client
    BY <1>3 DEF FSAChangeDir, IInv, TypeOK
  <2> QED
    BY <1>3, <2>1, <2>2, <2>3, <2>4, NoWalk DEF IInv, TypeOK, FSAChangeDir
<1>4. ASSUME NEW c \in Client, NEW i \in 1 .. MaxChanges, NEW done \in BOOLEAN,
             RealChangeDir(c, i, done)
      PROVE  IInv'
  <2>1. WalkIsRecord' /\ AskedSame'
    BY <1>4, NothingAsked DEF RealChangeDir
  <2>2. changes' \in [Client -> Seq(Change)] /\ \A d \in Client : Len(changes'[d]) <= MaxChanges
    <3>1. changes[c] \in Seq(Change) /\ i \in 1 .. Len(changes[c]) /\ Len(changes[c]) \in Nat
      BY <1>4, LenProperties DEF RealChangeDir, IInv, TypeOK
    <3>2. RemoveAt(changes[c], i) \in Seq(Change)
          /\ Len(RemoveAt(changes[c], i)) = Len(changes[c]) - 1
      BY <3>1, RemoveAtType
    <3>3. changes' = [changes EXCEPT ![c] = RemoveAt(changes[c], i)]
      BY <1>4 DEF RealChangeDir
    <3>4. changes \in [Client -> Seq(Change)] /\ \A d \in Client : Len(changes[d]) <= MaxChanges
      BY DEF IInv, TypeOK
    <3>5. Len(changes[c]) - 1 <= MaxChanges
      BY <3>1, <3>4, WorkingDirAssumption
    <3> QED
      BY <3>2, <3>3, <3>4, <3>5
  <2>3. consoleDir' \in [Client -> Places]
    BY <1>4 DEF RealChangeDir, IInv, TypeOK
  <2>4. excuse' \in [Client -> {Nil} \cup Reasons]
    BY <1>4 DEF RealChangeDir, IInv, TypeOK, Reasons
  <2> QED
    BY <1>4, <2>1, <2>2, <2>3, <2>4 DEF IInv, TypeOK, RealChangeDir
<1>5. ASSUME NEW c \in Client, NEW path \in Path, Enter(c, path) PROVE IInv'
  <2>1. WalkIsRecord' /\ AskedSame'
    BY <1>5 DEF Enter, WalkIsRecord, AskedSame, Fields
  <2>2. Len(layers) \in Nat
    BY LenProperties DEF IInv, TypeOK
  <2> QED
    BY <1>5, <2>1, <2>2 DEF IInv, TypeOK, Enter
<1>6. CASE PassBy
  <2>1. walk # Nil /\ walk' = [walk EXCEPT !.i = @ - 1] /\ walk.i \in 1 .. Len(layers)
        /\ walk.by = 0
    BY <1>6, LenProperties DEF PassBy, Asking, IInv, TypeOK
  <2>2. WalkSame(walk.asked, walk.i - 1)
    BY <2>1 DEF WalkSame, IInv, WalkIsRecord, Fields
  <2>3. getFullPath(walk.client, walk.path)' = getFullPath(walk.client, walk.path)
    BY <1>6, <2>2 DEF PassBy, WalkSame, getFullPath, NoteOf
  <2>4. WalkIsRecord' /\ AskedSame'
    BY <2>1, <2>2, <2>3 DEF WalkSame, IInv, AskedSame, WalkIsRecord
  <2> QED
    BY <1>6, <2>1, <2>2, <2>4 DEF IInv, TypeOK, PassBy, WalkSame
<1>7. CASE AskLayer
  <2> DEFINE full == getFullPath(walk.client, walk.path)
  <2>1. /\ walk # Nil /\ walk.i \in 1 .. Len(layers) /\ walk.by = 0
        /\ walk.client \in Client
    BY <1>7, LenProperties DEF AskLayer, Asking, IInv, TypeOK
  <2>2. \/ walk' = [walk EXCEPT !.asked = @ \cup {full}, !.i = @ - 1]
        \/ \E target : walk' = [walk EXCEPT !.asked = @ \cup {full}, !.by = walk.i,
                                            !.full = full, !.target = target]
    BY <1>7 DEF AskLayer
  <2> HIDE DEF full
  <2>3. \E n \in {walk.i - 1, walk.i} : WalkSame(walk.asked \cup {full}, n)
    BY <2>1, <2>2 DEF WalkSame, IInv, WalkIsRecord, Fields
  <2>4. workingDirs' = NoteAfterwards(walk.client, walk.path)
    BY <1>7 DEF AskLayer
  <2>5. getFullPath(walk.client, walk.path)' = full
    <3>1. WalkSame(walk.asked \cup {full}, walk.i) \/ WalkSame(walk.asked \cup {full}, walk.i - 1)
      BY <2>3
    <3>2. walk'.client = walk.client /\ walk'.path = walk.path
      BY <3>1 DEF WalkSame
    <3> QED
      BY <2>1, <2>4, <3>2, NoteKeepsPaths DEF full, IInv
  <2>6. WalkIsRecord' /\ AskedSame'
    BY <2>1, <2>3, <2>5 DEF WalkSame, IInv, AskedSame, WalkIsRecord, full
  <2>7. /\ workingDirs' \in [Client -> {Nil} \cup Seq(Token)]
        /\ \A d \in Client : workingDirs'[d] # Nil => EndsWithSlash(workingDirs'[d])
    BY <2>1, <2>4, NotesAfterwards DEF IInv
  <2>8. /\ walk'.client \in Client /\ walk'.path \in Path /\ walk'.cleared \in BOOLEAN
        /\ walk'.i \in 0 .. Len(layers) /\ walk'.by \in 0 .. Len(layers)
    BY <2>1, <2>3 DEF WalkSame, IInv, TypeOK
  <2> QED
    BY <1>7, <2>6, <2>7, <2>8 DEF IInv, TypeOK, AskLayer
<1>8. CASE Leave
  BY <1>8, NoWalk DEF IInv, TypeOK, Leave
<1>9. CASE ClearWorkingDirs
  <2>1. WalkIsRecord' /\ AskedSame'
    BY <1>9 DEF ClearWorkingDirs, IInv, WalkIsRecord, AskedSame, Fields
  <2>2. changes' \in [Client -> Seq(Change)] /\ \A c \in Client : Len(changes'[c]) <= MaxChanges
    BY <1>9, OvertakenType DEF ClearWorkingDirs, IInv, TypeOK
  <2>3. walk' # Nil => /\ walk'.client = walk.client /\ walk'.path = walk.path
                       /\ walk'.i = walk.i /\ walk'.by = walk.by
                       /\ walk'.cleared = TRUE /\ walk # Nil
    BY <1>9 DEF ClearWorkingDirs, IInv, WalkIsRecord, Fields
  <2>4. excuse' \in [Client -> {Nil} \cup Reasons]
    BY <1>9 DEF ClearWorkingDirs, IInv, TypeOK, Reasons
  <2> QED
    BY <1>9, <2>1, <2>2, <2>3, <2>4 DEF IInv, TypeOK, ClearWorkingDirs
<1>10. CASE ClearLayers
  <2>1. layers' \in Seq(Layers) /\ Len(layers') = 0
    BY <1>10, EmptySeq DEF ClearLayers
  <2>2. walk' = Nil
    BY <1>10 DEF ClearLayers, Unlocked
  <2> QED
    BY <1>10, <2>1, <2>2, NoWalk, WorkingDirAssumption DEF IInv, TypeOK, ClearLayers, Layers
<1>11. CASE NextApplication
  <2>1. walk' = Nil
    BY <1>11 DEF NextApplication, Unlocked
  <2>2. changes' \in [Client -> Seq(Change)] /\ \A c \in Client : Len(changes'[c]) <= MaxChanges
    BY <1>11, EmptySeq, WorkingDirAssumption DEF NextApplication
  <2>3. excuse' \in [Client -> {Nil} \cup Reasons] /\ consoleDir' \in [Client -> Places]
    BY <1>11, WorkingDirAssumption DEF NextApplication, Reasons
  <2> QED
    BY <1>11, <2>1, <2>2, <2>3, NoWalk DEF IInv, TypeOK, NextApplication
<1>12. CASE UNCHANGED vars
  BY <1>12, NothingAsked DEF IInv, TypeOK, vars
<1> QED
  BY <1>1, <1>2, <1>3, <1>4, <1>5, <1>6, <1>7, <1>8, <1>9, <1>10, <1>11, <1>12 DEF Next

(* The inductive invariant holds for any number of clients, layers, changes on   *)
(* their way, and any paths.                                                  *)
THEOREM Invariance == Spec => []IInv
BY InitIInv, StepIInv, PTL DEF Spec

(* The types: a note always ends with the slash that getFullPath relies on when  *)
(* it puts a relative path behind it.                                        *)
THEOREM TypeCorrect == Spec => []TypeOK
<1>1. IInv => TypeOK
  BY DEF IInv
<1> QED
  BY <1>1, Invariance, PTL

(* Every layer that a walk asks looks at the same path, although each completes   *)
(* it by itself and the first one may make up the note, unless clearFSLayer has   *)
(* emptied the notes in between.                                              *)
THEOREM OnePathForAllLayers == Spec => []SamePathForAll
<1>1. IInv => SamePathForAll
  <2> SUFFICES ASSUME IInv, walk # Nil, ~walk.cleared PROVE Cardinality(walk.asked) <= 1
    BY DEF SamePathForAll
  <2>1. walk.asked = {} \/ walk.asked = {getFullPath(walk.client, walk.path)}
    BY DEF IInv, AskedSame
  <2>2. CASE walk.asked = {}
    BY <2>2, FS_EmptySet
  <2>3. CASE walk.asked = {getFullPath(walk.client, walk.path)}
    <3> DEFINE full == getFullPath(walk.client, walk.path)
    <3>1. Cardinality({full}) = 1
      BY FS_Singleton, Zenon
    <3> QED
      BY <2>3, <3>1
  <2> QED
    BY <2>1, <2>2, <2>3
<1> QED
  BY <1>1, Invariance, PTL

-----------------------------------------------------------------------------
(* The note and the console's directory.  When nothing excuses a difference, the  *)
(* note leads to the directory; at most one change on its way is the newest, and   *)
(* the note is its path; and the clients of an application that ends have a note   *)
(* that leads to the top, unless it is late, because no layer is left to take      *)
(* one.                                                                       *)

DirNoted(c) == excuse[c] = Nil /\ ~InFlight(c) => Resolve(<<>>, NoteOf(c)) = consoleDir[c]

NewestNoted(c) ==
  \A i \in 1 .. Len(changes[c]) : changes[c][i].newest =>
    /\ workingDirs[c] = WithSlash(changes[c][i].path) /\ changes[c][i].noted
    /\ \A j \in 1 .. Len(changes[c]) : changes[c][j].newest => j = i

NotesCleared ==
  /\ phase # "running" => \A c \in Client \ late : workingDirs[c] \in {Nil, <<Slash>>}
  /\ phase = "ended" => layers = <<>>

DirInv == (\A c \in Client : DirNoted(c) /\ NewestNoted(c)) /\ NotesCleared

(* Of the newest change the rest of the sequence and its length are enough.      *)
LEMMA InFlightAt ==
  ASSUME TypeOK, NEW c \in Client
  PROVE  InFlight(c) <=> \E i \in 1 .. Len(changes[c]) : changes[c][i].newest
<1>1. changes[c] \in Seq(Change)
  BY DEF TypeOK
<1>2. DOMAIN changes[c] = 1 .. Len(changes[c])
  BY <1>1, LenProperties
<1> QED
  BY <1>2 DEF InFlight

LEMMA ChangeHasFlags ==
  ASSUME TypeOK, NEW c \in Client, NEW i \in 1 .. Len(changes[c])
  PROVE  /\ changes[c][i].newest \in BOOLEAN /\ changes[c][i].noted \in BOOLEAN
         /\ changes[c][i].path \in Dir /\ changes[c][i].path \in Seq(Token)
<1>1. changes[c] \in Seq(Change)
  BY DEF TypeOK
<1>2. changes[c][i] \in Change
  BY <1>1, ElementOfSeq
<1> QED
  BY <1>2, WorkingDirAssumption DEF Change

(* A note is not Nil.                                                          *)
LEMMA NotesAreNotNil ==
  ASSUME NEW path \in Seq(Token)
  PROVE  WithSlash(path) # Nil /\ <<Slash>> # Nil
<1>1. <<Slash>> \in Seq(Token)
  BY DEF Token
<1>2. WithSlash(path) \in Seq(Token)
  BY WithSlashEnds
<1> QED
  BY <1>1, <1>2, WorkingDirAssumption

(* The made-up note leads to the top, and that of a noted directory to where the   *)
(* directory leads.                                                           *)
LEMMA TopNote == Resolve(<<>>, <<Slash>>) = <<>>
<1>1. PICK none \in Seq(Token) : none = <<>>
  BY EmptySeq
<1>2. Slash \in Token /\ IsSeparator(Slash)
  BY DEF Token, IsSeparator
<1>3. PICK note \in Seq(Token) : note = <<Slash>> /\ note = Append(none, Slash)
  <2>1. <<Slash>> = Append(<<>>, Slash)
    OBVIOUS
  <2> QED
    BY <1>1, <1>2, <2>1, AppendProperties
<1>4. Names(note) = <<>>
  BY <1>1, <1>2, <1>3, NamesSeparator, ReadNothing
<1>5. PICK top \in Seq(Seq(Token)) : top = <<>>
  BY EmptySeq
<1>6. Fold(Step, top, top) = top
  BY <1>5, WalkIsLoop, FoldEmpty
<1> QED
  BY <1>3, <1>4, <1>5, <1>6, ResolvedTop DEF Walked

LEMMA NamesOfNote ==
  ASSUME NEW path \in Seq(Token)
  PROVE  Names(WithSlash(path)) = Names(path)
<1>1. Slash \in Token /\ IsSeparator(Slash)
  BY DEF Token, IsSeparator
<1> QED
  BY <1>1, NamesSeparator DEF WithSlash

(* A client that a step leaves alone.                                          *)
LEMMA SameClient ==
  ASSUME NEW c, workingDirs'[c] = workingDirs[c], consoleDir'[c] = consoleDir[c],
         changes'[c] = changes[c], excuse'[c] = excuse[c]
  PROVE  (DirNoted(c) => DirNoted(c)') /\ (NewestNoted(c) => NewestNoted(c)')
BY DEF DirNoted, NewestNoted, InFlight, NoteOf

(* A change that is taken out of the sequence.                                  *)
LEMMA RemovedAt ==
  ASSUME NEW S, NEW sq \in Seq(S), NEW i \in 1 .. Len(sq), NEW j \in 1 .. Len(sq) - 1
  PROVE  RemoveAt(sq, i)[j] = IF j < i THEN sq[j] ELSE sq[j + 1]
<1>1. Len(sq) \in Nat /\ \A k \in 1 .. Len(sq) : sq[k] \in S
  BY LenProperties, ElementOfSeq
<1>2. PICK low : low = SubSeq(sq, 1, i - 1)
  OBVIOUS
<1>3. PICK high : high = SubSeq(sq, i + 1, Len(sq))
  OBVIOUS
<1>4. low \in Seq(S) /\ Len(low) = i - 1 /\ \A k \in 1 .. i - 1 : low[k] = sq[k]
  <2>1. PICK n \in 0 .. Len(sq) : n = i - 1
    BY <1>1
  <2>2. \A k \in 1 .. n : sq[k] \in S
    BY <1>1
  <2> QED
    BY <1>2, <2>1, <2>2, SubSeqProperties
<1>5. high \in Seq(S) /\ Len(high) = Len(sq) - i
      /\ \A k \in 1 .. Len(sq) - i : high[k] = sq[i + k]
  <2>1. \A k \in i + 1 .. Len(sq) : sq[k] \in S
    BY <1>1
  <2> QED
    BY <1>1, <1>3, <2>1, SubSeqProperties
<1>6. PICK r : r = low \o high
  OBVIOUS
<1>7. \A k \in 1 .. Len(low) + Len(high) : r[k] = IF k <= Len(low) THEN low[k]
                                                   ELSE high[k - Len(low)]
  BY <1>4, <1>5, <1>6, ConcatProperties
<1>8. RemoveAt(sq, i) = r
  BY <1>2, <1>3, <1>6 DEF RemoveAt
<1>9. CASE j < i
  <2>1. j \in 1 .. Len(low) + Len(high) /\ j <= Len(low) /\ j \in 1 .. i - 1
    BY <1>1, <1>4, <1>5, <1>9
  <2>2. r[j] = low[j] /\ low[j] = sq[j]
    BY <1>4, <1>7, <2>1
  <2> QED
    BY <1>8, <1>9, <2>2
<1>10. CASE ~(j < i)
  <2>1. PICK k \in 1 .. Len(sq) - i : k = j - (i - 1) /\ i + k = j + 1
    BY <1>1, <1>10
  <2>2. r[j] = high[k]
    BY <1>1, <1>4, <1>5, <1>7, <1>10, <2>1
  <2> QED
    BY <1>5, <1>8, <1>10, <2>1, <2>2
<1> QED
  BY <1>9, <1>10

LEMMA OvertakenAt ==
  ASSUME NEW sq \in Seq(Change), NEW i \in 1 .. Len(sq)
  PROVE  Overtaken(sq)[i].newest = FALSE
<1>1. DOMAIN sq = 1 .. Len(sq) /\ sq[i] \in Change
  BY LenProperties, ElementOfSeq
<1>2. Overtaken(sq)[i] = [sq[i] EXCEPT !.newest = FALSE]
  BY <1>1 DEF Overtaken
<1> QED
  BY <1>1, <1>2 DEF Change

LEMMA InitDirInv == Init => DirInv
<1> SUFFICES ASSUME Init PROVE DirInv
  OBVIOUS
<1>1. ASSUME NEW c \in Client PROVE DirNoted(c) /\ NewestNoted(c)
  <2>1. workingDirs[c] = Nil /\ consoleDir[c] = <<>> /\ Len(changes[c]) = 0
    BY <1>1, EmptySeq DEF Init
  <2>2. Resolve(<<>>, NoteOf(c)) = consoleDir[c]
    BY <2>1, TopNote DEF NoteOf
  <2> QED
    BY <2>1, <2>2 DEF DirNoted, NewestNoted
<1>2. NotesCleared
  BY DEF Init, NotesCleared
<1> QED
  BY <1>1, <1>2 DEF DirInv

(* A change of directory passes the layers.                                    *)
LEMMA ChangeKeepsDir ==
  ASSUME IInv, DirInv, NEW c \in Client, NEW dir \in Dir, FSAChangeDir(c, dir)
  PROVE  DirNoted(c)' /\ NewestNoted(c)' /\ NotesCleared'
<1> DEFINE new == [path |-> dir, noted |-> SomeActive, newest |-> SomeActive]
<1>1. changes \in [Client -> Seq(Change)] /\ workingDirs \in [Client -> {Nil} \cup Seq(Token)]
  BY DEF IInv, TypeOK
<1>2. DirNoted(c) /\ NewestNoted(c) /\ NotesCleared
  BY DEF DirInv
<1>3. SomeActive \in BOOLEAN
  BY DEF SomeActive
<1>4. new \in Change /\ new.newest = SomeActive /\ new.noted = SomeActive /\ new.path = dir
  BY <1>3, Zenon DEF Change
<1> HIDE DEF new
<1>5. CASE SomeActive
  <2>1. PICK old \in Seq(Change) : old = Overtaken(changes[c])
                                  /\ \A i \in 1 .. Len(old) : old[i].newest = FALSE
    <3>1. PICK sq \in Seq(Change) : sq = changes[c]
      BY <1>1
    <3>2. Overtaken(sq) \in Seq(Change) /\ Len(Overtaken(sq)) = Len(sq)
      BY OvertakenType
    <3>3. \A i \in 1 .. Len(sq) : Overtaken(sq)[i].newest = FALSE
      BY OvertakenAt
    <3> QED
      BY <3>1, <3>2, <3>3
  <2>2. PICK now : now = Append(old, new)
    OBVIOUS
  <2>3. /\ Len(old) \in Nat /\ Len(now) = Len(old) + 1
        /\ \A i \in 1 .. Len(old) : now[i] = old[i]
        /\ now[Len(old) + 1] = new
    BY <1>4, <2>2, AppendProperties, LenProperties
  <2>4. changes'[c] = now /\ workingDirs'[c] = WithSlash(dir)
    BY <1>1, <1>5, <2>1, <2>2 DEF FSAChangeDir, new
  <2>5. \A i \in 1 .. Len(now) : now[i].newest => i = Len(old) + 1
    <3> SUFFICES ASSUME NEW i \in 1 .. Len(now), now[i].newest PROVE i = Len(old) + 1
      OBVIOUS
    <3>1. i = Len(old) + 1 \/ i \in 1 .. Len(old)
      BY <2>3
    <3> QED
      BY <2>1, <2>3, <3>1
  <2>6. NewestNoted(c)'
    BY <1>4, <1>5, <2>3, <2>4, <2>5 DEF NewestNoted
  <2>7. InFlight(c)'
    <3>1. now \in Seq(Change)
      BY <1>4, <2>2, AppendProperties
    <3>2. Len(old) + 1 \in DOMAIN now
      BY <2>3, <3>1, LenProperties
    <3> QED
      BY <1>4, <1>5, <2>3, <2>4, <3>2 DEF InFlight
  <2>8. NotesCleared'
    <3>1. Len(layers) # 0 /\ layers # <<>>
      BY <1>5, EmptySeq DEF SomeActive
    <3>2. phase # "ended" /\ phase' = phase /\ layers' = layers
      BY <1>2, <3>1 DEF FSAChangeDir, NotesCleared
    <3>3. phase \in {"running", "clearing", "ended"}
      BY DEF IInv, TypeOK
    <3>4. phase = "clearing" => late' = late \cup {c}
      BY <1>5 DEF FSAChangeDir
    <3>5. \A d \in Client \ {c} : workingDirs'[d] = workingDirs[d]
      BY <1>1, <1>5 DEF FSAChangeDir
    <3> QED
      BY <1>2, <3>2, <3>3, <3>4, <3>5 DEF NotesCleared
  <2> QED
    BY <2>6, <2>7, <2>8 DEF DirNoted
<1>6. CASE ~SomeActive
  <2>1. PICK old \in Seq(Change) : old = changes[c]
    BY <1>1
  <2>2. PICK now \in Seq(Change) : now = Append(old, new)
    BY <1>4, AppendProperties
  <2>3. /\ Len(old) \in Nat /\ Len(now) = Len(old) + 1
        /\ \A i \in 1 .. Len(old) : now[i] = old[i]
        /\ now[Len(old) + 1] = new
        /\ DOMAIN now = 1 .. Len(now) /\ DOMAIN old = 1 .. Len(old)
    BY <1>4, <2>2, AppendProperties, LenProperties
  <2>4. changes'[c] = now
    BY <1>1, <1>6, <2>1, <2>2 DEF FSAChangeDir, new
  <2>5. UNCHANGED <<workingDirs, consoleDir, excuse, late, phase, layers>>
    BY <1>6 DEF FSAChangeDir
  <2>6. \A i \in 1 .. Len(now) : now[i].newest => i \in 1 .. Len(old) /\ now[i] = old[i]
    <3> SUFFICES ASSUME NEW i \in 1 .. Len(now), now[i].newest PROVE i \in 1 .. Len(old)
      BY <2>3
    <3>1. i = Len(old) + 1 \/ i \in 1 .. Len(old)
      BY <2>3
    <3> QED
      BY <1>4, <1>6, <2>3, <3>1
  <2>7. NewestNoted(c)'
    BY <1>2, <2>1, <2>4, <2>5, <2>6 DEF NewestNoted
  <2>8. InFlight(c) => InFlight(c)'
    <3>1. \A i \in 1 .. Len(old) : i \in 1 .. Len(now)
      BY <2>3
    <3> QED
      BY <2>1, <2>3, <2>4, <3>1 DEF InFlight
  <2>9. DirNoted(c)'
    BY <1>2, <2>5, <2>8 DEF DirNoted, NoteOf
  <2> QED
    BY <1>2, <2>5, <2>7, <2>9 DEF NotesCleared
<1> QED
  BY <1>5, <1>6

(* A change reaches the console, or is refused.                                 *)
LEMMA ConsoleKeepsDir ==
  ASSUME IInv, DirInv, NEW c \in Client, NEW i, NEW done \in BOOLEAN, RealChangeDir(c, i, done)
  PROVE  DirNoted(c)' /\ NewestNoted(c)'
<1>1. PICK sq \in Seq(Change) : sq = changes[c]
  BY DEF IInv, TypeOK
<1>2. i \in 1 .. Len(sq) /\ Len(sq) \in Nat
  BY <1>1, LenProperties DEF RealChangeDir
<1>3. PICK ch \in Change : ch = sq[i]
  BY <1>2, ElementOfSeq
<1>4. /\ ch.newest \in BOOLEAN /\ ch.noted \in BOOLEAN
      /\ ch.path \in Seq(Token)
      /\ ch.newest => ch.noted /\ workingDirs[c] = WithSlash(ch.path)
  BY <1>1, <1>2, <1>3, WorkingDirAssumption DEF DirInv, NewestNoted, Change
<1>5. PICK now \in Seq(Change) : now = RemoveAt(sq, i) /\ Len(now) = Len(sq) - 1
  BY <1>2, RemoveAtType
<1>6. \A j \in 1 .. Len(now) : now[j] = IF j < i THEN sq[j] ELSE sq[j + 1]
  BY <1>2, <1>5, RemovedAt
<1>7. changes'[c] = now /\ UNCHANGED workingDirs
  BY <1>1, <1>5 DEF RealChangeDir, IInv, TypeOK
<1>8. NewestNoted(c)'
  <2>1. ASSUME NEW j \in 1 .. Len(now)
        PROVE  \E k \in 1 .. Len(sq) : now[j] = sq[k] /\ k = IF j < i THEN j ELSE j + 1
    <3>1. CASE j < i
      BY <1>2, <1>5, <1>6, <3>1
    <3>2. CASE ~(j < i)
      BY <1>2, <1>5, <1>6, <3>2
    <3> QED
      BY <3>1, <3>2
  <2>2. \A k \in 1 .. Len(sq) : sq[k].newest =>
          /\ workingDirs[c] = WithSlash(sq[k].path) /\ sq[k].noted
          /\ \A m \in 1 .. Len(sq) : sq[m].newest => m = k
    BY <1>1 DEF DirInv, NewestNoted
  <2>3. ASSUME NEW j \in 1 .. Len(now), NEW m \in 1 .. Len(now), now[j].newest, now[m].newest
        PROVE  m = j
    <3>1. PICK k \in 1 .. Len(sq) : now[j] = sq[k] /\ k = IF j < i THEN j ELSE j + 1
      BY <2>1
    <3>2. PICK l \in 1 .. Len(sq) : now[m] = sq[l] /\ l = IF m < i THEN m ELSE m + 1
      BY <2>1
    <3>3. l = k
      BY <2>2, <2>3, <3>1, <3>2
    <3> QED
      BY <1>2, <1>5, <3>1, <3>2, <3>3
  <2>4. \A j \in 1 .. Len(now) : now[j].newest =>
          workingDirs[c] = WithSlash(now[j].path) /\ now[j].noted
    BY <2>1, <2>2
  <2> QED
    BY <1>7, <2>3, <2>4 DEF NewestNoted
<1>9. consoleDir'[c] = IF done THEN Resolve(consoleDir[c], ch.path) ELSE consoleDir[c]
  BY <1>1, <1>3 DEF RealChangeDir, IInv, TypeOK
<1>10. excuse'[c] = CASE done /\ ch.newest /\ IsAbsolute(ch.path) -> Nil
                      [] done /\ ch.newest /\ ~IsAbsolute(ch.path) -> "relative"
                      [] done /\ ~ch.noted                         -> "not noted"
                      [] done /\ ch.noted /\ ~ch.newest            -> "overtaken"
                      [] ~done /\ ch.newest                        -> "refused"
                      [] OTHER                                     -> excuse[c]
  BY <1>1, <1>3 DEF RealChangeDir, IInv, TypeOK
<1>11. DirNoted(c)'
  <2> SUFFICES ASSUME excuse'[c] = Nil, ~InFlight(c)'
               PROVE  Resolve(<<>>, NoteOf(c))' = consoleDir'[c]
    BY DEF DirNoted
  <2>1. Nil \notin {"relative", "not noted", "overtaken", "refused"}
    BY WorkingDirAssumption DEF Reasons
  <2>2. \/ done /\ ch.newest /\ IsAbsolute(ch.path)
        \/ ~done /\ ~ch.newest /\ excuse[c] = Nil
    BY <1>4, <1>10, <2>1
  <2>3. CASE done /\ ch.newest /\ IsAbsolute(ch.path)
    <3>1. PICK note \in Seq(Token) : note = WithSlash(ch.path) /\ note # Nil
      BY <1>4, WithSlashEnds, NotesAreNotNil
    <3>2. NoteOf(c)' = note
      BY <1>4, <1>7, <2>3, <3>1 DEF NoteOf
    <3>3. Resolve(<<>>, note) = Walked(<<>>, Names(ch.path))
      BY <1>4, <3>1, ResolvedTop, NamesOfNote
    <3>4. consoleDir'[c] = Walked(<<>>, Names(ch.path))
      BY <1>9, <2>3 DEF Resolve
    <3> QED
      BY <3>2, <3>3, <3>4
  <2>4. CASE ~done /\ ~ch.newest /\ excuse[c] = Nil
    <3>1. ~InFlight(c)
      <4> SUFFICES ASSUME InFlight(c) PROVE FALSE
        OBVIOUS
      <4>1. PICK k \in 1 .. Len(sq) : sq[k].newest
        BY <1>1, InFlightAt DEF IInv
      <4>2. k # i
        BY <1>3, <2>4, <4>1
      <4>3. PICK j \in 1 .. Len(now) : now[j] = sq[k]
        <5>1. CASE k < i
          BY <1>2, <1>5, <1>6, <5>1
        <5>2. CASE k > i
          <6>1. PICK j \in 1 .. Len(now) : j = k - 1 /\ ~(j < i) /\ j + 1 = k
            BY <1>2, <1>5, <5>2
          <6> QED
            BY <1>6, <6>1
        <5> QED
          BY <1>2, <4>2, <5>1, <5>2
      <4>4. j \in DOMAIN now
        BY LenProperties
      <4> QED
        BY <1>7, <4>1, <4>3, <4>4 DEF InFlight
    <3>2. NoteOf(c)' = NoteOf(c) /\ consoleDir'[c] = consoleDir[c]
      BY <1>7, <1>9, <2>4 DEF NoteOf
    <3> QED
      BY <2>4, <3>1, <3>2 DEF DirInv, DirNoted
  <2> QED
    BY <2>2, <2>3, <2>4
<1> QED
  BY <1>8, <1>11

(* A layer completes a path: the note may be made up on the way.                 *)
LEMMA AskKeepsDir ==
  ASSUME IInv, DirInv, NEW c \in Client, workingDirs[c] # Nil \/ ~InFlight(c),
         \/ workingDirs'[c] = workingDirs[c]
         \/ workingDirs[c] = Nil /\ workingDirs'[c] = <<Slash>>,
         changes'[c] = changes[c], consoleDir'[c] = consoleDir[c], excuse'[c] = excuse[c]
  PROVE  DirNoted(c)' /\ NewestNoted(c)'
<1>1. CASE workingDirs'[c] = workingDirs[c]
  BY <1>1, SameClient DEF DirInv
<1>2. CASE workingDirs[c] = Nil /\ workingDirs'[c] = <<Slash>>
  <2>1. NoteOf(c)' = NoteOf(c)
    BY <1>2, NotesAreNotNil, EmptySeq DEF NoteOf
  <2>2. InFlight(c)' = InFlight(c)
    BY DEF InFlight
  <2>3. \A i \in 1 .. Len(changes[c]) : ~changes[c][i].newest
    BY <1>2, InFlightAt DEF IInv
  <2> QED
    BY <2>1, <2>2, <2>3 DEF DirInv, DirNoted, NewestNoted
<1> QED
  BY <1>1, <1>2

(* Where there is no note no change is the newest.                               *)
LEMMA NoNoteNoNewest ==
  ASSUME IInv, DirInv, NEW c \in Client
  PROVE  workingDirs[c] # Nil \/ ~InFlight(c)
<1> SUFFICES ASSUME InFlight(c) PROVE workingDirs[c] # Nil
  OBVIOUS
<1>1. PICK i \in 1 .. Len(changes[c]) : changes[c][i].newest
  BY InFlightAt DEF IInv
<1>2. workingDirs[c] = WithSlash(changes[c][i].path)
  BY <1>1 DEF DirInv, NewestNoted
<1> QED
  BY <1>2, ChangeHasFlags, NotesAreNotNil DEF IInv

(* The first section of clearFSLayer.                                           *)
LEMMA ClearKeepsDir ==
  ASSUME IInv, DirInv, ClearWorkingDirs, NEW c \in Client
  PROVE  DirNoted(c)' /\ NewestNoted(c)'
<1>1. PICK sq \in Seq(Change) : sq = changes[c]
  BY DEF IInv, TypeOK
<1>2. PICK now \in Seq(Change) : now = Overtaken(sq) /\ Len(now) = Len(sq)
  BY OvertakenType
<1>3. \A i \in 1 .. Len(now) : ~now[i].newest
  BY <1>2, OvertakenAt
<1>4. changes'[c] = now /\ workingDirs'[c] = Nil /\ consoleDir' = consoleDir
      /\ excuse'[c] = IF workingDirs[c] = Nil THEN excuse[c] ELSE "cleared"
  BY <1>1, <1>2 DEF ClearWorkingDirs
<1>5. NewestNoted(c)'
  BY <1>3, <1>4 DEF NewestNoted
<1>6. Nil # "cleared"
  BY WorkingDirAssumption DEF Reasons
<1>7. excuse'[c] = Nil => workingDirs[c] = Nil /\ excuse[c] = Nil
  BY <1>4, <1>6
<1>8. workingDirs[c] = Nil => NoteOf(c)' = NoteOf(c) /\ ~InFlight(c)
  BY <1>4, NoNoteNoNewest DEF NoteOf
<1> QED
  BY <1>4, <1>5, <1>7, <1>8 DEF DirNoted, DirInv

(* The next application: its clients' notes were cleared, unless they are late.   *)
LEMMA NextKeepsDir ==
  ASSUME IInv, DirInv, NextApplication, NEW c \in Client
  PROVE  DirNoted(c)' /\ NewestNoted(c)'
<1>1. /\ changes'[c] = <<>> /\ consoleDir'[c] = <<>> /\ workingDirs' = workingDirs
      /\ excuse'[c] = IF c \in late THEN "survived" ELSE Nil
  BY DEF NextApplication
<1>2. Nil # "survived" /\ Len(<<>>) = 0
  BY WorkingDirAssumption, EmptySeq DEF Reasons
<1>3. NewestNoted(c)'
  BY <1>1, <1>2 DEF NewestNoted
<1>4. excuse'[c] = Nil => workingDirs[c] \in {Nil, <<Slash>>}
  BY <1>1, <1>2 DEF NextApplication, DirInv, NotesCleared
<1>5. excuse'[c] = Nil => NoteOf(c)' = <<Slash>>
  BY <1>1, <1>4 DEF NoteOf
<1> QED
  BY <1>1, <1>3, <1>5, TopNote DEF DirNoted

(* Every action keeps the agreement between the notes and the console.            *)
LEMMA StepDirInv == IInv /\ DirInv /\ [Next]_vars => DirInv'
<1> SUFFICES ASSUME IInv, DirInv, [Next]_vars PROVE DirInv'
  OBVIOUS
<1>0. \A c \in Client : DirNoted(c) /\ NewestNoted(c)
  BY DEF DirInv
<1>a. ASSUME UNCHANGED <<workingDirs, changes, consoleDir, excuse>>, NotesCleared'
      PROVE  DirInv'
  BY <1>0, <1>a, SameClient DEF DirInv
<1>1. ASSUME NEW l \in LayerKind, AddLayer(l) PROVE DirInv'
  BY <1>1, <1>a DEF AddLayer, DirInv, NotesCleared
<1>2. ASSUME NEW i \in 1 .. MaxLayers, SetActive(i) PROVE DirInv'
  <2>1. phase # "ended"
    BY <1>2, EmptySeq DEF SetActive, DirInv, NotesCleared
  <2> QED
    BY <1>2, <1>a, <2>1 DEF SetActive, DirInv, NotesCleared
<1>3. ASSUME NEW c \in Client, NEW dir \in Dir, FSAChangeDir(c, dir) PROVE DirInv'
  <2>1. \A d \in Client \ {c} : /\ workingDirs'[d] = workingDirs[d]
                               /\ changes'[d] = changes[d]
                               /\ consoleDir'[d] = consoleDir[d] /\ excuse'[d] = excuse[d]
    BY <1>3 DEF FSAChangeDir, IInv, TypeOK
  <2>2. DirNoted(c)' /\ NewestNoted(c)' /\ NotesCleared'
    BY <1>3, ChangeKeepsDir
  <2> QED
    BY <1>0, <2>1, <2>2, SameClient DEF DirInv
<1>4. ASSUME NEW c \in Client, NEW i \in 1 .. MaxChanges, NEW done \in BOOLEAN,
             RealChangeDir(c, i, done)
      PROVE  DirInv'
  <2>1. \A d \in Client \ {c} : /\ workingDirs'[d] = workingDirs[d]
                               /\ changes'[d] = changes[d]
                               /\ consoleDir'[d] = consoleDir[d] /\ excuse'[d] = excuse[d]
    BY <1>4 DEF RealChangeDir, IInv, TypeOK
  <2>2. DirNoted(c)' /\ NewestNoted(c)'
    BY <1>4, ConsoleKeepsDir
  <2>3. NotesCleared'
    BY <1>4 DEF RealChangeDir, DirInv, NotesCleared
  <2> QED
    BY <1>0, <2>1, <2>2, <2>3, SameClient DEF DirInv
<1>5. ASSUME NEW c \in Client, NEW path \in Path, Enter(c, path) PROVE DirInv'
  BY <1>5, <1>a DEF Enter, DirInv, NotesCleared
<1>6. CASE PassBy
  BY <1>6, <1>a DEF PassBy, DirInv, NotesCleared
<1>7. CASE AskLayer
  <2>1. walk.client \in Client /\ workingDirs' = NoteAfterwards(walk.client, walk.path)
    BY <1>7 DEF AskLayer, Asking, IInv, TypeOK
  <2>2. \A c \in Client : \/ workingDirs'[c] = workingDirs[c]
                          \/ workingDirs[c] = Nil /\ workingDirs'[c] = <<Slash>>
    BY <2>1, NoteKept DEF IInv
  <2>3. UNCHANGED <<layers, phase, consoleDir, changes, excuse, late>>
    BY <1>7 DEF AskLayer
  <2>4. \A c \in Client : DirNoted(c)' /\ NewestNoted(c)'
    BY <2>2, <2>3, NoNoteNoNewest, AskKeepsDir
  <2>5. NotesCleared'
    BY <2>2, <2>3 DEF DirInv, NotesCleared
  <2> QED
    BY <2>4, <2>5 DEF DirInv
<1>8. CASE Leave
  BY <1>8, <1>a DEF Leave, DirInv, NotesCleared
<1>9. CASE ClearWorkingDirs
  <2>1. NotesCleared'
    BY <1>9 DEF ClearWorkingDirs, NotesCleared
  <2> QED
    BY <1>9, <2>1, ClearKeepsDir DEF DirInv
<1>10. CASE ClearLayers
  BY <1>10, <1>a DEF ClearLayers, DirInv, NotesCleared
<1>11. CASE NextApplication
  <2>1. NotesCleared'
    BY <1>11 DEF NextApplication, NotesCleared
  <2> QED
    BY <1>11, <2>1, NextKeepsDir DEF DirInv
<1>12. CASE UNCHANGED vars
  BY <1>12, <1>a DEF vars, DirInv, NotesCleared
<1> QED
  BY <1>1, <1>2, <1>3, <1>4, <1>5, <1>6, <1>7, <1>8, <1>9, <1>10, <1>11, <1>12 DEF Next

(* A path that the layers complete leads to the place to which it leads the       *)
(* console, when the note is the console's directory.                          *)
LEMMA CompletedPlace ==
  ASSUME IInv, NEW c \in Client, NEW path \in Seq(Token),
         Resolve(<<>>, NoteOf(c)) = consoleDir[c]
  PROVE  Resolve(<<>>, getFullPath(c, path)) = Resolve(consoleDir[c], path)
<1>1. CASE IsAbsolute(path)
  <2>1. PICK full \in Seq(Token) : full = getFullPath(c, path) /\ Names(full) = Names(path)
    BY <1>1, SlashesType, NamesOfSlashes DEF getFullPath
  <2>2. Resolve(<<>>, full) = Walked(<<>>, Names(path))
    BY <2>1, ResolvedTop
  <2>3. Resolve(consoleDir[c], path) = Walked(<<>>, Names(path))
    BY <1>1 DEF Resolve
  <2> QED
    BY <2>1, <2>2, <2>3
<1>2. CASE ~IsAbsolute(path)
  <2>1. PICK note \in Seq(Token) : note = NoteOf(c) /\ EndsWithSlash(note)
    BY NoteEnds DEF IInv
  <2>2. PICK both \in Seq(Token) : both = note \o path
    BY ConcatProperties
  <2>3. Names(both) = Names(note) \o Names(path)
    BY <2>1, <2>2, NamesBehind DEF EndsWithSlash, Last, IsSeparator
  <2>4. PICK full \in Seq(Token) : full = getFullPath(c, path) /\ Names(full) = Names(both)
    BY <1>2, <2>1, <2>2, SlashesType, NamesOfSlashes DEF getFullPath
  <2>5. PICK top, ns, ms \in Seq(Seq(Token)) : top = <<>> /\ ns = Names(note) /\ ms = Names(path)
    BY ReadType, EmptySeq
  <2>6. Walked(top, ns \o ms) = Walked(Walked(top, ns), ms)
    BY WalkedOn
  <2>7. Walked(top, ns) = consoleDir[c]
    BY <2>1, <2>5, ResolvedTop
  <2>8. Resolve(<<>>, full) = Walked(top, ns \o ms)
    BY <2>3, <2>4, <2>5, ResolvedTop
  <2>9. Resolve(consoleDir[c], path) = Walked(consoleDir[c], ms)
    BY <1>2, <2>5 DEF Resolve
  <2> QED
    BY <2>4, <2>6, <2>7, <2>8, <2>9
<1> QED
  BY <1>1, <1>2

(* The notes of all clients stay what the console's directories are, but for the   *)
(* excuses: see DirNoted.                                                      *)
THEOREM NotesAreDirectories == Spec => [](IInv /\ DirInv)
<1>1. Init => IInv /\ DirInv
  BY InitIInv, InitDirInv
<1>2. (IInv /\ DirInv) /\ [Next]_vars => (IInv /\ DirInv)'
  BY StepIInv, StepDirInv
<1> QED
  BY <1>1, <1>2, PTL DEF Spec

(* Whatever the spelling of paths and directories, a path of a client leads the    *)
(* layers to the place to which it leads the console, once the last change of      *)
(* directory was noted, absolute and made, and until one comes that is not.        *)
THEOREM LayersAndConsoleAgree == Spec => []ResolutionAgrees
<1>1. IInv /\ DirInv => ResolutionAgrees
  <2> SUFFICES ASSUME IInv, DirInv, NEW c \in Client, NEW path \in Path,
                      excuse[c] = Nil, ~InFlight(c)
               PROVE  Resolve(<<>>, getFullPath(c, path)) = Resolve(consoleDir[c], path)
    BY DEF ResolutionAgrees
  <2>1. path \in Seq(Token)
    BY WorkingDirAssumption
  <2>2. Resolve(<<>>, NoteOf(c)) = consoleDir[c]
    BY DEF DirInv, DirNoted
  <2> QED
    BY <2>1, <2>2, CompletedPlace
<1> QED
  BY <1>1, NotesAreDirectories, PTL

-----------------------------------------------------------------------------
(* The walk and the layers.  The layer that answers was asked for a path that      *)
(* starts with its prefix; the layers that the walk has passed, as long as the      *)
(* notes were not cleared, would not have to answer for what getFullPath makes of   *)
(* the path; and nothing has changed the layers meanwhile.                         *)

Answered ==
  walk.by > 0 =>
    LET l == layers[walk.by].is IN
    /\ walk.full \in Seq(Token) /\ IsPathToReplace(walk.full, l)
    /\ walk.target = GetNewPath(walk.full, l.prefix, l.replacement)

Asked == \A full \in walk.asked : full \in Seq(Token) /\ Slashes(full) = full

PassedBy(i, full) ==
  layers[i].active /\ ~layers[i].is.fallback => ~IsPathToReplace(full, layers[i].is)

Passed ==
  walk.by = 0 /\ ~walk.cleared =>
    \A i \in walk.i + 1 .. Len(layers) : PassedBy(i, getFullPath(walk.client, walk.path))

WalkInv == walk # Nil => Answered /\ Asked /\ Passed

(* What getFullPath completes has no backslash.                                 *)
LEMMA FullHasSlashes ==
  ASSUME IInv, NEW c \in Client, NEW path \in Seq(Token)
  PROVE  getFullPath(c, path) \in Seq(Token)
         /\ Slashes(getFullPath(c, path)) = getFullPath(c, path)
<1>1. PICK raw \in Seq(Token) : getFullPath(c, path) = Slashes(raw)
  <2>1. PICK note \in Seq(Token) : note = NoteOf(c)
    BY NoteEnds DEF IInv
  <2>2. PICK both \in Seq(Token) : both = note \o path
    BY ConcatProperties
  <2> QED
    BY <2>1, <2>2 DEF getFullPath
<1>2. PICK once \in Seq(Token) : once = Slashes(raw)
  BY SlashesType
<1>3. PICK twice \in Seq(Token) : twice = Slashes(once)
  BY SlashesType
<1>4. Len(once) = Len(raw) /\ Len(twice) = Len(raw)
  BY <1>2, <1>3, SlashesType
<1>5. Slash # Backslash
  BY DEF Slash, Backslash
<1>6. \A i \in 1 .. Len(raw) : once[i] # Backslash
  BY <1>2, <1>5, SlashesType
<1>7. \A i \in 1 .. Len(once) : twice[i] = once[i]
  BY <1>3, <1>4, <1>6, SlashesType
<1>8. twice = once
  BY <1>4, <1>7, SeqEqual
<1> QED
  BY <1>1, <1>2, <1>3, <1>8

(* A step that leaves the walk, the layers and the notes alone.                  *)
LEMMA SameWalk ==
  ASSUME UNCHANGED <<walk, layers, workingDirs>>
  PROVE  WalkInv => WalkInv'
<1>1. \A c, p : getFullPath(c, p)' = getFullPath(c, p)
  BY DEF getFullPath, NoteOf
<1> QED
  BY <1>1 DEF WalkInv, Answered, Asked, Passed, PassedBy

(* The layer that is asked answers or lets the path pass.                         *)
LEMMA AskWalkInv ==
  ASSUME IInv, WalkInv, AskLayer
  PROVE  WalkInv'
<1>1. PICK full : full = getFullPath(walk.client, walk.path)
  OBVIOUS
<1>2. PICK l : l = layers[walk.i].is
  OBVIOUS
<1>3. /\ walk # Nil /\ walk.i \in 1 .. Len(layers) /\ Len(layers) \in Nat /\ walk.by = 0
      /\ walk.client \in Client /\ walk.path \in Seq(Token)
      /\ walk = [f \in Fields |-> walk[f]]
  BY LenProperties, WorkingDirAssumption DEF AskLayer, Asking, IInv, TypeOK, WalkIsRecord
<1>4. full \in Seq(Token) /\ Slashes(full) = full
  BY <1>1, <1>3, FullHasSlashes
<1>5. layers' = layers /\ workingDirs' = NoteAfterwards(walk.client, walk.path)
  BY DEF AskLayer
<1>6. \/ /\ IsPathToReplace(full, l)
         /\ walk' = [walk EXCEPT !.asked = @ \cup {full}, !.by = walk.i, !.full = full,
                                 !.target = GetNewPath(full, l.prefix, l.replacement)]
      \/ /\ ~IsPathToReplace(full, l) \/ l.fallback
         /\ walk' = [walk EXCEPT !.asked = @ \cup {full}, !.i = @ - 1]
  BY <1>1, <1>2, Zenon DEF AskLayer, At
<1>7. /\ walk'.asked = walk.asked \cup {full} /\ walk'.client = walk.client
      /\ walk'.path = walk.path /\ walk'.cleared = walk.cleared
      /\ \/ /\ walk'.by = walk.i /\ walk'.full = full /\ IsPathToReplace(full, l)
            /\ walk'.target = GetNewPath(full, l.prefix, l.replacement)
         \/ /\ walk'.by = 0 /\ walk'.i = walk.i - 1
            /\ ~IsPathToReplace(full, l) \/ l.fallback
  BY <1>3, <1>6 DEF Fields
<1>8. Asked'
  BY <1>3, <1>4, <1>7 DEF WalkInv, Asked
<1>9. Answered'
  BY <1>2, <1>3, <1>4, <1>5, <1>7 DEF Answered
<1>10. Passed'
  <2>1. getFullPath(walk.client, walk.path)' = full
    BY <1>1, <1>3, <1>5, <1>7, NoteKeepsPaths DEF IInv
  <2>2. PassedBy(walk.i, full) \/ walk'.by # 0
    BY <1>2, <1>3, <1>7 DEF PassedBy
  <2>3. \A i \in walk.i + 1 .. Len(layers) : ~walk.cleared => PassedBy(i, full)
    BY <1>1, <1>3 DEF WalkInv, Passed
  <2>4. \A i \in walk.i .. Len(layers) : i = walk.i \/ i \in walk.i + 1 .. Len(layers)
    BY <1>3
  <2>5. ASSUME walk'.by = 0, ~walk'.cleared
        PROVE  \A i \in walk'.i + 1 .. Len(layers) : PassedBy(i, full)
    <3>1. walk'.i + 1 = walk.i /\ ~walk.cleared
      BY <1>3, <1>7, <2>5
    <3> QED
      BY <2>2, <2>3, <2>4, <2>5, <3>1
  <2>6. \A i : PassedBy(i, getFullPath(walk.client, walk.path))' <=> PassedBy(i, full)
    BY <1>5, <2>1 DEF PassedBy
  <2> QED
    BY <1>5, <2>5, <2>6 DEF Passed
<1> QED
  BY <1>8, <1>9, <1>10 DEF WalkInv

(* Every action keeps it: what changes layers or notes waits for the walk, but for  *)
(* the first section of clearFSLayer.                                          *)
LEMMA StepWalkInv == IInv /\ WalkInv /\ [Next]_vars => WalkInv'
<1> SUFFICES ASSUME IInv, WalkInv, [Next]_vars PROVE WalkInv'
  OBVIOUS
<1>0. ASSUME walk' = Nil PROVE WalkInv'
  BY <1>0 DEF WalkInv
<1>1. ASSUME NEW l \in LayerKind, AddLayer(l) PROVE WalkInv'
  BY <1>0, <1>1 DEF AddLayer, Unlocked
<1>2. ASSUME NEW i \in 1 .. MaxLayers, SetActive(i) PROVE WalkInv'
  BY <1>0, <1>2 DEF SetActive, Unlocked
<1>3. ASSUME NEW c \in Client, NEW dir \in Dir, FSAChangeDir(c, dir) PROVE WalkInv'
  BY <1>0, <1>3 DEF FSAChangeDir, Unlocked
<1>4. ASSUME NEW c \in Client, NEW i \in 1 .. MaxChanges, NEW done \in BOOLEAN,
             RealChangeDir(c, i, done)
      PROVE  WalkInv'
  BY <1>4, SameWalk DEF RealChangeDir
<1>5. ASSUME NEW c \in Client, NEW path \in Path, Enter(c, path) PROVE WalkInv'
  <2>1. walk'.by = 0 /\ walk'.asked = {} /\ walk'.i = Len(layers) /\ layers' = layers
    BY <1>5 DEF Enter
  <2>2. Len(layers) \in Nat
    BY LenProperties DEF IInv, TypeOK
  <2> QED
    BY <2>1, <2>2 DEF WalkInv, Answered, Asked, Passed
<1>6. CASE PassBy
  <2>1. /\ walk # Nil /\ walk.i \in 1 .. Len(layers) /\ Len(layers) \in Nat /\ walk.by = 0
        /\ walk = [f \in Fields |-> walk[f]]
    BY <1>6, LenProperties DEF PassBy, Asking, IInv, TypeOK, WalkIsRecord
  <2>2. /\ walk'.asked = walk.asked /\ walk'.client = walk.client /\ walk'.by = 0
        /\ walk'.path = walk.path /\ walk'.cleared = walk.cleared /\ walk'.i = walk.i - 1
        /\ layers' = layers /\ workingDirs' = workingDirs
    BY <1>6, <2>1 DEF PassBy, Fields
  <2>3. PassedBy(walk.i, getFullPath(walk.client, walk.path))
    BY <1>6 DEF PassBy, At, PassedBy
  <2>4. \A i \in walk.i .. Len(layers) : i = walk.i \/ i \in walk.i + 1 .. Len(layers)
    BY <2>1
  <2>5. getFullPath(walk.client, walk.path)' = getFullPath(walk.client, walk.path)
    BY <2>2 DEF getFullPath, NoteOf
  <2>6. ASSUME ~walk'.cleared
        PROVE  \A i \in walk'.i + 1 .. Len(layers) :
                 PassedBy(i, getFullPath(walk.client, walk.path))
    <3>1. walk'.i + 1 = walk.i /\ ~walk.cleared
      BY <2>1, <2>2, <2>6
    <3>2. \A i \in walk.i + 1 .. Len(layers) : PassedBy(i, getFullPath(walk.client, walk.path))
      BY <2>1, <3>1 DEF WalkInv, Passed
    <3> QED
      BY <2>3, <2>4, <3>1, <3>2
  <2>7. \A i : PassedBy(i, getFullPath(walk.client, walk.path))'
               <=> PassedBy(i, getFullPath(walk.client, walk.path))
    BY <2>2, <2>5 DEF PassedBy
  <2>8. Passed'
    BY <2>2, <2>6, <2>7 DEF Passed
  <2>9. Answered'
    BY <2>2 DEF Answered
  <2>10. Asked'
    BY <2>1, <2>2 DEF WalkInv, Asked
  <2> QED
    BY <2>8, <2>9, <2>10 DEF WalkInv
<1>7. CASE AskLayer
  BY <1>7, AskWalkInv
<1>8. CASE Leave
  BY <1>0, <1>8 DEF Leave
<1>9. CASE ClearWorkingDirs
  <2>1. CASE walk = Nil
    BY <1>0, <1>9, <2>1 DEF ClearWorkingDirs
  <2>2. CASE walk # Nil
    <3>1. /\ walk'.asked = walk.asked /\ walk'.by = walk.by /\ walk'.cleared = TRUE
          /\ walk'.full = walk.full /\ walk'.target = walk.target /\ layers' = layers
      BY <1>9, <2>2 DEF ClearWorkingDirs, IInv, WalkIsRecord, Fields
    <3> QED
      BY <2>2, <3>1 DEF WalkInv, Answered, Asked, Passed
  <2> QED
    BY <2>1, <2>2
<1>10. CASE ClearLayers
  BY <1>0, <1>10 DEF ClearLayers, Unlocked
<1>11. CASE NextApplication
  BY <1>0, <1>11 DEF NextApplication, Unlocked
<1>12. CASE UNCHANGED vars
  BY <1>12, SameWalk DEF vars
<1> QED
  BY <1>1, <1>2, <1>3, <1>4, <1>5, <1>6, <1>7, <1>8, <1>9, <1>10, <1>11, <1>12 DEF Next

THEOREM WalksAreSound == Spec => [](IInv /\ WalkInv)
<1>1. Init => IInv /\ WalkInv
  BY InitIInv DEF Init, WalkInv
<1>2. (IInv /\ WalkInv) /\ [Next]_vars => (IInv /\ WalkInv)'
  BY StepIInv, StepWalkInv
<1> QED
  BY <1>1, <1>2, PTL DEF Spec

(* A layer leads a plain path to the place below its replacement that the path      *)
(* has below its prefix, in any case and with any slashes, and answers for no        *)
(* other; and no path goes to the console that a layer had to answer for.            *)
THEOREM PlacesAreKept == Spec => []RedirectsExactly
<1>1. IInv /\ WalkInv => RedirectsExactly
  <2> SUFFICES ASSUME IInv, WalkInv, walk # Nil
               PROVE  /\ walk.by > 0 =>
                           LET l == layers[walk.by].is
                               place == Resolve(<<>>, walk.full) IN
                           Plain(walk.full, l) =>
                             /\ Below(walk.full, l)
                             /\ Resolve(<<>>, walk.target) =
                                  Resolve(<<>>, l.replacement) \o
                                  SubSeq(place, Len(Names(l.prefix)) + 1, Len(place))
                      /\ walk.by = 0 /\ walk.i = 0 =>
                           \A full \in walk.asked, i \in 1 .. Len(layers) :
                             LET l == layers[i].is IN
                             layers[i].active /\ ~l.fallback /\ Plain(full, l) /\ ~walk.cleared
                               => ~Below(full, l)
    BY DEF RedirectsExactly
  <2>1. \A i \in 1 .. Len(layers) : layers[i].is \in LayerKind
    <3>1. layers \in Seq(Layers)
      BY DEF IInv, TypeOK, Layers
    <3>2. \A i \in 1 .. Len(layers) : layers[i] \in Layers
      BY <3>1, ElementOfSeq
    <3> QED
      BY <3>2 DEF Layers
  <2>2. \A l \in LayerKind : /\ l.prefix \in Seq(Token) /\ l.replacement \in Seq(Token)
                            /\ Slashes(l.prefix) = l.prefix /\ IsAbsolute(l.prefix)
                            /\ ~HasDoubleSeparator(l.prefix)
                            /\ l.prefix[Len(l.prefix)] # Slash
    BY WorkingDirAssumption DEF WellSpelled, IsAbsolute, IsSeparator
  <2>3. ASSUME walk.by > 0, NEW l, l = layers[walk.by].is, Plain(walk.full, l)
        PROVE  /\ Below(walk.full, l)
               /\ Resolve(<<>>, walk.target) =
                    Resolve(<<>>, l.replacement) \o
                    SubSeq(Resolve(<<>>, walk.full), Len(Names(l.prefix)) + 1,
                           Len(Resolve(<<>>, walk.full)))
    <3>1. walk.by \in 1 .. Len(layers)
      BY <2>3, LenProperties DEF IInv, TypeOK
    <3>2. PICK prefix, replacement, full \in Seq(Token) :
            prefix = l.prefix /\ replacement = l.replacement /\ full = walk.full
      BY <2>1, <2>2, <2>3, <3>1 DEF WalkInv, Answered
    <3>3. starts_with_case_insensitive(full, prefix)
          /\ walk.target = GetNewPath(full, prefix, replacement)
      BY <2>3, <3>2 DEF WalkInv, Answered, IsPathToReplace
    <3>4. ~GoesOn(full, prefix) /\ ~HasDots(full)
      BY <2>3, <3>2 DEF Plain
    <3>5. /\ IsPrefix(Names(prefix), Resolve(<<>>, full))
          /\ Resolve(<<>>, GetNewPath(full, prefix, replacement)) =
               Resolve(<<>>, replacement) \o
               SubSeq(Resolve(<<>>, full), Len(Names(prefix)) + 1, Len(Resolve(<<>>, full)))
      BY <3>3, <3>4, RedirectedPlace
    <3> QED
      BY <3>2, <3>3, <3>5, Zenon DEF Below
  <2>4. ASSUME walk.by = 0, walk.i = 0, NEW full \in walk.asked, NEW i \in 1 .. Len(layers),
               NEW l, l = layers[i].is, layers[i].active, ~l.fallback, Plain(full, l),
               ~walk.cleared, Below(full, l)
        PROVE  FALSE
    <3>1. full = getFullPath(walk.client, walk.path)
      BY <2>4 DEF IInv, AskedSame
    <3>2. i \in walk.i + 1 .. Len(layers)
      BY <2>4
    <3>3. ~IsPathToReplace(full, l)
      BY <2>4, <3>1, <3>2 DEF WalkInv, Passed, PassedBy
    <3>4. full \in Seq(Token) /\ Slashes(full) = full
      BY DEF WalkInv, Asked
    <3>5. PICK prefix \in Seq(Token) :
            /\ prefix = l.prefix /\ Slashes(prefix) = prefix /\ IsAbsolute(prefix)
            /\ ~HasDoubleSeparator(prefix) /\ prefix[Len(prefix)] # Slash
      BY <2>1, <2>2, <2>4
    <3>6. IsAbsolute(full) /\ ~HasDots(full) /\ ~HasDoubleSeparator(full)
          /\ IsPrefix(Names(prefix), Resolve(<<>>, full))
      BY <2>4, <3>5 DEF Plain, Below
    <3>7. starts_with_case_insensitive(full, prefix)
      BY <3>4, <3>5, <3>6, NotBelow
    <3> QED
      BY <3>3, <3>5, <3>7 DEF IsPathToReplace
  <2> QED
    BY <2>3, <2>4
<1> QED
  BY <1>1, WalksAreSound, PTL
=============================================================================
