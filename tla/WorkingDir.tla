----------------------------- MODULE WorkingDir -----------------------------
(***************************************************************************)
(* Where a path of an application leads.  The module keeps its own note of   *)
(* each client's working directory (workingDirs), taken when a request to    *)
(* change it passes the layers; the console changes the directory that counts *)
(* later, and may refuse.  Each layer of a walk completes the path by itself, *)
(* compares it with its prefix and rewrites it.  When an application ends,    *)
(* clearFSLayer empties workingDirs and the layers in two critical sections.  *)
(***************************************************************************)
EXTENDS Naturals, Sequences, FiniteSets, Paths

CONSTANTS
  Client,       \* FSA clients of the application
  LayerKind,    \* layers plugins add: [prefix, replacement, fallback]
  Path,         \* paths an application opens
  Dir,          \* paths it changes its directory to
  Places,       \* directories the console has, as sequences of names
  MaxLayers,    \* bound on the layers
  MaxChanges,   \* bound on the changes of directory on their way at a time
  Nil

(* The prefixes of CRAddFSLayer: "/vol/content", "/vol/save", a user's directory    *)
(* below it and the path of a title's add-on content, with slashes only.          *)
WellSpelled(prefix) ==
  /\ prefix \in Seq(Token) /\ prefix # <<>>
  /\ prefix[1] = Slash /\ prefix[Len(prefix)] # Slash
  /\ Slashes(prefix) = prefix /\ ~HasDoubleSeparator(prefix)

(* Why a note may be another directory than the console's.                      *)
Reasons == {"relative", "not noted", "overtaken", "refused", "cleared", "survived"}

ASSUME WorkingDirAssumption ==
  /\ MaxLayers \in Nat /\ MaxChanges \in Nat /\ <<>> \in Places
  /\ \A l \in LayerKind : /\ WellSpelled(l.prefix) /\ l.replacement \in Seq(Token)
                         /\ l.fallback \in BOOLEAN
  /\ Path \cup Dir \subseteq Seq(Token) /\ Nil \notin Seq(Token) \cup Reasons

VARIABLES
  layers,       \* Seq of LayerKind with their active flag: fsLayers
  workingDirs,  \* [Client -> path or Nil]
  walk,         \* the walk under fsLayerMutex, or Nil
  phase,        \* "running"; "clearing" between the sections of clearFSLayer; "ended"
  consoleDir,   \* [Client -> Seq of names]: the directory that counts
  changes,      \* [Client -> Seq of changes that have yet to reach the console]
  excuse,       \* [Client -> Nil, or why the note is not the console's directory]
  late          \* history: clients whose note was taken between the sections

vars == <<layers, workingDirs, walk, phase, consoleDir, changes, excuse, late>>

Init ==
  /\ layers = <<>> /\ walk = Nil /\ phase = "running"
  /\ workingDirs = [c \in Client |-> Nil]
  /\ consoleDir = [c \in Client |-> <<>>]
  /\ changes = [c \in Client |-> <<>>]
  /\ excuse = [c \in Client |-> Nil] /\ late = {}

Unlocked == walk = Nil   \* fsLayerMutex

-----------------------------------------------------------------------------
(* FileUtils.cpp, under workingDirMutex.                                      *)

(* A relative path is completed with the client's note, "/" when there is none. *)
NoteOf(c) == IF workingDirs[c] = Nil THEN <<Slash>> ELSE workingDirs[c]
getFullPath(c, path) == Slashes(IF IsAbsolute(path) THEN path ELSE NoteOf(c) \o path)

(* A missing note is made up on the way.                                       *)
NoteAfterwards(c, path) ==
  IF IsAbsolute(path) THEN workingDirs ELSE [workingDirs EXCEPT ![c] = NoteOf(c)]

AsGiven(path) == path   \* mutant: nothing is appended
WithSlash(path) == IF path # <<>> /\ path[Len(path)] = Slash THEN path
                   ELSE Append(path, Slash)

-----------------------------------------------------------------------------
(* Plugins.                                                                   *)

AddLayer(l) ==
  /\ Unlocked /\ phase = "running" /\ Len(layers) < MaxLayers
  /\ layers' = Append(layers, [is |-> l, active |-> TRUE])
  /\ UNCHANGED <<workingDirs, walk, phase, consoleDir, changes, excuse, late>>

SetActive(i) ==
  /\ Unlocked /\ i \in 1 .. Len(layers)
  /\ layers' = [layers EXCEPT ![i].active = ~@]
  /\ UNCHANGED <<workingDirs, walk, phase, consoleDir, changes, excuse, late>>

-----------------------------------------------------------------------------
(* FSAChangeDir and FSChangeDirAsync: the walk takes the note at every active    *)
(* layer and passes the request on; then the caller's thread, or the console's   *)
(* queue, makes the change.                                                   *)

SomeActive == \E i \in 1 .. Len(layers) : layers[i].active

Overtaken(sq) == [i \in DOMAIN sq |-> [sq[i] EXCEPT !.newest = FALSE]]

NoteWithoutLock(c, path) ==   \* mutant: fsLayerMutex is not taken
  /\ Len(changes[c]) < MaxChanges /\ SomeActive
  /\ workingDirs' = [workingDirs EXCEPT ![c] = WithSlash(path)]
  /\ changes' = [changes EXCEPT ![c] =
       Append(Overtaken(@), [path |-> path, noted |-> TRUE, newest |-> TRUE])]
  /\ UNCHANGED <<layers, walk, phase, consoleDir, excuse, late>>
FSAChangeDir(c, path) ==
  /\ Unlocked /\ Len(changes[c]) < MaxChanges
  /\ workingDirs' = IF SomeActive THEN [workingDirs EXCEPT ![c] = WithSlash(path)]
                    ELSE workingDirs
  /\ changes' = [changes EXCEPT ![c] =
       Append(IF SomeActive THEN Overtaken(@) ELSE @,
              [path |-> path, noted |-> SomeActive, newest |-> SomeActive])]
  /\ late' = IF SomeActive /\ phase = "clearing" THEN late \cup {c} ELSE late
  /\ UNCHANGED <<layers, walk, phase, consoleDir, excuse>>

(* Changes of one client from two threads may reach the console in any order;    *)
(* the console refuses a directory that it does not have.                        *)
RealChangeDir(c, i, done) ==
  /\ i \in DOMAIN changes[c]
  /\ LET ch == changes[c][i] IN
     /\ done => Resolve(consoleDir[c], ch.path) \in Places
     /\ changes' = [changes EXCEPT ![c] = RemoveAt(@, i)]
     /\ consoleDir' = IF done THEN [consoleDir EXCEPT ![c] = Resolve(@, ch.path)]
                      ELSE consoleDir
     /\ excuse' = [excuse EXCEPT ![c] =
          CASE done /\ ch.newest /\ IsAbsolute(ch.path) -> Nil
            [] done /\ ch.newest /\ ~IsAbsolute(ch.path) -> "relative"
            [] done /\ ~ch.noted                         -> "not noted"
            [] done /\ ch.noted /\ ~ch.newest            -> "overtaken"
            [] ~done /\ ch.newest                        -> "refused"
            [] OTHER                                     -> @]
  /\ UNCHANGED <<layers, workingDirs, walk, phase, late>>

-----------------------------------------------------------------------------
(* A request that names a path: doForLayer, one layer at a time.               *)

Enter(c, path) ==
  /\ Unlocked
  /\ walk' = [client |-> c, path |-> path, i |-> Len(layers), asked |-> {}, by |-> 0,
              full |-> <<>>, target |-> <<>>, cleared |-> FALSE]
  /\ UNCHANGED <<layers, workingDirs, phase, consoleDir, changes, excuse, late>>

Asking == walk # Nil /\ walk.by = 0 /\ walk.i > 0
At == layers[walk.i]

(* The layer is not active.                                                   *)
PassBy ==
  /\ Asking /\ ~At.active
  /\ walk' = [walk EXCEPT !.i = @ - 1]
  /\ UNCHANGED <<layers, workingDirs, phase, consoleDir, changes, excuse, late>>

IsPathToReplace(full, l) == starts_with_case_insensitive(full, l.prefix)

(* The layer completes the path; it answers when the path is its own, unless it *)
(* merges and cannot.                                                         *)
AskLayer ==
  /\ Asking /\ At.active
  /\ LET full == getFullPath(walk.client, walk.path)
         l == At.is
         passed == [walk EXCEPT !.asked = @ \cup {full}, !.i = @ - 1] IN
     /\ walk' \in
          (IF IsPathToReplace(full, l)
           THEN {[walk EXCEPT !.asked = @ \cup {full}, !.by = walk.i, !.full = full,
                              !.target = GetNewPath(full, l.prefix, l.replacement)]}
           ELSE {passed})
          \cup (IF l.fallback THEN {passed} ELSE {})
     /\ workingDirs' = NoteAfterwards(walk.client, walk.path)
  /\ UNCHANGED <<layers, phase, consoleDir, changes, excuse, late>>

Leave ==
  /\ walk # Nil /\ (walk.by > 0 \/ walk.i = 0)
  /\ walk' = Nil
  /\ UNCHANGED <<layers, workingDirs, phase, consoleDir, changes, excuse, late>>

-----------------------------------------------------------------------------
(* The end of an application.  The first section of clearFSLayer needs only     *)
(* workingDirMutex, so it may fall between two layers of a walk; requests go on  *)
(* between the sections.                                                      *)
KeepNotes ==   \* mutant: workingDirs is not emptied
  /\ phase = "running" /\ phase' = "clearing"
  /\ walk' = IF walk = Nil THEN Nil ELSE [walk EXCEPT !.cleared = TRUE]
  /\ UNCHANGED <<layers, workingDirs, consoleDir, changes, excuse, late>>
ClearWorkingDirs ==
  /\ phase = "running" /\ phase' = "clearing"
  /\ workingDirs' = [c \in Client |-> Nil]
  /\ walk' = IF walk = Nil THEN Nil ELSE [walk EXCEPT !.cleared = TRUE]
  /\ changes' = [c \in Client |-> Overtaken(changes[c])]
  /\ excuse' = [c \in Client |-> IF workingDirs[c] = Nil THEN excuse[c] ELSE "cleared"]
  /\ UNCHANGED <<layers, consoleDir, late>>

ClearLayers ==
  /\ phase = "clearing" /\ Unlocked
  /\ layers' = <<>> /\ phase' = "ended"
  /\ UNCHANGED <<workingDirs, walk, consoleDir, changes, excuse, late>>

(* The next application's clients get the same handles.  A note that a request   *)
(* took between the two sections is still there.                               *)
NextApplication ==
  /\ phase = "ended" /\ Unlocked
  /\ phase' = "running" /\ late' = {}
  /\ consoleDir' = [c \in Client |-> <<>>] /\ changes' = [c \in Client |-> <<>>]
  /\ excuse' = [c \in Client |-> IF c \in late THEN "survived" ELSE Nil]
  /\ UNCHANGED <<layers, workingDirs, walk>>

-----------------------------------------------------------------------------
Next == \/ \E l \in LayerKind : AddLayer(l)
        \/ \E i \in 1 .. MaxLayers : SetActive(i)
        \/ \E c \in Client : \/ \E dir \in Dir : FSAChangeDir(c, dir)
                              \/ \E i \in 1 .. MaxChanges, done \in BOOLEAN :
                                   RealChangeDir(c, i, done)
                              \/ \E path \in Path : Enter(c, path)
        \/ PassBy \/ AskLayer \/ Leave
        \/ ClearWorkingDirs \/ ClearLayers \/ NextApplication

Spec == Init /\ [][Next]_vars

-----------------------------------------------------------------------------
(* The types: at most MaxLayers layers and MaxChanges changes on their way, the   *)
(* index of a walk inside the layers, a note that ends with a slash.             *)
Change  == [path : Dir, noted : BOOLEAN, newest : BOOLEAN]
EndsWithSlash(note) == note # <<>> /\ note[Len(note)] = Slash
TypeOK ==
  /\ layers \in Seq([is : LayerKind, active : BOOLEAN]) /\ Len(layers) <= MaxLayers
  /\ workingDirs \in [Client -> {Nil} \cup Seq(Token)]
  /\ \A c \in Client : workingDirs[c] # Nil => EndsWithSlash(workingDirs[c])
  /\ phase \in {"running", "clearing", "ended"} /\ late \subseteq Client
  /\ consoleDir \in [Client -> Places]
  /\ changes \in [Client -> Seq(Change)] /\ \A c \in Client : Len(changes[c]) <= MaxChanges
  /\ excuse \in [Client -> {Nil} \cup Reasons]
  /\ walk # Nil => /\ walk.client \in Client /\ walk.path \in Path /\ walk.cleared \in BOOLEAN
                   /\ walk.i \in 0 .. Len(layers) /\ walk.by \in 0 .. Len(layers)

(* A path leads the layers to the place to which it leads the console, unless a  *)
(* change is between its note and the console, or the last one was made without   *)
(* a note, was relative, refused or overtaken, or the note was cleared, or left   *)
(* by the application before; a noted absolute change puts all of that right.     *)
InFlight(c) == \E i \in DOMAIN changes[c] : changes[c][i].newest
ResolutionAgrees ==
  \A c \in Client, path \in Path :
    excuse[c] = Nil /\ ~InFlight(c) =>
      Resolve(<<>>, getFullPath(c, path)) = Resolve(consoleDir[c], path)

(* All layers of one walk look at the same path, though each completes it by      *)
(* itself, unless the notes were cleared meanwhile.                              *)
SamePathForAll == walk # Nil => walk.cleared \/ Cardinality(walk.asked) <= 1

(* A layer answers for the places below its prefix and no others, and leads to    *)
(* the same place below its replacement; the console gets what no layer that       *)
(* replaces has below its prefix.  Paths with dots, with separators in a row, or   *)
(* with a name that goes on after the prefix are the exceptions, and those that a   *)
(* note of a relative directory completes to a path that is relative itself.      *)
Plain(full, l) == /\ IsAbsolute(full) /\ ~HasDots(full) /\ ~HasDoubleSeparator(full)
                  /\ ~GoesOn(full, l.prefix)
Below(full, l) == IsPrefix(Names(l.prefix), Resolve(<<>>, full))

RedirectsExactly ==
  walk # Nil =>
    /\ walk.by > 0 =>
         LET l == layers[walk.by].is
             place == Resolve(<<>>, walk.full) IN
         Plain(walk.full, l) =>
           /\ Below(walk.full, l)
           /\ Resolve(<<>>, walk.target) =
                Resolve(<<>>, l.replacement) \o SubSeq(place, Len(Names(l.prefix)) + 1, Len(place))
    /\ walk.by = 0 /\ walk.i = 0 =>
         \A full \in walk.asked, i \in 1 .. Len(layers) :
           LET l == layers[i].is IN
           layers[i].active /\ ~l.fallback /\ Plain(full, l) /\ ~walk.cleared
             => ~Below(full, l)
=============================================================================
