------------------------------ MODULE MergeDir ------------------------------
(***************************************************************************)
(* One open directory of FSWrapperMergeDirsWithParent: its own entries     *)
(* first, kept in a growing buffer, then those of the parent directory that *)
(* the buffer neither has nor marks as deleted.  A call of FSReadDirWrapper *)
(* is cut at the iterations of its two loops; fsLayerMutex keeps other      *)
(* calls out meanwhile.  A handle is opened and closed once: nothing of a   *)
(* DirInfoEx outlives it but what it failed to release.                     *)
(*                                                                         *)
(* An entry of the layer's directory is x, or .deleted_x, or its mark in     *)
(* another spelling (.Deleted_x): a name and how the prefix is spelled.       *)
(* Names that differ in case are different names, as they are to strcmp.     *)
(* The parent lists no marks: the layers skip them and the console has none. *)
(* The two directories do not change while they are read.                   *)
(***************************************************************************)
EXTENDS Naturals, Sequences, FiniteSets

CONSTANTS
  Name,       \* names of files
  MaxOwn,     \* bound: entries of the layer's directory
  MaxReal,    \* bound: entries of the parent's directory
  Unset       \* an array element that nothing was copied to

Spelling == {"none", "exact", "other case"}   \* of deletePrefix before the name
Entry == [name : Name, mark : Spelling]

ASSUME UnsetAssumption == Unset \notin Entry
ASSUME BoundAssumption == MaxOwn \in Nat /\ MaxReal \in Nat

VARIABLES
  own,              \* Seq(Entry): the replacement directory, in readdir's order
  real,             \* Seq(Name): the parent's directory, as FSAReadDir gives it
  phase,            \* "new", "open" (the handle is in openDirs) or "closed"
  call,             \* where the read in progress is: "none", "own", "parent", "fatal"
  ownPos, realPos,  \* entries that were read
  realDirHandle,    \* dirHandle->realDirHandle # 0
  readResult,       \* Seq([entry, isMarkedAsDeleted]) of length readResultCapacity
  readResultNumberOfEntries,
  realOpen,         \* the directory is open in the parent
  allocated,        \* the array is allocated
  listed,           \* Seq([name, mark, from]): what the application got in this pass
  ended,            \* it got FS_ERROR_END_OF_DIR
  failed,           \* the storage failed since the directory was opened
  rewound           \* the directory was rewound since it was opened

dirs   == <<own, real>>
handle == <<phase, ownPos, realPos, realDirHandle>>
buffer == <<readResult, readResultNumberOfEntries, allocated>>
seen   == <<listed, ended, failed, rewound>>
vars   == <<dirs, call, handle, buffer, realOpen, seen>>

Distinct(s) == \A i, j \in DOMAIN s : s[i] = s[j] => i = j
Listings(S, n) == {s \in UNION {[1 .. k -> S] : k \in 0 .. n} : Distinct(s)}

Init ==
  /\ own \in Listings(Entry, MaxOwn) /\ real \in Listings(Name, MaxReal)
  /\ phase = "new" /\ call = "none"
  /\ ownPos = 0 /\ realPos = 0 /\ realDirHandle = FALSE /\ realOpen = FALSE
  /\ readResult = <<>> /\ readResultNumberOfEntries = 0 /\ allocated = FALSE
  /\ listed = <<>> /\ ended = FALSE /\ failed = FALSE /\ rewound = FALSE

-----------------------------------------------------------------------------
(* FSOpenDirWrapper: the layer's directory is open; so is the parent's, or its  *)
(* FSAOpenDir failed, which is not reported.                                    *)
OpenDir ==
  /\ phase = "new" /\ phase' = "open"
  /\ \E ok \in BOOLEAN : realDirHandle' = ok /\ realOpen' = ok /\ failed' = ~ok
  /\ UNCHANGED <<dirs, call, ownPos, realPos, buffer, listed, ended, rewound>>

Idle == phase = "open" /\ call = "none"

ReadDir ==
  /\ Idle /\ call' = "own"
  /\ UNCHANGED <<dirs, handle, buffer, realOpen, seen>>

(* readdir fails, or the stat of the entry it has just moved past.              *)
OwnReadFails ==
  /\ call = "own" /\ call' = "none"
  /\ ownPos' \in {ownPos, ownPos + 1} /\ ownPos' <= Len(own)
  /\ failed' = TRUE
  /\ UNCHANGED <<dirs, phase, realPos, realDirHandle, buffer, realOpen, listed, ended, rewound>>

(* malloc(1), or realloc to twice the capacity, when the array is full.  The    *)
(* new elements hold whatever the memory did.                                   *)
FullTooLate == readResultNumberOfEntries > Len(readResult) \/ readResult = <<>> \* mutant
Full == readResultNumberOfEntries >= Len(readResult)
Garbage(k) == [1 .. k -> [entry : {Unset}, isMarkedAsDeleted : BOOLEAN]]
Zeroed(k) == [i \in 1 .. k |-> [entry |-> Unset, isMarkedAsDeleted |-> FALSE]]
Room == IF ~Full THEN {readResult}
        ELSE {readResult \o g : g \in Garbage(IF readResult = <<>> THEN 1 ELSE Len(readResult))}

(* starts_with_case_insensitive(entry->name, deletePrefix)                       *)
IsMarkExactly(e) == e.mark = "exact"   \* mutant: compares the case
IsMark(e) == e.mark # "none"

(* memcpy copies the entry only; then the flag of readResult[                    *)
(* readResultNumberOfEntries], already incremented, is set.  When that is one    *)
(* past the array the byte is lost, or found in it when the array has grown.     *)
Keep(arr, e) == [arr EXCEPT ![readResultNumberOfEntries + 1].entry = e]
Mark(arr, e) == IF IsMark(e) /\ readResultNumberOfEntries + 2 <= Len(arr)
                THEN [arr EXCEPT ![readResultNumberOfEntries + 2].isMarkedAsDeleted = TRUE]
                ELSE arr

ReadOwn ==
  /\ call = "own" /\ ownPos < Len(own)
  /\ LET e == own[ownPos + 1] IN
     /\ \E arr \in Room : readResult' = Mark(Keep(arr, e), e)
     /\ IF IsMark(e) THEN UNCHANGED <<call, listed>>
        ELSE /\ call' = "none"
             /\ listed' = Append(listed, [name |-> e.name, mark |-> e.mark, from |-> "own"])
  /\ allocated' = TRUE
  /\ readResultNumberOfEntries' = readResultNumberOfEntries + 1
  /\ ownPos' = ownPos + 1
  /\ UNCHANGED <<dirs, phase, realPos, realDirHandle, realOpen, ended, failed, rewound>>

NoMemory ==
  /\ call = "own" /\ ownPos < Len(own) /\ Full
  /\ call' = "fatal"
  /\ UNCHANGED <<dirs, handle, buffer, realOpen, seen>>

(* FS_ERROR_END_OF_DIR of the layer's directory: "Read the real directory."      *)
AfterOwnEmpty == IF realDirHandle /\ readResult = <<>> THEN "parent" ELSE "none" \* mutant
AfterOwn      == IF realDirHandle THEN "parent" ELSE "none"

OwnEnds ==
  /\ call = "own" /\ ownPos = Len(own)
  /\ call' = AfterOwn
  /\ ended' = (AfterOwn = "none")
  /\ UNCHANGED <<dirs, handle, buffer, realOpen, listed, failed, rewound>>

(* The search in readResult for an entry of the parent: strcmp with deletePrefix *)
(* and its name finds a mark in that spelling only.                             *)
KeptButLast == {readResult[i] : i \in 1 .. readResultNumberOfEntries - 1} \* mutant
Kept == {readResult[i] : i \in 1 .. readResultNumberOfEntries}
IsDeletedByFlag(n) == \E r \in Kept :   \* mutant: trusts the flag
                        r.entry.mark = "exact" /\ r.entry.name = n /\ r.isMarkedAsDeleted
IsDeleted(n) == \E r \in Kept : r.entry = [name |-> n, mark |-> "exact"]
IsListed(n)  == \E r \in Kept : r.entry = [name |-> n, mark |-> "none"] /\ ~r.isMarkedAsDeleted

ReadParent ==
  /\ call = "parent" /\ realPos < Len(real)
  /\ LET n == real[realPos + 1] IN
     IF IsDeleted(n) \/ IsListed(n) THEN UNCHANGED <<call, listed>>
     ELSE /\ call' = "none"
          /\ listed' = Append(listed, [name |-> n, mark |-> "none", from |-> "parent"])
  /\ realPos' = realPos + 1
  /\ UNCHANGED <<dirs, phase, ownPos, realDirHandle, buffer, realOpen, ended, failed, rewound>>

(* The parent's end, or an unexpected error, which is reported as the end.      *)
ParentEnds ==
  /\ call = "parent" /\ call' = "none"
  /\ ended' = TRUE
  /\ failed' \in {TRUE, failed \/ realPos < Len(real)}
  /\ UNCHANGED <<dirs, handle, buffer, realOpen, listed, rewound>>

(* FSRewindDirWrapper; FSARewindDir of the parent may fail.                      *)
RewindDir ==
  /\ Idle
  /\ ownPos' = 0
  /\ readResultNumberOfEntries' = 0 /\ readResult' = Zeroed(Len(readResult))
  /\ \E ok \in BOOLEAN :
       /\ realDirHandle' = (realDirHandle /\ ~ok)
       /\ realPos' = IF realDirHandle /\ ok THEN 0 ELSE realPos
       /\ failed' = (failed \/ (realDirHandle /\ ~ok))
  /\ listed' = <<>> /\ ended' = FALSE /\ rewound' = TRUE
  /\ UNCHANGED <<dirs, phase, call, allocated, realOpen>>

(* FSCloseDirWrapper; processRequest takes the handle out of openDirs whatever it *)
(* returns.  A closedir that fails skips the rest, and so does an FSACloseDir    *)
(* that fails.                                                                  *)
CloseParentForgotten == UNCHANGED realOpen   \* mutant
CloseParent == realOpen' = (realOpen /\ ~realDirHandle)

CloseDir ==
  /\ Idle /\ phase' = "closed"
  /\ CloseParent
  /\ readResult' = <<>> /\ readResultNumberOfEntries' = 0 /\ allocated' = FALSE
  /\ UNCHANGED <<dirs, call, ownPos, realPos, realDirHandle, seen>>

CloseDirFails ==
  /\ Idle /\ phase' = "closed"
  /\ failed' = TRUE
  /\ UNCHANGED <<dirs, call, ownPos, realPos, realDirHandle, buffer, realOpen,
                 listed, ended, rewound>>

Next ==
  \/ OpenDir \/ ReadDir \/ RewindDir \/ CloseDir \/ CloseDirFails
  \/ OwnReadFails \/ ReadOwn \/ NoMemory \/ OwnEnds
  \/ ReadParent \/ ParentEnds

Spec == Init /\ [][Next]_vars

-----------------------------------------------------------------------------
(* The variables keep their types, no position runs past its directory, and the *)
(* entries in use fit the array.                                                *)
TypeOK ==
  /\ own \in Seq(Entry) /\ real \in Seq(Name)
  /\ phase \in {"new", "open", "closed"} /\ call \in {"none", "own", "parent", "fatal"}
  /\ ownPos \in 0 .. Len(own) /\ realPos \in 0 .. Len(real)
  /\ readResult \in Seq([entry : Entry \cup {Unset}, isMarkedAsDeleted : BOOLEAN])
  /\ readResultNumberOfEntries \in 0 .. Len(readResult)
  /\ listed \in Seq([name : Name, mark : Spelling, from : {"own", "parent"}])
  /\ realDirHandle \in BOOLEAN /\ realOpen \in BOOLEAN /\ allocated \in BOOLEAN
  /\ ended \in BOOLEAN /\ failed \in BOOLEAN /\ rewound \in BOOLEAN

Listed == {listed[i] : i \in DOMAIN listed}
OwnEntries == {own[i] : i \in DOMAIN own}
Visible == {e.name : e \in {o \in OwnEntries : o.mark = "none"}}
Hidden  == {e.name : e \in {o \in OwnEntries : o.mark = "exact"}}

(* While no read of the layer's directory fails, "Don't return files that are   *)
(* deleted": no mark is listed, however its prefix is spelled, and the parent's  *)
(* file x is never listed if the layer has .deleted_x in exactly this spelling,  *)
(* however the buffer grew and whatever its flags hold, after a rewind too      *)
(* (FSWrapperMergeDirsWithParent.cpp:87, 112).                                  *)
HidesDeleted ==
  ~failed => \A l \in Listed :
    /\ ~IsMark(l)
    /\ l.from = "parent" => l.name \notin Hidden

(* A pass over the directory that got to the end without an error has listed     *)
(* the layer's names and, but for the hidden ones, the parent's: all of them,     *)
(* and among them x when the layer's mark is .Deleted_x, which hides nothing.    *)
Complete == {l.name : l \in Listed} =
              Visible \cup ({real[i] : i \in DOMAIN real} \ Hidden)
ListsAll == ended /\ ~failed /\ ~rewound => Complete

(* Until it is closed, a name is listed twice only when the layer's entry of    *)
(* that name carries a flag isMarkedAsDeleted, of another entry or of nobody.   *)
TwiceOnlyByFlag ==
  phase = "open" /\ ~failed => \A i, j \in DOMAIN listed :
    i < j /\ listed[i].name = listed[j].name =>
      \E r \in Kept : r.isMarkedAsDeleted /\ r.entry = [name |-> listed[i].name, mark |-> "none"]

(* A directory that was closed without an error, and not rewound, leaves neither *)
(* the parent's directory open nor its buffer allocated.                        *)
ReleasedOnClose ==
  phase = "closed" /\ ~failed /\ ~rewound => ~realOpen /\ ~allocated

(* Why HidesDeleted and ListsAll hold.  The entries in use are those that were    *)
(* read of the layer's directory, and the parent's are read when it has ended.  *)
Copied ==
  ~failed /\ phase # "closed" =>
    /\ readResultNumberOfEntries = ownPos
    /\ \A i \in 1 .. ownPos : readResult[i].entry = own[i]
    /\ call = "parent" => ownPos = Len(own)
(* The names that are listed are those that were read, without the hidden ones.  *)
ListedNames == {l.name : l \in Listed}
Progress ==
  ~failed /\ ~rewound =>
    /\ ListedNames = {own[i].name : i \in {k \in 1 .. ownPos : ~IsMark(own[k])}} \cup
                     ({real[i] : i \in 1 .. realPos} \ Hidden)
    /\ phase = "open" => realDirHandle
    /\ ended => ownPos = Len(own) /\ realPos = Len(real)
(* A read runs on an open directory only, and nothing failed before it was opened. *)
ReadsOpen ==
  /\ call # "none" => phase = "open"
  /\ phase = "new" => ~failed /\ ~ended /\ listed = <<>> /\ ownPos = 0 /\ realPos = 0
IInv == TypeOK /\ ReadsOpen /\ Copied /\ Progress /\ HidesDeleted

(* "Check if this is a new result", "If it's new we can use it :)": each name is  *)
(* listed once.  The code does not keep this: see TwiceOnlyByFlag.              *)
EachOnce == ~failed => \A i, j \in DOMAIN listed : listed[i].name = listed[j].name => i = j

(* At the end of the layer's directory "Read the real directory.", in the passes *)
(* after a rewind as in the first.  The code does not: line 208 drops the handle. *)
ListsAllAgain == ended /\ ~failed => Complete
=============================================================================
