-------------------------- MODULE MergeDir_proofs --------------------------
(***************************************************************************)
(* Proofs about MergeDir for every set of names, every content of the two    *)
(* directories and everything malloc and realloc may leave in the array.     *)
(***************************************************************************)
EXTENDS MergeDir, SequenceTheorems, TLAPS

Slot == [entry : Entry \cup {Unset}, isMarkedAsDeleted : BOOLEAN]
Item == [name : Name, mark : Spelling, from : {"own", "parent"}]

(* TypeOK, with what is Boolean apart from the rest.                          *)
TypeBool ==
  /\ realDirHandle \in BOOLEAN /\ realOpen \in BOOLEAN /\ allocated \in BOOLEAN
  /\ ended \in BOOLEAN /\ failed \in BOOLEAN /\ rewound \in BOOLEAN
TypeMain ==
  /\ own \in Seq(Entry) /\ real \in Seq(Name)
  /\ phase \in {"new", "open", "closed"} /\ call \in {"none", "own", "parent", "fatal"}
  /\ ownPos \in 0 .. Len(own) /\ realPos \in 0 .. Len(real)
  /\ readResult \in Seq(Slot)
  /\ readResultNumberOfEntries \in 0 .. Len(readResult)
  /\ listed \in Seq(Item)

(* The type invariant in two parts, one for each prover.                       *)
LEMMA TypeParts == TypeOK <=> TypeBool /\ TypeMain
BY DEF TypeOK, TypeBool, TypeMain, Slot, Item

(* The name that a read gives to the application.                            *)
LEMMA ListedAppend ==
  ASSUME TypeMain, NEW e \in Item, listed' = Append(listed, e)
  PROVE  /\ listed' \in Seq(Item)
         /\ Listed' = Listed \cup {e}
         /\ ListedNames' = ListedNames \cup {e.name}
<1>1. /\ listed' \in Seq(Item)
      /\ Len(listed) \in Nat /\ Len(listed') = Len(listed) + 1
      /\ \A i \in 1 .. Len(listed) : listed'[i] = listed[i]
      /\ listed'[Len(listed) + 1] = e
  BY AppendProperties DEF TypeMain
<1>2. DOMAIN listed = 1 .. Len(listed) /\ DOMAIN listed' = 1 .. (Len(listed) + 1)
  BY <1>1, LenProperties DEF TypeMain
<1>3. Listed' = Listed \cup {e}
  BY <1>1, <1>2, SMT DEF Listed
<1>4. ListedNames' = ListedNames \cup {e.name}
  BY <1>3, Zenon DEF ListedNames
<1> QED
  BY <1>1, <1>3, <1>4

(* A full array grows, keeps what it has, and has room for one more.         *)
LEMMA RoomFacts ==
  ASSUME TypeMain, NEW arr \in Room
  PROVE  /\ arr \in Seq(Slot)
         /\ Len(arr) \in Nat /\ readResultNumberOfEntries < Len(arr)
         /\ \A i \in 1 .. readResultNumberOfEntries : arr[i] = readResult[i]
<1>1. Len(readResult) \in Nat /\ readResult \in Seq(Slot)
  BY LenProperties DEF TypeMain
<1>2. CASE ~Full
  BY <1>1, <1>2 DEF Room, Full, TypeMain
<1>3. CASE Full
  <2> DEFINE k == IF readResult = <<>> THEN 1 ELSE Len(readResult)
  <2>1. k \in Nat /\ k > 0
    BY <1>1, EmptySeq
  <2>2. PICK g \in Garbage(k) : arr = readResult \o g
    BY <1>3 DEF Room
  <2>3. g \in [1 .. k -> Slot]
    BY <2>2, SMT DEF Garbage, Slot
  <2>4. g \in Seq(Slot) /\ Len(g) = k
    <3> HIDE DEF k
    <3> QED
      BY <2>1, <2>3, SeqDef, LenProperties
  <2>5. /\ arr \in Seq(Slot) /\ Len(arr) = Len(readResult) + Len(g)
        /\ \A i \in 1 .. Len(readResult) : arr[i] = readResult[i]
    <3>1. /\ readResult \o g \in Seq(Slot)
          /\ Len(readResult \o g) = Len(readResult) + Len(g)
          /\ \A i \in 1 .. Len(readResult) + Len(g) :
               (readResult \o g)[i] = IF i <= Len(readResult) THEN readResult[i]
                                      ELSE g[i - Len(readResult)]
      BY <1>1, <2>4, ConcatProperties, Zenon
    <3> HIDE DEF k
    <3> QED
      BY <1>1, <2>1, <2>2, <2>4, <3>1
  <2> HIDE DEF k
  <2> QED
    BY <1>1, <1>3, <2>1, <2>4, <2>5 DEF Full, TypeMain
<1> QED
  BY <1>2, <1>3

(* Mark touches a flag only: the entries in use are those of before and e.     *)
LEMMA KeepFacts ==
  ASSUME TypeMain, NEW arr \in Room, NEW e \in Entry
  PROVE  LET new == Mark(Keep(arr, e), e) IN
         /\ new \in Seq(Slot)
         /\ readResultNumberOfEntries + 1 \in 0 .. Len(new)
         /\ \A i \in 1 .. readResultNumberOfEntries : new[i].entry = readResult[i].entry
         /\ new[readResultNumberOfEntries + 1].entry = e
<1> DEFINE n == readResultNumberOfEntries
           kept == Keep(arr, e)
           new == Mark(kept, e)
<1>1. /\ arr \in Seq(Slot) /\ Len(arr) \in Nat /\ n \in Nat /\ n < Len(arr)
      /\ \A i \in 1 .. n : arr[i] = readResult[i]
  BY RoomFacts DEF TypeMain
<1>2. \A i \in 1 .. Len(arr) : arr[i] \in Slot
  BY <1>1, ElementOfSeq
<1>3. /\ kept \in Seq(Slot) /\ Len(kept) = Len(arr)
      /\ \A i \in 1 .. n : kept[i] = readResult[i]
      /\ kept[n + 1].entry = e
  <2>1. /\ n + 1 \in 1 .. Len(arr) /\ arr[n + 1] \in Slot
        /\ [arr[n + 1] EXCEPT !.entry = e] \in Slot
    BY <1>1, <1>2 DEF Slot
  <2>2. kept = [arr EXCEPT ![n + 1] = [arr[n + 1] EXCEPT !.entry = e]]
    BY DEF Keep
  <2>3. kept \in Seq(Slot) /\ Len(kept) = Len(arr)
    BY <1>1, <2>1, <2>2, ExceptSeq
  <2>4. DOMAIN arr = 1 .. Len(arr)
    BY <1>1, LenProperties
  <2>5. kept[n + 1].entry = e
    BY <2>1, <2>2, <2>4 DEF Slot
  <2>6. \A i \in 1 .. n : kept[i] = readResult[i]
    BY <1>1, <2>1, <2>2, <2>4
  <2> QED
    BY <2>3, <2>5, <2>6
<1>4. CASE ~(IsMark(e) /\ n + 2 <= Len(kept))
  BY <1>1, <1>3, <1>4 DEF Mark
<1>5. CASE IsMark(e) /\ n + 2 <= Len(kept)
  <2> HIDE DEF kept
  <2>1. /\ n + 2 \in 1 .. Len(kept) /\ kept[n + 2] \in Slot
        /\ [kept[n + 2] EXCEPT !.isMarkedAsDeleted = TRUE] \in Slot
    <3>1. n + 2 \in 1 .. Len(kept)
      BY <1>1, <1>3, <1>5
    <3>2. kept[n + 2] \in Slot
      BY <1>3, <3>1, ElementOfSeq
    <3> QED
      BY <3>1, <3>2 DEF Slot
  <2>2. new = [kept EXCEPT ![n + 2] = [kept[n + 2] EXCEPT !.isMarkedAsDeleted = TRUE]]
    BY <1>5 DEF Mark
  <2>3. new \in Seq(Slot) /\ Len(new) = Len(kept)
    BY <1>3, <2>1, <2>2, ExceptSeq
  <2>4. DOMAIN kept = 1 .. Len(kept)
    BY <1>3, LenProperties
  <2>5. \A i \in 1 .. n + 1 : new[i] = kept[i]
    BY <1>1, <1>3, <2>1, <2>2, <2>4
  <2>6. \A i \in 1 .. n : new[i] = readResult[i]
    <3> HIDE DEF new, n
    <3> QED
      BY <1>1, <1>3, <2>5
  <2>7. n + 1 \in 0 .. Len(new) /\ new[n + 1] = kept[n + 1]
    <3> HIDE DEF new, n
    <3> QED
      BY <1>1, <1>3, <2>3, <2>5
  <2>8. \A i \in 1 .. n : new[i].entry = readResult[i].entry
    BY <2>6, Zenon
  <2>9. new[n + 1].entry = e
    BY <1>3, <2>7, Zenon
  <2> QED
    BY <2>3, <2>7, <2>8, <2>9, Zenon DEF kept
<1> QED
  BY <1>4, <1>5

(* What an unchanged variable leaves unchanged.                               *)
LEMMA SameDirs == ASSUME UNCHANGED dirs PROVE Hidden' = Hidden
BY DEF dirs, Hidden, OwnEntries

(* The two sets of what was listed depend on the list alone.                   *)
LEMMA SameListed ==
  ASSUME listed' = listed PROVE Listed' = Listed /\ ListedNames' = ListedNames
BY DEF ListedNames, Listed

(* Nothing is listed at first.                                                 *)
LEMMA NothingListed ==
  ASSUME listed = <<>> PROVE Listed = {} /\ ListedNames = {}
BY DEF ListedNames, Listed

(* A directory's listing is a sequence of its entries.                         *)
LEMMA ListingIsSeq ==
  ASSUME NEW S, NEW n \in Nat, NEW s \in Listings(S, n)
  PROVE  s \in Seq(S)
BY SeqDef DEF Listings

(* OpenDir finds the state of a fresh DirInfoEx.                               *)
LEMMA InitIInv == Init => IInv
<1> SUFFICES ASSUME Init PROVE IInv
  OBVIOUS
<1>1. TypeOK
  <2>1. own \in Seq(Entry) /\ real \in Seq(Name)
    BY ListingIsSeq, BoundAssumption DEF Init
  <2>2. TypeBool
    BY DEF Init, TypeBool
  <2>3. Len(own) \in Nat /\ Len(real) \in Nat
    BY <2>1, LenProperties
  <2>4. TypeMain
    BY <2>1, <2>3, EmptySeq DEF Init, TypeMain
  <2> QED
    BY <2>2, <2>4, TypeParts
<1>2. Listed = {} /\ ListedNames = {}
  BY NothingListed DEF Init
<1>3. Copied /\ ReadsOpen
  BY DEF Init, Copied, ReadsOpen
<1>4. Progress
  BY <1>2 DEF Init, Progress
<1>5. HidesDeleted
  BY <1>2 DEF HidesDeleted
<1> QED
  BY <1>1, <1>3, <1>4, <1>5 DEF IInv

(* The types are kept: the array always has room for the entry that is copied.  *)
LEMMA StepType == TypeOK /\ [Next]_vars => TypeOK'
<1> SUFFICES ASSUME TypeBool, TypeMain, [Next]_vars
             PROVE  TypeBool' /\ TypeMain'
  BY TypeParts DEF TypeOK, TypeBool, TypeMain, Slot, Item
<1>0. Len(own) \in Nat /\ Len(real) \in Nat /\ Len(readResult) \in Nat
  BY LenProperties DEF TypeMain
<1>1. CASE OpenDir
  BY <1>1 DEF OpenDir, TypeBool, TypeMain, dirs, buffer
<1>2. CASE ReadDir
  BY <1>2 DEF ReadDir, Idle, TypeBool, TypeMain, dirs, handle, buffer, seen
<1>3. CASE RewindDir
  <2>1. TypeBool'
    BY <1>3 DEF RewindDir, TypeBool
  <2>2. readResult' \in [1 .. Len(readResult) -> Slot]
    BY <1>3 DEF RewindDir, Zeroed, Slot
  <2>3. readResult' \in Seq(Slot) /\ Len(readResult') \in Nat
    BY <1>0, <2>2, SeqDef, LenProperties
  <2>4. listed' \in Seq(Item)
    BY <1>3, EmptySeq DEF RewindDir
  <2>5. TypeMain'
    BY <1>0, <1>3, <2>3, <2>4 DEF RewindDir, Idle, TypeMain, dirs
  <2> QED
    BY <2>1, <2>5
<1>4. CASE CloseDir
  <2>1. TypeBool'
    BY <1>4 DEF CloseDir, CloseParent, TypeBool, seen
  <2>2. readResult' \in Seq(Slot) /\ readResultNumberOfEntries' \in 0 .. Len(readResult')
    BY <1>4, EmptySeq DEF CloseDir
  <2>3. TypeMain'
    BY <1>4, <2>2 DEF CloseDir, TypeMain, dirs, seen
  <2> QED
    BY <2>1, <2>3
<1>5. CASE CloseDirFails
  BY <1>5 DEF CloseDirFails, Idle, TypeBool, TypeMain, dirs, buffer
<1>6. CASE OwnReadFails
  BY <1>0, <1>6 DEF OwnReadFails, TypeBool, TypeMain, dirs, buffer
<1>7. CASE ReadOwn
  <2>1. own[ownPos + 1] \in Entry
    BY <1>0, <1>7, ElementOfSeq DEF ReadOwn, TypeMain
  <2>2. readResult' \in Seq(Slot) /\ readResultNumberOfEntries' \in 0 .. Len(readResult')
    BY <1>7, <2>1, KeepFacts DEF ReadOwn
  <2>3. listed' \in Seq(Item) /\ call' \in {"own", "none"}
    <3>1. [name |-> own[ownPos + 1].name, mark |-> own[ownPos + 1].mark, from |-> "own"] \in Item
      BY <2>1 DEF Entry, Item
    <3>2. CASE IsMark(own[ownPos + 1])
      BY <1>7, <3>2 DEF ReadOwn, TypeMain
    <3>3. CASE ~IsMark(own[ownPos + 1])
      BY <1>7, <3>1, <3>3, ListedAppend DEF ReadOwn
    <3> QED
      BY <3>2, <3>3
  <2>4. ownPos' \in 0 .. Len(own)
    BY <1>0, <1>7 DEF ReadOwn, TypeMain
  <2>5. TypeMain'
    BY <1>7, <2>2, <2>3, <2>4 DEF ReadOwn, TypeMain, dirs
  <2>6. TypeBool'
    BY <1>7 DEF ReadOwn, TypeBool
  <2> QED
    BY <2>5, <2>6
<1>8. CASE NoMemory
  BY <1>8 DEF NoMemory, TypeBool, TypeMain, dirs, handle, buffer, seen
<1>9. CASE OwnEnds
  BY <1>9 DEF OwnEnds, AfterOwn, TypeBool, TypeMain, dirs, handle, buffer
<1>10. CASE ReadParent
  <2>1. [name |-> real[realPos + 1], mark |-> "none", from |-> "parent"] \in Item
    <3>1. real[realPos + 1] \in Name
      BY <1>0, <1>10, ElementOfSeq DEF ReadParent, TypeMain
    <3> QED
      BY <3>1 DEF Item, Spelling
  <2>2. listed' \in Seq(Item) /\ call' \in {"parent", "none"}
    <3>1. CASE listed' = listed /\ call' = call
      BY <1>10, <3>1 DEF ReadParent, TypeMain
    <3>2. CASE call' = "none" /\ listed' = Append(listed,
                 [name |-> real[realPos + 1], mark |-> "none", from |-> "parent"])
      BY <2>1, <3>2, ListedAppend
    <3> QED
      BY <1>10, <3>1, <3>2 DEF ReadParent
  <2>3. realPos' \in 0 .. Len(real)
    BY <1>0, <1>10 DEF ReadParent, TypeMain
  <2>4. TypeMain'
    BY <1>10, <2>2, <2>3 DEF ReadParent, TypeMain, dirs, buffer
  <2>5. TypeBool'
    BY <1>10 DEF ReadParent, TypeBool, buffer
  <2> QED
    BY <2>4, <2>5
<1>11. CASE ParentEnds
  BY <1>11 DEF ParentEnds, TypeBool, TypeMain, dirs, handle, buffer
<1>12. CASE UNCHANGED vars
  BY <1>12 DEF vars, dirs, handle, buffer, seen, TypeBool, TypeMain
<1> QED
  BY <1>1, <1>2, <1>3, <1>4, <1>5, <1>6, <1>7, <1>8, <1>9, <1>10, <1>11, <1>12 DEF Next

(* memcpy and the growth of the array keep what was read of the directory.     *)
LEMMA StepCopied == TypeOK /\ ReadsOpen /\ Copied /\ [Next]_vars => Copied'
<1> SUFFICES ASSUME TypeMain, TypeBool, ReadsOpen, Copied, [Next]_vars
             PROVE  Copied'
  BY TypeParts
<1>0. Len(own) \in Nat /\ ownPos \in Nat
  BY LenProperties DEF TypeMain
<1>1. CASE OpenDir
  BY <1>1 DEF OpenDir, ReadsOpen, Copied, TypeMain, dirs, buffer
<1>2. CASE ReadDir
  BY <1>2 DEF ReadDir, Idle, Copied, dirs, handle, buffer, seen
<1>3. CASE RewindDir
  BY <1>3 DEF RewindDir, Idle, Copied, dirs
<1>4. CASE CloseDir
  BY <1>4 DEF CloseDir, Copied
<1>5. CASE CloseDirFails
  BY <1>5 DEF CloseDirFails, Copied
<1>6. CASE OwnReadFails
  BY <1>6 DEF OwnReadFails, Copied
<1>7. CASE ReadOwn
  <2> DEFINE n == readResultNumberOfEntries
  <2>1. own[ownPos + 1] \in Entry
    BY <1>0, <1>7, ElementOfSeq DEF ReadOwn, TypeMain
  <2>2. /\ \A i \in 1 .. n : readResult'[i].entry = readResult[i].entry
        /\ readResult'[n + 1].entry = own[ownPos + 1]
    <3>1. PICK arr \in Room : readResult' = Mark(Keep(arr, own[ownPos + 1]), own[ownPos + 1])
      BY <1>7 DEF ReadOwn
    <3> QED
      BY <2>1, <3>1, KeepFacts, Zenon
  <2>3. call' # "parent"
    BY <1>7 DEF ReadOwn
  <2>4. /\ own' = own /\ phase' = phase /\ failed' = failed
        /\ n' = n + 1 /\ ownPos' = ownPos + 1
    BY <1>7 DEF ReadOwn, dirs
  <2>5. SUFFICES ASSUME ~failed, phase # "closed"
                 PROVE  /\ n + 1 = ownPos + 1
                        /\ \A i \in 1 .. ownPos + 1 : readResult'[i].entry = own[i]
    BY <2>3, <2>4 DEF Copied
  <2>6. n = ownPos /\ \A i \in 1 .. ownPos : readResult[i].entry = own[i]
    BY <2>5 DEF Copied
  <2> HIDE DEF n
  <2> QED
    BY <1>0, <2>2, <2>6
<1>8. CASE NoMemory
  BY <1>8 DEF NoMemory, Copied, dirs, handle, buffer, seen
<1>9. CASE OwnEnds
  BY <1>9 DEF OwnEnds, Copied, dirs, handle, buffer
<1>10. CASE ReadParent
  BY <1>10 DEF ReadParent, Copied, dirs, buffer
<1>11. CASE ParentEnds
  BY <1>11 DEF ParentEnds, Copied, dirs, handle, buffer
<1>12. CASE UNCHANGED vars
  BY <1>12 DEF vars, Copied, dirs, handle, buffer, seen
<1> QED
  BY <1>1, <1>2, <1>3, <1>4, <1>5, <1>6, <1>7, <1>8, <1>9, <1>10, <1>11, <1>12 DEF Next

(* What the search in readResult finds, once the directory was read to its end.  *)
LEMMA SearchFacts ==
  ASSUME TypeMain, Copied, ~failed, phase # "closed", call = "parent", NEW x \in Name
  PROVE  /\ IsDeleted(x) <=> x \in Hidden
         /\ IsListed(x) => \E i \in 1 .. ownPos : ~IsMark(own[i]) /\ own[i].name = x
<1>1. /\ readResultNumberOfEntries = ownPos /\ ownPos = Len(own)
      /\ \A i \in 1 .. ownPos : readResult[i].entry = own[i] /\ own[i] \in Entry
      /\ DOMAIN own = 1 .. ownPos
  BY LenProperties, ElementOfSeq DEF Copied, TypeMain
<1>2. /\ \A i \in 1 .. ownPos : readResult[i] \in Kept
      /\ \A r \in Kept : \E i \in 1 .. ownPos : r.entry = own[i]
  BY <1>1 DEF Kept
<1>3. IsDeleted(x) <=> \E i \in 1 .. ownPos : own[i] = [name |-> x, mark |-> "exact"]
  BY <1>1, <1>2, Zenon DEF IsDeleted
<1>4. x \in Hidden <=> \E i \in 1 .. ownPos : own[i] = [name |-> x, mark |-> "exact"]
  <2>1. x \in Hidden <=> \E i \in 1 .. ownPos : own[i].mark = "exact" /\ own[i].name = x
    BY <1>1, Zenon DEF Hidden, OwnEntries
  <2>2. \A i \in 1 .. ownPos :
          own[i].mark = "exact" /\ own[i].name = x <=> own[i] = [name |-> x, mark |-> "exact"]
    BY <1>1 DEF Entry
  <2> QED
    BY <2>1, <2>2, Zenon
<1>5. IsListed(x) => \E i \in 1 .. ownPos : ~IsMark(own[i]) /\ own[i].name = x
  BY <1>2 DEF IsListed, IsMark
<1> QED
  BY <1>3, <1>4, <1>5

(* The application's calls and the steps of a read keep to the open directory.  *)
LEMMA StepReadsOpen == ReadsOpen /\ [Next]_vars => ReadsOpen'
<1> SUFFICES ASSUME ReadsOpen, [Next]_vars PROVE ReadsOpen'
  OBVIOUS
<1>1. CASE OpenDir \/ ReadDir \/ RewindDir \/ CloseDir \/ CloseDirFails
  <2>1. phase' # "new" /\ (call' # "none" => phase' = "open")
    BY <1>1 DEF OpenDir, ReadDir, RewindDir, CloseDir, CloseDirFails, Idle, ReadsOpen, handle
  <2> QED
    BY <2>1 DEF ReadsOpen
<1>2. CASE OwnReadFails \/ ReadOwn \/ NoMemory \/ OwnEnds \/ ReadParent \/ ParentEnds
  <2>1. call # "none" /\ phase' = phase
    BY <1>2 DEF OwnReadFails, ReadOwn, NoMemory, OwnEnds, ReadParent, ParentEnds, handle
  <2> QED
    BY <2>1 DEF ReadsOpen
<1>3. CASE UNCHANGED vars
  BY <1>3 DEF vars, handle, seen, ReadsOpen
<1> QED
  BY <1>1, <1>2, <1>3 DEF Next


(* Nothing changes the two directories.                                       *)
LEMMA StepSameDirs == [Next]_vars => UNCHANGED dirs
BY DEF Next, OpenDir, ReadDir, RewindDir, CloseDir, CloseDirFails, OwnReadFails, ReadOwn,
       NoMemory, OwnEnds, ReadParent, ParentEnds, vars

(* The steps that read an entry, and rewinding, are those that change the list.  *)
LEMMA OthersList ==
  [Next]_vars /\ ~ReadOwn /\ ~ReadParent /\ ~RewindDir => listed' = listed
BY DEF Next, OpenDir, ReadDir, CloseDir, CloseDirFails, OwnReadFails,
       NoMemory, OwnEnds, ParentEnds, vars, seen

(* A failure stays recorded.                                                  *)
LEMMA FailureStays == TypeOK /\ ReadsOpen /\ [Next]_vars /\ failed => failed'
BY DEF Next, OpenDir, ReadDir, RewindDir, CloseDir, CloseDirFails, OwnReadFails, ReadOwn,
       NoMemory, OwnEnds, ReadParent, ParentEnds, vars, seen, TypeOK, ReadsOpen

(* What HidesDeleted lets into the list.                                       *)
Allowed(l) == ~IsMark(l) /\ (l.from = "parent" => l.name \notin Hidden)

(* A name of the parent is given out only after the search has missed its mark.  *)
LEMMA StepHides ==
  TypeOK /\ ReadsOpen /\ Copied /\ HidesDeleted /\ [Next]_vars => HidesDeleted'
<1> SUFFICES ASSUME TypeMain, ReadsOpen, Copied, HidesDeleted, [Next]_vars, ~failed', ~failed
             PROVE  \A l \in Listed' : Allowed(l)
  BY TypeParts, FailureStays, StepSameDirs, SameDirs DEF HidesDeleted, IsMark, Allowed
<1>0. \A l \in Listed : Allowed(l)
  BY Zenon DEF HidesDeleted, Allowed, IsMark
<1>1. CASE ReadOwn
  <2>1. CASE listed' = listed
    BY <1>0, <2>1, SameListed
  <2> DEFINE e == [name |-> own[ownPos + 1].name, mark |-> own[ownPos + 1].mark, from |-> "own"]
  <2>2. CASE listed' = Append(listed, e) /\ ~IsMark(own[ownPos + 1])
    <3>1. own[ownPos + 1] \in Entry
      BY <1>1, LenProperties, ElementOfSeq DEF ReadOwn, TypeMain
    <3>2. e \in Item /\ e.from # "parent" /\ e.mark = own[ownPos + 1].mark
      BY <3>1 DEF Entry, Item
    <3>3. Listed' = Listed \cup {e}
      BY <2>2, <3>2, ListedAppend
    <3> HIDE DEF e
    <3> QED
      BY <1>0, <2>2, <3>2, <3>3 DEF Allowed, IsMark
  <2> QED
    BY <1>1, <2>1, <2>2 DEF ReadOwn
<1>2. CASE ReadParent
  <2>1. CASE listed' = listed
    BY <1>0, <2>1, SameListed
  <2> DEFINE x == real[realPos + 1]
             e == [name |-> x, mark |-> "none", from |-> "parent"]
  <2>2. CASE listed' = Append(listed, e) /\ ~IsDeleted(x)
    <3>1. x \in Name
      BY <1>2, LenProperties, ElementOfSeq DEF ReadParent, TypeMain
    <3>2. e \in Item /\ e.name = x /\ e.mark = "none"
      BY <3>1 DEF Item, Spelling
    <3>3. call = "parent" /\ phase # "closed"
      BY <1>2 DEF ReadParent, ReadsOpen
    <3> HIDE DEF x
    <3>4. x \notin Hidden
      BY <2>2, <3>1, <3>3, SearchFacts
    <3>5. Listed' = Listed \cup {e}
      BY <2>2, <3>2, ListedAppend
    <3> HIDE DEF e
    <3> QED
      BY <1>0, <3>2, <3>4, <3>5 DEF Allowed, IsMark
  <2> QED
    BY <1>2, <2>1, <2>2 DEF ReadParent
<1>3. CASE RewindDir
  <2>1. Listed' = {}
    BY <1>3 DEF RewindDir, Listed
  <2> QED
    BY <2>1
<1>4. CASE ~ReadOwn /\ ~ReadParent /\ ~RewindDir
  BY <1>0, <1>4, OthersList, SameListed
<1> QED
  BY <1>1, <1>2, <1>3, <1>4

(* The names of the first entries of the layer's directory, and of the parent's.  *)
OwnNames(n) == {own[i].name : i \in {k \in 1 .. n : ~IsMark(own[k])}}
RealNames(n) == {real[i] : i \in 1 .. n}

(* One more entry of the layer adds its name unless it is a mark.              *)
LEMMA OwnNamesStep ==
  ASSUME NEW n \in Nat
  PROVE  OwnNames(n + 1) = IF IsMark(own[n + 1]) THEN OwnNames(n)
                           ELSE OwnNames(n) \cup {own[n + 1].name}
<1>1. 1 .. n + 1 = (1 .. n) \cup {n + 1}
  OBVIOUS
<1> QED
  BY <1>1 DEF OwnNames

(* One more entry of the parent adds its name.                                 *)
LEMMA RealNamesStep ==
  ASSUME NEW n \in Nat
  PROVE  RealNames(n + 1) = RealNames(n) \cup {real[n + 1]}
<1>1. 1 .. n + 1 = (1 .. n) \cup {n + 1}
  OBVIOUS
<1> QED
  BY <1>1 DEF RealNames

(* Each step lists what it reads, but for what the search finds.               *)
LEMMA StepProgress ==
  TypeOK /\ ReadsOpen /\ Copied /\ Progress /\ [Next]_vars => Progress'
<1> SUFFICES ASSUME TypeOK, ReadsOpen, Copied, Progress, [Next]_vars, ~failed', ~rewound'
             PROVE  Progress'
  BY DEF Progress
<1> SUFFICES /\ ListedNames' = OwnNames(ownPos') \cup (RealNames(realPos') \ Hidden)
             /\ phase' = "open" => realDirHandle'
             /\ ended' => ownPos' = Len(own) /\ realPos' = Len(real)
  <2>1. own' = own /\ real' = real /\ Hidden' = Hidden
    <3>1. UNCHANGED dirs
      BY StepSameDirs
    <3> QED
      BY <3>1, SameDirs DEF dirs
  <2>2. /\ {own'[i].name : i \in {k \in 1 .. ownPos' : ~IsMark(own'[k])}} = OwnNames(ownPos')
        /\ {real'[i] : i \in 1 .. realPos'} = RealNames(realPos')
    BY <2>1 DEF OwnNames, RealNames
  <2>3. Len(own') = Len(own) /\ Len(real') = Len(real)
    BY <2>1
  <2> QED
    BY <2>1, <2>2, <2>3, Zenon DEF Progress
<1> ~failed /\ TypeMain /\ TypeBool
  BY TypeParts, FailureStays
<1>1. ~rewound
  BY DEF Next, OpenDir, ReadDir, RewindDir, CloseDir, CloseDirFails, OwnReadFails, ReadOwn,
         NoMemory, OwnEnds, ReadParent, ParentEnds, vars, seen
<1>2. /\ ListedNames = OwnNames(ownPos) \cup (RealNames(realPos) \ Hidden)
      /\ phase = "open" => realDirHandle
      /\ ended => ownPos = Len(own) /\ realPos = Len(real)
  BY <1>1 DEF Progress, OwnNames, RealNames
<1>3. Len(own) \in Nat /\ Len(real) \in Nat /\ ownPos \in Nat /\ realPos \in Nat
  BY LenProperties DEF TypeMain
<1>4. CASE ReadOwn
  <2> DEFINE e == own[ownPos + 1]
             item == [name |-> e.name, mark |-> e.mark, from |-> "own"]
  <2>1. e \in Entry
    BY <1>3, <1>4, ElementOfSeq DEF ReadOwn, TypeMain
  <2>2. item \in Item /\ item.name = e.name
    BY <2>1 DEF Entry, Item
  <2>3. OwnNames(ownPos') = IF IsMark(e) THEN OwnNames(ownPos)
                            ELSE OwnNames(ownPos) \cup {e.name}
    BY <1>3, <1>4, OwnNamesStep DEF ReadOwn
  <2>4. CASE IsMark(e)
    <3>1. listed' = listed
      BY <1>4, <2>4 DEF ReadOwn
    <3> QED
      BY <1>2, <1>3, <1>4, <2>3, <2>4, <3>1, SameListed DEF ReadOwn
  <2>5. CASE ~IsMark(e)
    <3>1. listed' = Append(listed, item)
      BY <1>4, <2>5 DEF ReadOwn
    <3> HIDE DEF item
    <3>2. ListedNames' = ListedNames \cup {e.name}
      BY <2>2, <3>1, ListedAppend
    <3> QED
      BY <1>2, <1>3, <1>4, <2>3, <2>5, <3>2 DEF ReadOwn
  <2> QED
    BY <2>4, <2>5
<1>5. CASE ReadParent
  <2> DEFINE x == real[realPos + 1]
             item == [name |-> x, mark |-> "none", from |-> "parent"]
  <2>1. x \in Name
    BY <1>3, <1>5, ElementOfSeq DEF ReadParent, TypeMain
  <2>2. item \in Item /\ item.name = x
    BY <2>1 DEF Item, Spelling
  <2>3. RealNames(realPos') = RealNames(realPos) \cup {x}
    BY <1>3, <1>5, RealNamesStep DEF ReadParent
  <2>4. call = "parent" /\ phase = "open"
    BY <1>5 DEF ReadParent, ReadsOpen
  <2>5. /\ phase' = phase /\ realDirHandle' = realDirHandle /\ ownPos' = ownPos
        /\ ended' = ended /\ realPos < Len(real)
    BY <1>5 DEF ReadParent
  <2>6. ListedNames' = OwnNames(ownPos) \cup ((RealNames(realPos) \cup {x}) \ Hidden)
    <3>1. CASE IsDeleted(x) \/ IsListed(x)
      <4>1. listed' = listed
        BY <1>5, <3>1 DEF ReadParent
      <4> HIDE DEF x
      <4>2. x \in Hidden \/ x \in OwnNames(ownPos)
        BY <2>1, <2>4, <3>1, SearchFacts DEF OwnNames
      <4> QED
        BY <1>2, <4>1, <4>2, SameListed
    <3>2. CASE ~(IsDeleted(x) \/ IsListed(x))
      <4>1. listed' = Append(listed, item)
        BY <1>5, <3>2 DEF ReadParent
      <4> HIDE DEF item, x
      <4>2. ListedNames' = ListedNames \cup {x}
        BY <2>2, <4>1, ListedAppend
      <4>3. x \notin Hidden
        BY <2>1, <2>4, <3>2, SearchFacts
      <4> QED
        BY <1>2, <4>2, <4>3
    <3> QED
      BY <3>1, <3>2
  <2> HIDE DEF x
  <2> QED
    BY <1>2, <1>3, <2>3, <2>5, <2>6
<1>6. CASE RewindDir
  BY <1>6 DEF RewindDir
<1>7. CASE ~ReadOwn /\ ~ReadParent /\ ~RewindDir
  <2>1. ListedNames' = ListedNames
    BY <1>7, OthersList, SameListed
  <2>2. ownPos' = ownPos /\ realPos' = realPos
    BY <1>7 DEF Next, OpenDir, ReadDir, CloseDir, CloseDirFails, OwnReadFails,
                NoMemory, OwnEnds, ParentEnds, vars, handle
  <2>3. phase' = "open" => realDirHandle'
    <3>1. CASE OpenDir
      <4>1. PICK ok \in BOOLEAN : realDirHandle' = ok /\ failed' = ~ok
        BY <3>1, Zenon DEF OpenDir
      <4>2. CASE ok
        BY <4>1, <4>2, Zenon
      <4>3. CASE ~ok
        BY <4>1, <4>3, Zenon
      <4> QED
        BY <4>2, <4>3
    <3>2. CASE ~OpenDir
      BY <1>2, <1>7, <3>2 DEF Next, ReadDir, CloseDir, CloseDirFails, OwnReadFails, Idle,
                              NoMemory, OwnEnds, ParentEnds, vars, handle
    <3> QED
      BY <3>1, <3>2
  <2>4. ended' => ownPos = Len(own) /\ realPos = Len(real)
    <3>1. CASE ended' = ended
      BY <1>2, <3>1
    <3>2. CASE OwnEnds
      <4>1. realDirHandle
        BY <1>2, <3>2 DEF OwnEnds, ReadsOpen
      <4> QED
        BY <3>2, <4>1 DEF OwnEnds, AfterOwn
    <3>3. CASE ParentEnds
      <4>1. ownPos = Len(own)
        BY <3>3 DEF ParentEnds, ReadsOpen, Copied
      <4>2. realPos = Len(real)
        <5>1. ~(realPos < Len(real))
          BY <3>3, Zenon DEF ParentEnds
        <5> QED
          BY <1>3, <5>1 DEF TypeMain
      <4> QED
        BY <4>1, <4>2
    <3> QED
      BY <1>7, <3>1, <3>2, <3>3 DEF Next, OpenDir, ReadDir, CloseDir, CloseDirFails,
                                    OwnReadFails, NoMemory, vars, seen
  <2> QED
    BY <1>2, <2>1, <2>2, <2>3, <2>4
<1> QED
  BY <1>4, <1>5, <1>6, <1>7

(* The inductive invariant: IInv holds of a fresh directory and every step of    *)
(* the application, of the storage and of the allocator keeps it.               *)
THEOREM Invariance == Spec => []IInv
<1>1. Init => IInv
  BY InitIInv
<1>2. IInv /\ [Next]_vars => IInv'
  <2> SUFFICES ASSUME IInv, [Next]_vars PROVE IInv'
    OBVIOUS
  <2>1. TypeOK /\ ReadsOpen /\ Copied /\ Progress /\ HidesDeleted
    BY DEF IInv
  <2>2. TypeOK' /\ ReadsOpen' /\ Copied' /\ Progress' /\ HidesDeleted'
    BY <2>1, StepType, StepReadsOpen, StepCopied, StepProgress, StepHides
  <2> QED
    BY <2>2 DEF IInv
<1> QED
  BY <1>1, <1>2, PTL DEF Spec

(* The array is never overrun by an entry and no position passes its end.      *)
THEOREM TypeCorrect == Spec => []TypeOK
<1>1. IInv => TypeOK
  BY DEF IInv
<1> QED
  BY <1>1, Invariance, PTL

(* A file that the layer marks as deleted is never listed from the parent.      *)
THEOREM DeletedStaysHidden == Spec => []HidesDeleted
<1>1. IInv => HidesDeleted
  BY DEF IInv
<1> QED
  BY <1>1, Invariance, PTL

(* The first pass over a directory lists what the two directories stand for.    *)
THEOREM FirstPassComplete == Spec => []ListsAll
<1>1. IInv => ListsAll
  <2> SUFFICES ASSUME IInv, ended, ~failed, ~rewound PROVE Complete
    BY DEF ListsAll
  <2>1. /\ ListedNames = {own[i].name : i \in {k \in 1 .. Len(own) : ~IsMark(own[k])}}
                           \cup ({real[i] : i \in 1 .. Len(real)} \ Hidden)
    BY DEF IInv, Progress
  <2>2. DOMAIN own = 1 .. Len(own) /\ DOMAIN real = 1 .. Len(real)
    BY LenProperties DEF IInv, TypeOK
  <2>3. Visible = {own[i].name : i \in {k \in 1 .. Len(own) : ~IsMark(own[k])}}
    BY <2>2 DEF Visible, OwnEntries, IsMark
  <2> QED
    BY <2>1, <2>2, <2>3 DEF Complete, ListedNames
<1> QED
  BY <1>1, Invariance, PTL

(* A handle that is closed without an error, and was not rewound, leaves nothing *)
(* behind: FSCloseDirWrapper closes the parent's directory and frees the array.  *)
THEOREM NothingLeaks == Spec => []ReleasedOnClose
<1>1. Init => ReleasedOnClose
  BY DEF Init, ReleasedOnClose
<1>2. IInv /\ ReleasedOnClose /\ [Next]_vars => ReleasedOnClose'
  <2> SUFFICES ASSUME IInv, ReleasedOnClose, [Next]_vars, phase' = "closed", ~failed', ~rewound'
               PROVE  ~realOpen' /\ ~allocated'
    BY DEF ReleasedOnClose
  <2>1. ~failed
    BY FailureStays DEF IInv
  <2>2. CASE CloseDir
    <3>1. realDirHandle
      BY <2>1, <2>2 DEF CloseDir, Idle, IInv, Progress, seen
    <3>2. realOpen' = (realOpen /\ ~realDirHandle) /\ allocated' = FALSE
      BY <2>2, Zenon DEF CloseDir, CloseParent
    <3> QED
      BY <3>1, <3>2, Zenon
  <2>3. CASE ~CloseDir
    <3>1. phase = "closed" /\ call = "none"
      BY <2>3 DEF Next, OpenDir, ReadDir, RewindDir, CloseDirFails, OwnReadFails, ReadOwn,
                  NoMemory, OwnEnds, ReadParent, ParentEnds, Idle, vars, handle, IInv, ReadsOpen
    <3>2. UNCHANGED vars
      BY <2>3, <3>1 DEF Next, OpenDir, ReadDir, RewindDir, CloseDirFails, OwnReadFails, ReadOwn,
                  NoMemory, OwnEnds, ReadParent, ParentEnds, Idle
    <3> QED
      BY <2>1, <3>1, <3>2 DEF vars, seen, buffer, ReleasedOnClose
  <2> QED
    BY <2>2, <2>3
<1> QED
  BY <1>1, <1>2, Invariance, PTL DEF Spec

-----------------------------------------------------------------------------
(* Why a name is listed twice.                                                *)

Flagged(x) == \E r \in Kept : r.isMarkedAsDeleted /\ r.entry = [name |-> x, mark |-> "none"]

(* Each item of the list is an entry that was read, and the parent's come after   *)
(* the layer's; the second of two with one name is the parent's.               *)
Sources ==
  ~failed /\ phase = "open" =>
    /\ \A i \in 1 .. Len(listed) :
         /\ listed[i].from = "own" =>
              \E k \in 1 .. ownPos : own[k] = [name |-> listed[i].name, mark |-> "none"]
         /\ listed[i].from = "parent" =>
              ownPos = Len(own) /\ \E k \in 1 .. realPos : real[k] = listed[i].name
    /\ \A i, j \in 1 .. Len(listed) :
         i < j /\ listed[i].name = listed[j].name =>
           listed[j].from = "parent" /\ Flagged(listed[j].name)

(* The item that a read adds to the list.                                      *)
LEMMA OneMore ==
  ASSUME TypeMain, NEW e \in Item, listed' = Append(listed, e)
  PROVE  /\ Len(listed) \in Nat /\ Len(listed') = Len(listed) + 1
         /\ \A i \in 1 .. Len(listed) : listed'[i] = listed[i] /\ listed[i] \in Item
         /\ listed'[Len(listed) + 1] = e
BY AppendProperties, LenProperties, ElementOfSeq DEF TypeMain

(* No directory has a name twice.                                              *)
OneEach == Distinct(own) /\ Distinct(real)

(* A read of the layer's directory lists a name that is not in the list yet.     *)
LEMMA OwnKeepsSources ==
  ASSUME IInv, OneEach, Sources, ReadOwn, ~failed, phase = "open"
  PROVE  Sources'
<1> DEFINE e == own[ownPos + 1]
           item == [name |-> e.name, mark |-> e.mark, from |-> "own"]
<1>1. /\ TypeMain /\ Len(own) \in Nat /\ ownPos \in Nat /\ ownPos < Len(own) /\ Len(listed) \in Nat
      /\ DOMAIN own = 1 .. Len(own)
  BY TypeParts, LenProperties DEF IInv, ReadOwn, TypeMain
<1>2. /\ own' = own /\ real' = real /\ realPos' = realPos /\ ownPos' = ownPos + 1
      /\ IF IsMark(e) THEN listed' = listed ELSE listed' = Append(listed, item)
  BY DEF ReadOwn, dirs
<1>3. e \in Entry /\ item \in Item /\ item.name = e.name /\ item.from = "own"
  <2>1. ownPos + 1 \in 1 .. Len(own)
    BY <1>1
  <2>2. e \in Entry
    BY <1>1, <2>1, ElementOfSeq DEF TypeMain
  <2> HIDE DEF e
  <2> QED
    BY <2>2 DEF Entry, Item
<1>4. \A i \in 1 .. Len(listed) :
        /\ listed[i] \in Item /\ listed[i].from = "own"
        /\ \E k \in 1 .. ownPos : own[k] = [name |-> listed[i].name, mark |-> "none"]
  <2>1. \A i \in 1 .. Len(listed) : listed[i] \in Item
    BY <1>1, ElementOfSeq DEF TypeMain
  <2>2. \A i \in 1 .. Len(listed) : listed[i].from \in {"own", "parent"}
    BY <2>1 DEF Item
  <2>3. ASSUME NEW i \in 1 .. Len(listed), listed[i].from = "parent" PROVE FALSE
    <3>1. ownPos = Len(own)
      BY <2>3, Zenon DEF Sources
    <3> QED
      BY <1>1, <3>1
  <2> QED
    BY <2>1, <2>2, <2>3 DEF Sources
<1>5. \A i, j \in 1 .. Len(listed) : i < j => listed[i].name # listed[j].name
  BY <1>4 DEF Sources
<1>6. CASE IsMark(e)
  <2>1. listed' = listed
    BY <1>2, <1>6
  <2>2. \A k \in 1 .. ownPos : k \in 1 .. ownPos'
    BY <1>1, <1>2
  <2> HIDE DEF e, item
  <2> QED
    BY <1>2, <1>4, <1>5, <2>1, <2>2 DEF Sources
<1>7. CASE ~IsMark(e)
  <2>1. /\ Len(listed') = Len(listed) + 1
        /\ \A i \in 1 .. Len(listed) : listed'[i] = listed[i]
        /\ listed'[Len(listed) + 1] = item
    BY <1>1, <1>2, <1>3, <1>7, OneMore
  <2>2. e = [name |-> e.name, mark |-> "none"]
    BY <1>3, <1>7 DEF Entry, IsMark
  <2>3. \A i \in 1 .. Len(listed) : listed[i].name # e.name
    <3> SUFFICES ASSUME NEW i \in 1 .. Len(listed), listed[i].name = e.name PROVE FALSE
      OBVIOUS
    <3>1. PICK k \in 1 .. ownPos : own[k] = e
      BY <1>4, <2>2
    <3>2. k \in DOMAIN own /\ ownPos + 1 \in DOMAIN own /\ k # ownPos + 1
      BY <1>1
    <3> QED
      BY <3>1, <3>2 DEF OneEach, Distinct
  <2>4. \A i \in 1 .. Len(listed') :
          /\ listed'[i].from = "own"
          /\ \E k \in 1 .. ownPos' : own[k] = [name |-> listed'[i].name, mark |-> "none"]
    <3> SUFFICES ASSUME NEW i \in 1 .. Len(listed')
                 PROVE  /\ listed'[i].from = "own"
                        /\ \E k \in 1 .. ownPos' : own[k] = [name |-> listed'[i].name, mark |-> "none"]
      OBVIOUS
    <3>1. CASE i \in 1 .. Len(listed)
      <4>1. PICK k \in 1 .. ownPos : own[k] = [name |-> listed[i].name, mark |-> "none"]
        BY <1>4, <3>1
      <4>2. k \in 1 .. ownPos'
        BY <1>1, <1>2
      <4> QED
        BY <1>4, <2>1, <3>1, <4>1, <4>2
    <3>2. CASE i = Len(listed) + 1
      <4>1. ownPos + 1 \in 1 .. ownPos' /\ listed'[i] = item
        BY <1>1, <1>2, <2>1, <3>2
      <4> QED
        BY <1>3, <2>2, <4>1
    <3>3. i \in 1 .. Len(listed) \/ i = Len(listed) + 1
      <4>1. PICK n \in Nat : n = Len(listed) /\ Len(listed') = n + 1
        BY <1>1, <2>1
      <4> QED
        BY <4>1
    <3> QED
      BY <3>1, <3>2, <3>3
  <2>5. \A i, j \in 1 .. Len(listed') : i < j => listed'[i].name # listed'[j].name
    <3> HIDE DEF e, item
    <3> SUFFICES ASSUME NEW i \in 1 .. Len(listed'), NEW j \in 1 .. Len(listed'), i < j
                 PROVE  listed'[i].name # listed'[j].name
      OBVIOUS
    <3>1. i \in 1 .. Len(listed) /\ (j \in 1 .. Len(listed) \/ j = Len(listed) + 1)
      BY <1>1, <2>1
    <3> QED
      BY <1>3, <1>5, <2>1, <2>3, <3>1
  <2> HIDE DEF e, item
  <2> QED
    BY <1>2, <2>4, <2>5 DEF Sources
<1> QED
  BY <1>6, <1>7

(* A read of the parent's directory lists a name again only past a flagged entry. *)
LEMMA ParentKeepsSources ==
  ASSUME IInv, OneEach, Sources, ReadParent, ~failed, phase = "open"
  PROVE  Sources'
<1> DEFINE x == real[realPos + 1]
           item == [name |-> x, mark |-> "none", from |-> "parent"]
<1>1. /\ TypeMain /\ Len(own) \in Nat /\ ownPos \in Nat /\ Len(listed) \in Nat
      /\ Len(real) \in Nat /\ realPos \in Nat /\ realPos < Len(real)
      /\ DOMAIN own = 1 .. Len(own) /\ DOMAIN real = 1 .. Len(real)
  BY TypeParts, LenProperties DEF IInv, ReadParent, TypeMain
<1>2. /\ own' = own /\ real' = real /\ realPos' = realPos + 1 /\ ownPos' = ownPos /\ Kept' = Kept
      /\ listed' = listed \/ (listed' = Append(listed, item) /\ ~IsListed(x))
  BY DEF ReadParent, dirs, buffer, Kept
<1>3. x \in Name /\ item \in Item /\ item.name = x /\ item.from = "parent"
  <2>1. x \in Name
    BY <1>1, ElementOfSeq DEF TypeMain
  <2> QED
    BY <2>1 DEF Item, Spelling
<1>4. /\ ownPos = Len(own) /\ readResultNumberOfEntries = ownPos
      /\ \A k \in 1 .. ownPos : readResult[k] \in Kept /\ readResult[k].entry = own[k]
  BY DEF ReadParent, IInv, Copied, Kept
<1>5. /\ \A i \in 1 .. Len(listed) :
           /\ listed[i] \in Item
           /\ listed[i].from = "own" =>
                \E k \in 1 .. ownPos : own[k] = [name |-> listed[i].name, mark |-> "none"]
           /\ listed[i].from = "parent" => \E k \in 1 .. realPos : real[k] = listed[i].name
      /\ \A i, j \in 1 .. Len(listed) :
           i < j /\ listed[i].name = listed[j].name =>
             listed[j].from = "parent" /\ Flagged(listed[j].name)
  <2>1. \A i \in 1 .. Len(listed) : listed[i] \in Item
    BY <1>1, ElementOfSeq DEF TypeMain
  <2> QED
    BY <2>1 DEF Sources
<1>6. \A k \in 1 .. realPos : k \in 1 .. realPos'
  BY <1>1, <1>2
<1>7. \A y : Flagged(y)' <=> Flagged(y)
  BY <1>2 DEF Flagged
<1>8. CASE listed' = listed
  <2> HIDE DEF x, item
  <2> QED
    BY <1>2, <1>4, <1>5, <1>6, <1>7, <1>8 DEF Sources, Flagged
<1>9. CASE listed' = Append(listed, item) /\ ~IsListed(x)
  <2>1. /\ Len(listed') = Len(listed) + 1
        /\ \A i \in 1 .. Len(listed) : listed'[i] = listed[i]
        /\ listed'[Len(listed) + 1] = item
    BY <1>1, <1>3, <1>9, OneMore
  <2>2. realPos + 1 \in 1 .. realPos' /\ realPos + 1 \in DOMAIN real
    BY <1>1, <1>2
  <2>3. ASSUME NEW i \in 1 .. Len(listed), listed[i].name = x PROVE Flagged(x)
    <3>1. CASE listed[i].from = "parent"
      <4>1. PICK k \in 1 .. realPos : real[k] = x
        BY <1>5, <2>3, <3>1
      <4>2. k \in DOMAIN real /\ k # realPos + 1
        BY <1>1
      <4> QED
        BY <2>2, <4>1, <4>2 DEF OneEach, Distinct
    <3>2. CASE listed[i].from = "own"
      <4>1. PICK k \in 1 .. ownPos : own[k] = [name |-> x, mark |-> "none"]
        BY <1>5, <2>3, <3>2
      <4> HIDE DEF x
      <4>2. /\ readResult[k] \in Kept /\ readResult[k].entry = [name |-> x, mark |-> "none"]
        BY <1>4, <4>1
      <4>3. readResult[k].isMarkedAsDeleted
        BY <1>9, <4>2, Zenon DEF IsListed
      <4> QED
        BY <4>2, <4>3, Zenon DEF Flagged
    <3> QED
      BY <1>5, <3>1, <3>2 DEF Item
  <2> HIDE DEF x, item
  <2>4. \A i \in 1 .. Len(listed') :
          /\ listed'[i].from = "own" =>
               \E k \in 1 .. ownPos : own[k] = [name |-> listed'[i].name, mark |-> "none"]
          /\ listed'[i].from = "parent" => \E k \in 1 .. realPos' : real[k] = listed'[i].name
    <3> SUFFICES ASSUME NEW i \in 1 .. Len(listed')
                 PROVE  /\ listed'[i].from = "own" =>
                             \E k \in 1 .. ownPos : own[k] = [name |-> listed'[i].name, mark |-> "none"]
                        /\ listed'[i].from = "parent" => \E k \in 1 .. realPos' : real[k] = listed'[i].name
      OBVIOUS
    <3>1. CASE i \in 1 .. Len(listed)
      BY <1>5, <1>6, <2>1, <3>1
    <3>2. CASE i = Len(listed) + 1
      <4>1. listed'[i].from = "parent" /\ listed'[i].name = real[realPos + 1]
        BY <1>3, <2>1, <3>2 DEF x
      <4> QED
        BY <2>2, <4>1
    <3>3. i \in 1 .. Len(listed) \/ i = Len(listed) + 1
      <4>1. PICK n \in Nat : n = Len(listed) /\ Len(listed') = n + 1
        BY <1>1, <2>1
      <4> QED
        BY <4>1
    <3> QED
      BY <3>1, <3>2, <3>3
  <2>5. \A i, j \in 1 .. Len(listed') :
          i < j /\ listed'[i].name = listed'[j].name =>
            listed'[j].from = "parent" /\ Flagged(listed'[j].name)
    <3> SUFFICES ASSUME NEW i \in 1 .. Len(listed'), NEW j \in 1 .. Len(listed'), i < j,
                        listed'[i].name = listed'[j].name
                 PROVE  listed'[j].from = "parent" /\ Flagged(listed'[j].name)
      OBVIOUS
    <3>1. i \in 1 .. Len(listed) /\ (j \in 1 .. Len(listed) \/ j = Len(listed) + 1)
      BY <1>1, <2>1
    <3>2. CASE j \in 1 .. Len(listed)
      BY <1>5, <2>1, <3>1, <3>2
    <3>3. CASE j = Len(listed) + 1
      <4>1. listed'[j] = item /\ listed[i].name = x
        BY <1>3, <2>1, <3>1, <3>3
      <4> QED
        BY <1>3, <2>3, <3>1, <4>1
    <3> QED
      BY <3>1, <3>2, <3>3
  <2> QED
    BY <1>2, <1>4, <1>7, <2>4, <2>5 DEF Sources, Flagged
<1> QED
  BY <1>2, <1>8, <1>9

(* A fresh list is in order, and the steps that read nothing keep it so.         *)
LEMMA StepSources ==
  IInv /\ OneEach /\ Sources /\ [Next]_vars => Sources'
<1> SUFFICES ASSUME IInv, OneEach, Sources, [Next]_vars, ~failed', phase' = "open" PROVE Sources'
  BY DEF Sources
<1>1. ~failed
  BY FailureStays DEF IInv
<1>2. CASE ReadOwn
  BY <1>1, <1>2, OwnKeepsSources DEF ReadOwn
<1>3. CASE ReadParent
  BY <1>1, <1>3, ParentKeepsSources DEF ReadParent
<1>4. CASE RewindDir \/ OpenDir
  <2>1. listed' = <<>>
    BY <1>4 DEF RewindDir, OpenDir, IInv, ReadsOpen
  <2> QED
    BY <2>1 DEF Sources
<1>5. CASE ~(ReadOwn \/ ReadParent \/ RewindDir \/ OpenDir)
  <2>1. phase = "open" /\ UNCHANGED <<own, real, ownPos, realPos, listed, Kept>>
    BY <1>5 DEF Next, ReadDir, CloseDir, CloseDirFails, OwnReadFails, NoMemory, OwnEnds, ParentEnds,
                Idle, vars, dirs, handle, buffer, seen, Kept
  <2>2. \A x : Flagged(x)' <=> Flagged(x)
    BY <2>1 DEF Flagged
  <2> QED
    BY <1>1, <2>1, <2>2 DEF Sources, Flagged
<1> QED
  BY <1>2, <1>3, <1>4, <1>5

(* A name is listed twice only past an entry that carries another's flag: the    *)
(* misplaced flag of line 88 and fresh memory are the only causes.              *)
THEOREM TwiceIsTheFlag == Spec => []TwiceOnlyByFlag
<1>1. Init => OneEach /\ Sources
  <2>1. ASSUME NEW S, NEW n, NEW s \in Listings(S, n) PROVE Distinct(s)
    BY <2>1 DEF Listings
  <2> QED
    BY <2>1 DEF Init, OneEach, Sources
<1>2. IInv /\ OneEach /\ Sources /\ [Next]_vars => OneEach' /\ Sources'
  BY StepSources, StepSameDirs DEF OneEach, dirs, Distinct
<1>3. IInv /\ Sources => TwiceOnlyByFlag
  <2> SUFFICES ASSUME IInv, Sources, phase = "open", ~failed,
                      NEW i \in DOMAIN listed, NEW j \in DOMAIN listed, i < j,
                      listed[i].name = listed[j].name
               PROVE  Flagged(listed[i].name)
    BY DEF TwiceOnlyByFlag, Flagged
  <2>1. DOMAIN listed = 1 .. Len(listed)
    BY LenProperties DEF IInv, TypeOK
  <2> QED
    BY <2>1 DEF Sources
<1> QED
  BY <1>1, <1>2, <1>3, Invariance, PTL DEF Spec
=============================================================================
