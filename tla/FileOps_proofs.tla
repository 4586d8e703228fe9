---------------------------- MODULE FileOps_proofs ----------------------------
(***************************************************************************)
(* Proofs about FileOps for any files, names and modes, any sizes and       *)
(* counts, files of any length and any number of descriptors.               *)
(***************************************************************************)
EXTENDS FileOps, Integers, SequenceTheorems, FiniteSetTheorems, TLAPS

-----------------------------------------------------------------------------
(* Storage: what its operators do to files of any length.                        *)

Larger(m, n) == IF m > n THEN m ELSE n

(* A sequence that is given by its length and its elements.                    *)
LEMMA SeqOfNat ==
  ASSUME NEW n \in Nat, NEW s, DOMAIN s = 1 .. n, s = [i \in 1 .. n |-> s[i]],
         \A i \in 1 .. n : s[i] \in Nat
  PROVE  s \in Seq(Nat) /\ Len(s) = n
<1>1. s \in [1 .. n -> Nat]
  OBVIOUS
<1> QED
  BY <1>1

(* A write at an offset makes the file as long as it has to be, puts the bytes   *)
(* in their place, fills a hole with zeros and leaves the rest.                *)
LEMMA OverlayOf ==
  ASSUME NEW data \in Seq(Nat), NEW at \in Nat, NEW len \in Nat \ {0},
         NEW bytes \in Seq(Nat), Len(bytes) = len
  PROVE  /\ Overlay(data, at, bytes) \in Seq(Nat)
         /\ Len(Overlay(data, at, bytes)) = Larger(Len(data), at + len)
         /\ \A i \in 1 .. Larger(Len(data), at + len) :
              Overlay(data, at, bytes)[i] =
                IF i \in at + 1 .. at + len THEN bytes[i - at]
                ELSE IF i <= Len(data) THEN data[i] ELSE 0
<1> DEFINE n == Larger(Len(data), at + Len(bytes))
           e(i) == IF i \in at + 1 .. at + Len(bytes) THEN bytes[i - at]
                   ELSE IF i <= Len(data) THEN data[i] ELSE 0
           new == Overlay(data, at, bytes)
<1>1. bytes # <<>> /\ Len(data) \in Nat /\ Len(bytes) \in Nat
  BY EmptySeq, LenProperties
<1>2. n \in Nat /\ n = Larger(Len(data), at + len)
  BY <1>1 DEF Larger
<1>3. \A i \in 1 .. n : e(i) \in Nat
  <2> SUFFICES ASSUME NEW i \in 1 .. n PROVE e(i) \in Nat
    OBVIOUS
  <2>1. i \in at + 1 .. at + Len(bytes) => bytes[i - at] \in Nat
    BY <1>1, ElementOfSeq
  <2>2. i <= Len(data) => data[i] \in Nat
    BY <1>1, <1>2, ElementOfSeq
  <2> QED
    BY <2>1, <2>2
<1>4. new = [i \in 1 .. n |-> e(i)]
  BY <1>1 DEF Overlay, Larger
<1>5. ASSUME NEW i \in 1 .. n
      PROVE  e(i) = IF i \in at + 1 .. at + len THEN bytes[i - at]
                    ELSE IF i <= Len(data) THEN data[i] ELSE 0
  OBVIOUS
<1> HIDE DEF n, e, new
<1>6. new \in Seq(Nat) /\ Len(new) = n /\ \A i \in 1 .. n : new[i] = e(i)
  BY <1>2, <1>3, <1>4
<1> QED
  BY <1>2, <1>5, <1>6 DEF new

(* Laying bytes over data gives data, as long as the longer of the two.        *)
LEMMA OverlayType ==
  ASSUME NEW data \in Seq(Nat), NEW at \in Nat, NEW bytes \in Seq(Nat)
  PROVE  /\ Overlay(data, at, bytes) \in Seq(Nat)
         /\ Len(Overlay(data, at, bytes)) \in {Len(data), at + Len(bytes)}
<1>1. CASE bytes = <<>>
  BY <1>1 DEF Overlay
<1>2. CASE bytes # <<>>
  <2>1. Len(bytes) \in Nat \ {0}
    BY <1>2, EmptySeq
  <2> QED
    BY <2>1, OverlayOf DEF Larger
<1> QED
  BY <1>1, <1>2

(* ftruncate makes the file exactly as long as asked for.                      *)
LEMMA ResizedFacts ==
  ASSUME NEW data \in Seq(Nat), NEW n \in Nat
  PROVE  Resized(data, n) \in Seq(Nat) /\ Len(Resized(data, n)) = n
<1> DEFINE e(i) == IF i <= Len(data) THEN data[i] ELSE 0
<1>1. \A i \in 1 .. n : e(i) \in Nat
  <2> SUFFICES ASSUME NEW i \in 1 .. n PROVE e(i) \in Nat
    OBVIOUS
  <2>1. i <= Len(data) => data[i] \in Nat
    BY LenProperties, ElementOfSeq
  <2> QED
    BY <2>1
<1>2. Resized(data, n) = [i \in 1 .. n |-> e(i)]
  BY DEF Resized
<1> HIDE DEF e
<1> QED
  BY <1>1, <1>2

(* Two reads in a row are one read of as many bytes.                           *)
LEMMA ReadInTwo ==
  ASSUME NEW data \in Seq(Nat), NEW from \in Nat, NEW n \in Nat, NEW k \in Nat \ {0},
         from + n + k <= Len(data)
  PROVE  /\ SubSeq(data, from + 1, from + n) \o SubSeq(data, from + n + 1, from + n + k)
              = SubSeq(data, from + 1, from + n + k)
         /\ SubSeq(data, from + 1, from + n + k) \in Seq(Nat)
         /\ Len(SubSeq(data, from + 1, from + n + k)) = n + k
         /\ SubSeq(data, from + n + 1, from + n + k) \in Seq(Nat)
         /\ Len(SubSeq(data, from + n + 1, from + n + k)) = k
<1>1. Len(data) \in Nat
  BY LenProperties
<1>2. from + 1 \in 1 .. Len(data) + 1 /\ from + n \in (from + 1) - 1 .. Len(data)
      /\ from + n + k \in from + n .. Len(data)
  BY <1>1
<1>3. SubSeq(data, from + 1, from + n) \o SubSeq(data, (from + n) + 1, from + n + k)
        = SubSeq(data, from + 1, from + n + k)
  BY <1>2, ConcatAdjacentSubSeq
<1>4. \A i \in from + 1 .. from + n + k : data[i] \in Nat
  BY <1>1, ElementOfSeq
<1>5. /\ SubSeq(data, from + 1, from + n + k) \in Seq(Nat)
      /\ Len(SubSeq(data, from + 1, from + n + k)) = n + k
  BY <1>4, SubSeqProperties
<1>6. /\ SubSeq(data, from + n + 1, from + n + k) \in Seq(Nat)
      /\ Len(SubSeq(data, from + n + 1, from + n + k)) = k
  BY <1>4, SubSeqProperties
<1> QED
  BY <1>3, <1>5, <1>6

(* The bytes of a caller are numbered.                                         *)
Numbered(done, k) == [i \in 1 .. k |-> done + i]

(* What the caller's buffer holds from byte n on.                              *)
LEMMA NumberedFacts ==
  ASSUME NEW n \in Nat, NEW k \in Nat
  PROVE  /\ Numbered(n, k) \in Seq(Nat) /\ Len(Numbered(n, k)) = k
         /\ \A i \in 1 .. k : Numbered(n, k)[i] = n + i
         /\ Numbered(n, k) = <<>> <=> k = 0
<1>1. /\ Numbered(n, k) \in Seq(Nat) /\ Len(Numbered(n, k)) = k
      /\ \A i \in 1 .. k : Numbered(n, k)[i] = n + i
  BY DEF Numbered
<1> QED
  BY <1>1, EmptySeq

(* The buffer in two pieces is the buffer.                                     *)
LEMMA NumberedInTwo ==
  ASSUME NEW n \in Nat, NEW k \in Nat
  PROVE  Numbered(0, n) \o Numbered(n, k) = Numbered(0, n + k)
<1> DEFINE s == Numbered(0, n)
           t == Numbered(n, k)
           u == Numbered(0, n + k)
<1>1a. s \in Seq(Nat) /\ Len(s) = n /\ \A i \in 1 .. n : s[i] = 0 + i
  BY NumberedFacts, Zenon DEF s
<1>1b. t \in Seq(Nat) /\ Len(t) = k /\ \A i \in 1 .. k : t[i] = n + i
  BY NumberedFacts, Zenon DEF t
<1>1c. u \in Seq(Nat) /\ Len(u) = n + k /\ \A i \in 1 .. n + k : u[i] = 0 + i
  <2>1. n + k \in Nat
    OBVIOUS
  <2> QED
    BY <2>1, NumberedFacts, Zenon DEF u
<1> HIDE DEF s, t, u
<1>1. /\ s \in Seq(Nat) /\ t \in Seq(Nat) /\ u \in Seq(Nat)
      /\ Len(s) = n /\ Len(t) = k /\ Len(u) = n + k
      /\ \A i \in 1 .. n : s[i] = i
      /\ \A i \in 1 .. k : t[i] = n + i
      /\ \A i \in 1 .. n + k : u[i] = i
  BY <1>1a, <1>1b, <1>1c
<1>2. s \o t \in Seq(Nat) /\ Len(s \o t) = n + k
      /\ \A i \in 1 .. n + k : (s \o t)[i] = IF i <= n THEN s[i] ELSE t[i - n]
  BY <1>1, ConcatProperties, SMTT(30)
<1>3. \A i \in 1 .. n + k : (s \o t)[i] = u[i]
  BY <1>1, <1>2, SMTT(30)
<1> QED
  BY <1>1, <1>2, <1>3, SeqEqual DEF s, t, u

(* Two writes in a row are one write of both.                                  *)
LEMMA WriteInTwo ==
  ASSUME NEW data \in Seq(Nat), NEW at \in Nat, NEW n \in Nat, NEW k \in Nat \ {0}
  PROVE  Overlay(Overlay(data, at, Numbered(0, n)), at + n, Numbered(n, k))
           = Overlay(data, at, Numbered(0, n + k))
<1> DEFINE a == Numbered(0, n)
           b == Numbered(n, k)
           c == Numbered(0, n + k)
           first == Overlay(data, at, a)
           second == Overlay(first, at + n, b)
           whole == Overlay(data, at, c)
<1>1. at + n \in Nat /\ n + k \in Nat /\ Len(data) \in Nat
  BY LenProperties
<1>2a. a \in Seq(Nat) /\ Len(a) = n /\ (a = <<>> <=> n = 0)
       /\ \A i \in 1 .. n : a[i] = 0 + i
  BY NumberedFacts, Zenon DEF a
<1>2b. b \in Seq(Nat) /\ Len(b) = k /\ (b = <<>> <=> k = 0)
       /\ \A i \in 1 .. k : b[i] = n + i
  BY NumberedFacts, Zenon DEF b
<1>2c. c \in Seq(Nat) /\ Len(c) = n + k /\ (c = <<>> <=> n + k = 0)
       /\ \A i \in 1 .. n + k : c[i] = 0 + i
  BY <1>1, NumberedFacts, Zenon DEF c
<1> HIDE DEF a, b, c
<1>2. b # <<>> /\ c # <<>>
  BY <1>2b, <1>2c
<1>3. /\ first \in Seq(Nat)
      /\ n = 0 => first = data
      /\ n # 0 => /\ Len(first) = Larger(Len(data), at + n)
                  /\ \A i \in 1 .. Larger(Len(data), at + n) :
                       first[i] = IF i \in at + 1 .. at + n THEN a[i - at]
                                  ELSE IF i <= Len(data) THEN data[i] ELSE 0
  <2>1. n = 0 => first = data
    BY <1>2a DEF Overlay
  <2>2. first \in Seq(Nat)
    BY <1>2a, OverlayType DEF first
  <2>3. CASE n # 0
    <3>1. n \in Nat \ {0}
      BY <2>3
    <3> QED
      BY <1>2a, <2>2, <2>3, <3>1, OverlayOf DEF first
  <2> QED
    BY <2>1, <2>2, <2>3
<1> HIDE DEF first
<1>4. /\ second \in Seq(Nat)
      /\ Len(second) = Larger(Len(first), at + n + k)
      /\ \A i \in 1 .. Larger(Len(first), at + n + k) :
           second[i] = IF i \in at + n + 1 .. at + n + k THEN b[i - (at + n)]
                       ELSE IF i <= Len(first) THEN first[i] ELSE 0
  <2> DEFINE m == at + n
  <2>1. m \in Nat
    BY <1>1
  <2> HIDE DEF m
  <2>2. /\ Overlay(first, m, b) \in Seq(Nat)
        /\ Len(Overlay(first, m, b)) = Larger(Len(first), m + k)
        /\ \A i \in 1 .. Larger(Len(first), m + k) :
             Overlay(first, m, b)[i] = IF i \in m + 1 .. m + k THEN b[i - m]
                         ELSE IF i <= Len(first) THEN first[i] ELSE 0
    <3>1. first \in Seq(Nat) /\ b \in Seq(Nat) /\ Len(b) = k
      BY <1>2b, <1>3
    <3> QED
      BY <2>1, <3>1, OverlayOf
  <2> QED
    BY <2>2, Zenon DEF m, second
<1>5. /\ whole \in Seq(Nat)
      /\ Len(whole) = Larger(Len(data), at + (n + k))
      /\ \A i \in 1 .. Larger(Len(data), at + (n + k)) :
           whole[i] = IF i \in at + 1 .. at + (n + k) THEN c[i - at]
                      ELSE IF i <= Len(data) THEN data[i] ELSE 0
  <2> DEFINE len == n + k
  <2>1. len \in Nat \ {0}
    OBVIOUS
  <2>2. c \in Seq(Nat) /\ Len(c) = len
    BY <1>2c
  <2> HIDE DEF len
  <2>3. /\ whole \in Seq(Nat)
        /\ Len(whole) = Larger(Len(data), at + len)
        /\ \A i \in 1 .. Larger(Len(data), at + len) :
             whole[i] = IF i \in at + 1 .. at + len THEN c[i - at]
                        ELSE IF i <= Len(data) THEN data[i] ELSE 0
    BY <2>1, <2>2, OverlayOf DEF whole
  <2> QED
    BY <2>3, Zenon DEF len
<1> HIDE DEF second, whole
<1>6. /\ Len(first) \in Nat
      /\ Larger(Len(first), at + n + k) = Larger(Len(data), at + n + k)
      /\ Larger(Len(data), at + n + k) \in Nat
      /\ Larger(Len(data), at + (n + k)) = Larger(Len(data), at + n + k)
  BY <1>1, <1>3 DEF Larger
<1>7. ASSUME NEW i \in 1 .. Larger(Len(data), at + n + k) PROVE second[i] = whole[i]
  <2>0. i \in Nat
    BY <1>6
  <2>1. CASE i \in at + n + 1 .. at + n + k
    <3>1. second[i] = b[i - (at + n)] /\ whole[i] = c[i - at]
      BY <1>1, <1>4, <1>5, <1>6, <2>1, SMTT(30)
    <3>2. i - (at + n) \in 1 .. k /\ i - at \in 1 .. n + k
      BY <1>1, <2>0, <2>1, SMTT(30)
    <3>3. b[i - (at + n)] = n + (i - (at + n)) /\ c[i - at] = 0 + (i - at)
      BY <1>2b, <1>2c, <3>2, Zenon
    <3> QED
      BY <2>0, <3>1, <3>3
  <2>2. CASE i \in at + 1 .. at + n
    <3>0. i <= Len(first) /\ i \notin at + n + 1 .. at + n + k /\ i \in at + 1 .. at + (n + k)
      BY <1>1, <1>3, <2>0, <2>2 DEF Larger
    <3>1. second[i] = first[i] /\ whole[i] = c[i - at]
      BY <1>4, <1>5, <1>6, <3>0
    <3>2. first[i] = a[i - at]
      BY <1>1, <1>3, <2>2 DEF Larger
    <3>3. i - at \in 1 .. n /\ i - at \in 1 .. n + k
      BY <1>1, <2>0, <2>2
    <3> QED
      BY <1>2a, <1>2c, <3>1, <3>2, <3>3
  <2>3. CASE i \notin at + 1 .. at + n + k
    <3>1. /\ second[i] = IF i <= Len(first) THEN first[i] ELSE 0
          /\ whole[i] = IF i <= Len(data) THEN data[i] ELSE 0
      BY <1>1, <1>4, <1>5, <1>6, <2>0, <2>3, SMTT(30)
    <3>2. CASE n = 0
      BY <1>3, <3>1, <3>2
    <3>3. CASE n # 0
      BY <1>1, <1>3, <2>0, <2>3, <3>1, <3>3 DEF Larger
    <3> QED
      BY <3>2, <3>3
  <2>4. i \in at + n + 1 .. at + n + k \/ i \in at + 1 .. at + n \/ i \notin at + 1 .. at + n + k
    BY <1>1, <2>0
  <2> QED
    BY <2>1, <2>2, <2>3, <2>4
<1>8. second = whole
  BY <1>4, <1>5, <1>6, <1>7, SeqEqual
<1> QED
  BY <1>8 DEF second, whole, first, a, b, c

-----------------------------------------------------------------------------

Handles  == [name : Name, read : BOOLEAN, write : BOOLEAN, append : BOOLEAN,
             pos : 0 .. MaxPos]
AllOps   == PathOps \cup HandleOps

-----------------------------------------------------------------------------
(* The words of an answer.                                                    *)

(* A word that the application may see: it is a result or an error.            *)
Honest(w) == w \in FSError /\ w.extra \in {"none", "error"}

(* What layers return; a number may be a word of any sort.                      *)
Words == {Number(n) : n \in Nat} \cup Misread \cup {Error(e) : e \in FSErrorName \ {"OK"}}
         \cup {NoFallback("NOT_FOUND"), FORCE_PARENT_LAYER}

(* The three names that differ in an IOSError are turned back, and no other      *)
(* name is one of theirs.                                                     *)
LEMMA RoundTrip ==
  ASSUME NEW w \in FSError
  PROVE  __FSAShimDecodeIosErrorToFsaStatus(ToIOS(w)) = w
<1>1. w = [extra |-> w.extra, name |-> w.name, count |-> w.count] /\ w.name \in FSErrorName
  BY DEF FSError, Codes
<1>2. CASE w.name = "INVALID_BUFFER"
  BY <1>1, <1>2 DEF ToIOS, __FSAShimDecodeIosErrorToFsaStatus
<1>3. CASE w.name = "INVALID_CLIENTHANDLE"
  BY <1>1, <1>3 DEF ToIOS, __FSAShimDecodeIosErrorToFsaStatus
<1>4. CASE w.name = "BUSY"
  BY <1>1, <1>4 DEF ToIOS, __FSAShimDecodeIosErrorToFsaStatus
<1>5. CASE w.name \notin {"INVALID_BUFFER", "INVALID_CLIENTHANDLE", "BUSY"}
  BY <1>1, <1>5 DEF ToIOS, __FSAShimDecodeIosErrorToFsaStatus, FSErrorName
<1> QED
  BY <1>2, <1>3, <1>4, <1>5

(* The words of layers are words.                                              *)
LEMMA WordsAre == Words \subseteq FSError
<1>1. \A n \in Nat : Number(n) \in FSError
  BY DEF Number, FSError, Codes, FSErrorName
<1>2. Misread \subseteq FSError
  BY MisreadAssumption DEF FSError, Codes
<1>3. \A e \in FSErrorName : Error(e) \in FSError /\ NoFallback(e) \in FSError
  BY DEF Error, NoFallback, FSError, Codes, Extra
<1>4. FORCE_PARENT_LAYER \in FSError
  BY DEF FORCE_PARENT_LAYER, FSError, Codes, Extra, FSErrorName
<1>5. "NOT_FOUND" \in FSErrorName
  BY DEF FSErrorName
<1> QED
  BY <1>1, <1>2, <1>3, <1>4, <1>5 DEF Words

(* The mask of doForLayer leaves the application's.                             *)
LEMMA HonestMasked ==
  ASSUME NEW w \in Words
  PROVE  /\ Honest(Masked(w)) /\ Masked(w).name = w.name
         /\ Masked(w).extra = "none" <=> w.extra = "none"
         /\ w.extra = "none" => Masked(w) = w
<1>1. w \in FSError
  BY WordsAre
<1> QED
  BY <1>1 DEF Masked, Honest, FSError, Codes, Extra

LEMMA HonestError == \A e \in FSErrorName : Honest(Error(e))
BY DEF Error, Honest, FSError, Codes, Extra

(* What the console answers is one.                                            *)
LEMMA HonestReal == \A op : \A w \in RealAnswers(op) : Honest(w)
<1>1. Honest(OK) /\ Honest(Error("NOT_FOUND")) /\ Honest(Error("INVALID_FILEHANDLE"))
  <2>1. {"NOT_FOUND", "INVALID_FILEHANDLE"} \subseteq FSErrorName
    BY DEF FSErrorName
  <2>2. Honest(OK)
    BY DEF OK, Number, Honest, FSError, Codes, FSErrorName
  <2> QED
    BY <2>1, <2>2, HonestError
<1> QED
  BY <1>1 DEF RealAnswers

(* The tail of doForLayer: whoever answers, the word is one the application      *)
(* may see, and a layer's answer is the word the layer gave.                    *)
LEMMA AnswerFacts ==
  ASSUME NEW op \in AllOps, NEW f \in File \cup {Nil}, NEW w \in Words,
         NEW fault \in BOOLEAN, NEW t \in Bytes, Answer(op, f, w, fault, t)
  PROVE  /\ reply' \in Replies /\ Honest(reply'.code)
         /\ reply'.op = op /\ reply'.f = f /\ reply'.bytes = t
         /\ reply'.by = "layer" => reply'.code = Masked(w)
<1>1. CASE w = FORCE_PARENT_LAYER \/ FallsBack(w, fallbackOnError)
  <2>1. PICK c \in RealAnswers(op) : reply' = Told(op, f, "console", c, fault, t)
    BY <1>1 DEF Answer
  <2>2. Honest(c) /\ c \in FSError
    BY HonestReal DEF Honest
  <2> QED
    BY <2>1, <2>2 DEF Told, Replies, AllOps
<1>2. CASE ~(w = FORCE_PARENT_LAYER \/ FallsBack(w, fallbackOnError))
  <2>1. reply' = Told(op, f, "layer", Masked(w), fault, t)
    BY <1>2 DEF Answer
  <2>2. Honest(Masked(w)) /\ Masked(w) \in FSError
    BY <1>2, HonestMasked DEF Honest
  <2> QED
    BY <2>1, <2>2 DEF Told, Replies, AllOps
<1> QED
  BY <1>1, <1>2

-----------------------------------------------------------------------------
(* The inductive invariant.                                                   *)

KindOK == kind \in Kinds \cup {"none"} /\ marked \subseteq Name
DiskOK == /\ disk \in [Name -> Entry]
          /\ \A n \in Name : Len(disk[n].data) <= MaxLen
FileOK == /\ file \in [File -> {Nil} \cup Handles]
          /\ \A f \in OpenFiles : disk[file[f].name].type = "file"
FdOK   == /\ descriptors \in 0 .. MaxFd /\ dropped \in 0 .. MaxFd
          /\ DescriptorsAccounted

(* A loop has moved the bytes that it should have moved by now, and has no more   *)
(* left than the caller asked for.                                            *)
LoopOK ==
  LET t == transfer.bytes
      n == Len(t.buf)
      f == transfer.f IN
  /\ n + transfer.left <= t.size * t.count
  /\ transfer.op = "ReadFile" =>
       /\ t.prior = Data(f) /\ file[f].pos = t.from + n
       /\ t.buf = SubSeq(t.prior, t.from + 1, t.from + n)
  /\ transfer.op = "WriteFile" =>
       /\ kind = "save" /\ t.buf = Numbered(0, n)
       /\ Data(f) = Overlay(t.prior, t.from, t.buf)
       /\ At(f) = t.from + n
TransferOK ==
  transfer # Nil => /\ transfer \in Transfer /\ transfer.f \in OpenFiles
                    /\ reply = Nil /\ LoopOK

ReplyOK == /\ reply # Nil => reply \in Replies /\ Honest(reply.code)
           /\ ReadsWhatIsThere /\ WritesWhatWasGiven

IInv == KindOK /\ DiskOK /\ FileOK /\ FdOK /\ TransferOK /\ ReplyOK

-----------------------------------------------------------------------------
(* Parts of the invariant that most steps leave alone.                         *)

LEMMA NoBytesFacts ==
  /\ NoBytes \in Bytes
  /\ Len(NoBytes.buf) = 0
BY EmptySeq DEF NoBytes, Bytes, APIs

(* An answer that moved no bytes.                                              *)
LEMMA QuietReply ==
  ASSUME NEW op \in AllOps, NEW f \in File \cup {Nil}, NEW w \in Words,
         NEW fault \in BOOLEAN, Answer(op, f, w, fault, NoBytes)
  PROVE  ReplyOK'
<1>1. /\ reply' \in Replies /\ Honest(reply'.code) /\ reply'.bytes = NoBytes
  BY NoBytesFacts, AnswerFacts
<1>2. ReadsWhatIsThere'
  <2>1. NoBytes.buf = <<>> /\ NoBytes.size = 0 /\ NoBytes.count = 0
        /\ NoBytes.from = 0 /\ NoBytes.prior = <<>>
    BY DEF NoBytes
  <2>2. Len(<<>>) = 0 /\ SubSeq(<<>>, 1, 0) = <<>>
    BY EmptySeq, SubSeqEmpty
  <2> QED
    BY <1>1, <2>1, <2>2 DEF ReadsWhatIsThere
<1>3. WritesWhatWasGiven'
  BY <1>1 DEF WritesWhatWasGiven
<1> QED
  BY <1>1, <1>2, <1>3 DEF ReplyOK

(* Calls that do not touch the disk, the handles or the descriptors.            *)
LEMMA StillKeeps ==
  ASSUME IInv, transfer = Nil, Still, ReplyOK'
  PROVE  IInv'
BY DEF Still, layer, IInv, KindOK, DiskOK, FileOK, FdOK, TransferOK, OpenFiles, Data,
       DescriptorsAccounted

(* An answer outside transfers keeps the invariant if the files are left alone.*)
LEMMA AnswerKeeps ==
  ASSUME IInv, Idle, Still,
         NEW op \in AllOps, NEW f \in File \cup {Nil}, NEW w \in Words,
         NEW fault \in BOOLEAN, Answer(op, f, w, fault, NoBytes)
  PROVE  IInv'
BY StillKeeps, QuietReply DEF Idle

(* An answer of the wrapper itself.                                            *)
LEMMA WrapperReply ==
  ASSUME NEW op \in AllOps, NEW f \in File \cup {Nil}, NEW e \in FSErrorName \ {"OK"},
         NEW t \in Bytes, NEW by \in {"wrapper", "fatal"},
         reply' = Told(op, f, by, Error(e), FALSE, t)
  PROVE  ReplyOK'
<1>1. Honest(Error(e)) /\ Error(e) \in FSError
  BY HonestError DEF Honest
<1>2. reply' \in Replies /\ Honest(reply'.code) /\ reply'.by # "layer"
  BY <1>1 DEF Told, Replies, AllOps
<1> QED
  BY <1>2 DEF ReplyOK, ReadsWhatIsThere, WritesWhatWasGiven, Done

(* The constructors of words give words.                                       *)
LEMMA WordFacts ==
  /\ \A e \in FSErrorName \ {"OK"} : Error(e) \in Words
  /\ \A n \in Nat : Number(n) \in Words /\ Results(n) \subseteq Words
  /\ OK \in Words /\ NoFallback("NOT_FOUND") \in Words /\ FORCE_PARENT_LAYER \in Words
BY DEF Words, OK, Results

(* The errors that layers give have names.                                     *)
LEMMA ErrorNames ==
  /\ \A e : OpenError(e) \in FSErrorName \ {"OK"}
  /\ \A e : PathError(e) \in FSErrorName \ {"OK"}
  /\ \A e : MakeDirError(e) \in FSErrorName \ {"OK"}
  /\ \A f : ReadError(f) \in FSErrorName \ {"OK"}
  /\ {"NOT_FOUND", "MAX_FILES", "MEDIA_ERROR", "ACCESS_ERROR", "INVALID_BUFFER",
      "INVALID_PARAM", "OUT_OF_RESOURCES", "PERMISSION_ERROR", "END_OF_FILE",
      "FILE_TOO_BIG", "INVALID_FILEHANDLE"} \subseteq FSErrorName \ {"OK"}
BY DEF OpenError, PathError, MakeDirError, ReadError, FSErrorName

-----------------------------------------------------------------------------

(* The invariant holds at the start.                                           *)
LEMMA InitIInv == Init => IInv
<1> SUFFICES ASSUME Init PROVE IInv
  OBVIOUS
<1>1. KindOK /\ TransferOK
  BY DEF Init, KindOK, TransferOK
<1>2. DiskOK
  BY DisksAssumption DEF Init, DiskOK, Entry
<1>3. OpenFiles = {} /\ FileOK
  BY DEF Init, OpenFiles, FileOK
<1>4. FdOK
  BY <1>3, FS_EmptySet, FileOpsAssumption DEF Init, FdOK, DescriptorsAccounted
<1>5. ReplyOK
  BY DEF Init, ReplyOK, ReadsWhatIsThere, WritesWhatWasGiven, Done
<1> QED
  BY <1>1, <1>2, <1>3, <1>4, <1>5 DEF IInv

-----------------------------------------------------------------------------
(* Calls whose only effect is an answer.                                       *)

LEMMA OpNames ==
  /\ PathOps \subseteq AllOps /\ HandleOps \subseteq AllOps
  /\ "ReadFile" \in HandleOps /\ "WriteFile" \in HandleOps
BY DEF AllOps, HandleOps

(* The calls that answer and change no file.                                   *)
LEMMA QuietSteps ==
  ASSUME IInv,
         \/ \E op \in PathOps : OutsideLayer(op)
         \/ \E op \in AllOps : ShimRefused(op)
         \/ \E f \in File, op \in HandleOps :
              Query(op, f) \/ Unsupported(op, f) \/ UnknownHandle(op, f)
         \/ \E f \in File : FSAFlushFile(f)
         \/ \E n \in Name : FSAGetStat(n)
  PROVE  IInv'
<1> USE WordFacts, ErrorNames, OpNames
<1>1. ASSUME NEW op \in PathOps, OutsideLayer(op) PROVE IInv'
  BY <1>1, AnswerKeeps DEF OutsideLayer, Deliver
<1>2. ASSUME NEW op \in AllOps, ShimRefused(op) PROVE IInv'
  <2>1. PICK e \in {"OUT_OF_RESOURCES", "INVALID_BUFFER", "INVALID_PARAM"} :
           reply' = Told(op, Nil, "wrapper", Error(e), FALSE, NoBytes)
    BY <1>2 DEF ShimRefused
  <2>2. ReplyOK'
    BY <2>1, WrapperReply, NoBytesFacts
  <2> QED
    BY <1>2, <2>2, StillKeeps DEF ShimRefused, Idle
<1>3. ASSUME NEW f \in File, NEW op \in HandleOps, Query(op, f) PROVE IInv'
  BY <1>3, AnswerKeeps DEF Query, Deliver, Fail
<1>4. ASSUME NEW f \in File, NEW op \in HandleOps, Unsupported(op, f) PROVE IInv'
  BY <1>4, AnswerKeeps DEF Unsupported, Deliver
<1>5. ASSUME NEW f \in File, NEW op \in HandleOps, UnknownHandle(op, f) PROVE IInv'
  BY <1>5, AnswerKeeps DEF UnknownHandle, Deliver
<1>6. ASSUME NEW f \in File, FSAFlushFile(f) PROVE IInv'
  <2>1. "FlushFile" \in AllOps
    BY DEF AllOps, HandleOps
  <2>2. PICK w \in Words, fault \in BOOLEAN : Answer("FlushFile", f, w, fault, NoBytes)
    <3>1. CASE \E e \in {"INVALID_FILEHANDLE", "MEDIA_ERROR"} : Fail("FlushFile", f, e)
      BY <3>1 DEF Fail
    <3>2. CASE Deliver("FlushFile", f, OK) \/ Deliver("FlushFile", f, Error("ACCESS_ERROR"))
      BY <3>2 DEF Deliver
    <3> QED
      BY <1>6, <3>1, <3>2 DEF FSAFlushFile
  <2>3. Idle /\ Still
    BY <1>6 DEF FSAFlushFile
  <2> QED
    BY <2>1, <2>2, <2>3, AnswerKeeps
<1>7. ASSUME NEW n \in Name, FSAGetStat(n) PROVE IInv'
  <2>1. "GetStat" \in AllOps
    BY DEF AllOps, PathOps
  <2> QED
    BY <1>7, <2>1, AnswerKeeps DEF FSAGetStat, Deliver
<1> QED
  BY <1>1, <1>2, <1>3, <1>4, <1>5, <1>6, <1>7

(* The wrapper refuses a transfer that does not fit, and the application takes   *)
(* its answer.                                                                *)
LEMMA ReceiveStep == IInv /\ Receive => IInv'
<1> SUFFICES ASSUME IInv, Receive PROVE IInv'
  OBVIOUS
<1>1. transfer = Nil
  BY DEF IInv, TransferOK, Receive
<1>2. ReplyOK'
  BY DEF Receive, ReplyOK, ReadsWhatIsThere, WritesWhatWasGiven, Done
<1> QED
  BY <1>1, <1>2, StillKeeps DEF Receive, Still

(* A loop starts with an empty buffer of its type.                             *)
LEMMA StartedType ==
  ASSUME NEW api \in APIs, NEW size \in Nat, NEW count \in Nat, NEW from \in Nat,
         NEW prior \in Seq(Nat)
  PROVE  Started(api, size, count, from, prior) \in Bytes
BY EmptySeq DEF Started, Bytes

(* A transfer too large for its size field is refused before the layer.        *)
LEMMA RefuseStep ==
  ASSUME IInv, NEW f \in File, NEW api \in APIs, NEW size \in Size, NEW count \in Count,
         NEW op \in {"ReadFile", "WriteFile"}, RefuseTransfer(op, f, api, size, count)
  PROVE  IInv'
<1>1. Started(api, size, count, 0, <<>>) \in Bytes
  BY StartedType, EmptySeq, FileOpsAssumption
<1>2. ReplyOK'
  BY <1>1, WrapperReply, ErrorNames, OpNames DEF RefuseTransfer
<1> QED
  BY <1>2, StillKeeps DEF RefuseTransfer, Idle

-----------------------------------------------------------------------------
(* Handles and descriptors.                                                    *)

LEMMA NotNil == Nil \notin Handles
BY NilAssumption, FileOpsAssumption DEF Handles

(* An open handle refers to a file inside the bounds.                          *)
LEMMA HandleFacts ==
  ASSUME IInv, NEW f \in OpenFiles
  PROVE  /\ f \in File /\ file[f] \in Handles /\ file[f] # Nil
         /\ Data(f) \in Seq(Nat) /\ Len(Data(f)) <= MaxLen
         /\ disk[file[f].name] \in Entry /\ disk[file[f].name].type = "file"
<1>1. f \in File /\ file[f] \in Handles /\ file[f] # Nil
  BY DEF OpenFiles, IInv, FileOK
<1>2. file[f].name \in Name
  BY <1>1 DEF Handles
<1> QED
  BY <1>1, <1>2 DEF IInv, FileOK, DiskOK, Data, Entry

(* Handles can be counted.                                                     *)
LEMMA OpenFilesFinite == IsFiniteSet(OpenFiles) /\ Cardinality(OpenFiles) \in Nat
<1>1. OpenFiles \subseteq File /\ IsFiniteSet(File)
  BY FileOpsAssumption DEF OpenFiles
<1> QED
  BY <1>1, FS_Subset, FS_CardinalityType

(* A call that ends in an answer without bytes keeps the invariant when it        *)
(* keeps the parts about its state.                                            *)
LEMMA QuietEnd ==
  ASSUME NEW op \in AllOps, NEW f \in File \cup {Nil}, NEW w \in Words,
         NEW fault \in BOOLEAN, Answer(op, f, w, fault, NoBytes),
         transfer' = Nil, KindOK', DiskOK', FileOK', FdOK'
  PROVE  IInv'
BY QuietReply DEF IInv, TransferOK

(* Moving a handle.                                                            *)
LEMMA MoveFacts ==
  ASSUME IInv, NEW f \in OpenFiles, NEW pos \in 0 .. MaxPos, MoveTo(f, pos)
  PROVE  /\ file' \in [File -> {Nil} \cup Handles] /\ OpenFiles' = OpenFiles
         /\ \A g \in OpenFiles : file'[g].name = file[g].name
         /\ file'[f].pos = pos /\ file'[f].append = file[f].append
<1>1. file \in [File -> {Nil} \cup Handles] /\ f \in File /\ file[f] \in Handles
  BY HandleFacts DEF IInv, FileOK
<1>2. [file[f] EXCEPT !.pos = pos] \in Handles
  BY <1>1 DEF Handles
<1>3. file' = [file EXCEPT ![f] = [file[f] EXCEPT !.pos = pos]]
  BY DEF MoveTo
<1>4. file' \in [File -> {Nil} \cup Handles]
  BY <1>1, <1>2, <1>3
<1>5. /\ file'[f] = [file[f] EXCEPT !.pos = pos]
      /\ \A g \in File : g # f => file'[g] = file[g]
  BY <1>1, <1>3
<1>6. OpenFiles' = OpenFiles
  BY <1>1, <1>2, <1>5, NotNil DEF OpenFiles
<1>7. file'[f].name = file[f].name /\ file'[f].append = file[f].append /\ file'[f].pos = pos
  BY <1>1, <1>5 DEF Handles
<1> QED
  BY <1>4, <1>5, <1>6, <1>7 DEF OpenFiles

(* Moving a position disturbs neither files nor descriptors.                   *)
LEMMA MoveKeeps ==
  ASSUME IInv, NEW f \in OpenFiles, NEW pos \in 0 .. MaxPos, MoveTo(f, pos),
         UNCHANGED <<descriptors, dropped, disk>>
  PROVE  DiskOK' /\ FileOK' /\ FdOK'
<1>1. FileOK'
  BY MoveFacts DEF IInv, FileOK
<1>2. FdOK'
  BY MoveFacts DEF IInv, FdOK, DescriptorsAccounted
<1> QED
  BY <1>1, <1>2 DEF IInv, DiskOK

(* setPosFile keeps the invariant.                                             *)
LEMMA SeekStep ==
  ASSUME IInv, NEW f \in File, NEW pos \in Positions, FSASetPosFile(f, pos)
  PROVE  IInv'
<1> USE WordFacts, ErrorNames, OpNames
<1>1. f \in OpenFiles /\ pos \in 0 .. MaxPos /\ transfer' = Nil /\ KindOK' /\ "SetPosFile" \in AllOps
  BY FileOpsAssumption DEF FSASetPosFile, OpenFiles, Idle, IInv, KindOK, layer, AllOps, HandleOps
<1>2. CASE MoveTo(f, pos) /\ Deliver("SetPosFile", f, OK)
  <2>1. DiskOK' /\ FileOK' /\ FdOK'
    BY <1>1, <1>2, MoveKeeps DEF FSASetPosFile
  <2> QED
    BY <1>1, <1>2, <2>1, QuietEnd DEF Deliver
<1>3. CASE Fail("SetPosFile", f, "MEDIA_ERROR") /\ UNCHANGED file
  <2>1. Idle /\ Still
    BY <1>3 DEF FSASetPosFile, Still
  <2> QED
    BY <1>1, <1>3, <2>1, AnswerKeeps DEF Fail
<1> QED
  BY <1>2, <1>3 DEF FSASetPosFile

(* isEof keeps it, wherever its second seek goes.                              *)
LEMMA EofStep ==
  ASSUME IInv, NEW f \in File, FSAIsEof(f)
  PROVE  IInv'
<1> USE WordFacts, ErrorNames, OpNames
<1>1. f \in OpenFiles /\ transfer' = Nil /\ KindOK' /\ "IsEof" \in AllOps
  BY DEF FSAIsEof, OpenFiles, Idle, IInv, KindOK, layer, AllOps, HandleOps
<1>2. Len(Data(f)) \in 0 .. MaxPos /\ file[f].pos \in 0 .. MaxPos
  BY <1>1, HandleFacts, LenProperties, FileOpsAssumption DEF Handles
<1>3. ASSUME NEW w \in Words, NEW fault \in BOOLEAN, NEW p \in 0 .. MaxPos,
             MoveTo(f, p), Answer("IsEof", f, w, fault, NoBytes)
      PROVE  IInv'
  <2>1. DiskOK' /\ FileOK' /\ FdOK'
    BY <1>1, <1>3, MoveKeeps DEF FSAIsEof
  <2> QED
    BY <1>1, <1>3, <2>1, QuietEnd
<1>4. ASSUME NEW w \in Words, NEW fault \in BOOLEAN, UNCHANGED file,
             Answer("IsEof", f, w, fault, NoBytes)
      PROVE  IInv'
  <2>1. Idle /\ Still
    BY <1>4 DEF FSAIsEof, Still
  <2> QED
    BY <1>1, <1>4, <2>1, AnswerKeeps
<1>5. \A p \in Restored(f, Len(Data(f))) : p <= MaxPos => p \in 0 .. MaxPos
  BY <1>2, FileOpsAssumption DEF Restored, StaysAtEnd, SeekCurFromEnd
<1>6. CASE Deliver("IsEof", f, Error("END_OF_FILE")) /\ UNCHANGED file
  BY <1>4, <1>6 DEF Deliver
<1>7. CASE /\ Deliver("IsEof", f, OK)
           /\ \E p \in Restored(f, Len(Data(f))) : p <= MaxPos /\ MoveTo(f, p)
  BY <1>3, <1>5, <1>7 DEF Deliver
<1>8. CASE Fail("IsEof", f, "MEDIA_ERROR") /\ (UNCHANGED file \/ MoveTo(f, Len(Data(f))))
  BY <1>2, <1>3, <1>4, <1>8 DEF Fail
<1> QED
  BY <1>6, <1>7, <1>8 DEF FSAIsEof
-----------------------------------------------------------------------------
(* Opening and closing: the handle and its descriptor come and go together.     *)

LEMMA CloseStep ==
  ASSUME IInv, NEW f \in File, FSACloseFile(f)
  PROVE  IInv'
<1> USE WordFacts, ErrorNames, OpNames
<1>1. f \in OpenFiles /\ transfer' = Nil /\ KindOK' /\ DiskOK' /\ "CloseFile" \in AllOps
  BY DEF FSACloseFile, OpenFiles, Idle, IInv, KindOK, DiskOK, layer, AllOps, HandleOps
<1>2. file \in [File -> {Nil} \cup Handles] /\ file' = [file EXCEPT ![f] = Nil]
  BY DEF FSACloseFile, IInv, FileOK
<1>3. OpenFiles' = OpenFiles \ {f} /\ file' \in [File -> {Nil} \cup Handles]
      /\ \A g \in OpenFiles' : file'[g] = file[g]
  BY <1>2 DEF OpenFiles
<1>4. FileOK'
  BY <1>1, <1>3 DEF FSACloseFile, IInv, FileOK
<1>5. Cardinality(OpenFiles') = Cardinality(OpenFiles) - 1
  BY <1>1, <1>3, OpenFilesFinite, FS_RemoveElement
<1>6. Cardinality(OpenFiles') \in Nat
  BY <1>3, OpenFilesFinite, FS_RemoveElement, FS_CardinalityType
<1>7. FdOK'
  BY <1>5, <1>6, OpenFilesFinite, FileOpsAssumption
     DEF FSACloseFile, IInv, FdOK, DescriptorsAccounted
<1> QED
  BY <1>1, <1>4, <1>7, QuietEnd DEF FSACloseFile, Deliver, Fail

(* What open() does to the storage.                                            *)
LEMMA OpenedFacts ==
  ASSUME IInv, NEW n \in Name, NEW mode, CanOpen(n, mode),
         disk' = [disk EXCEPT ![n] = Opened(disk[n], mode)]
  PROVE  /\ DiskOK' /\ disk'[n].type = "file"
         /\ \A m \in Name : disk[m].type = "file" => disk'[m].type = "file"
<1> USE DEF DiskOK
<1>1. disk \in [Name -> Entry] /\ \A m \in Name : Len(disk[m].data) <= MaxLen
  BY DEF IInv
<1>2. /\ Opened(disk[n], mode) \in Entry /\ Opened(disk[n], mode).type = "file"
      /\ Len(Opened(disk[n], mode).data) <= MaxLen
  <2>1. CASE disk[n].type = "none" \/ mode \in Truncates
    <3>1. Opened(disk[n], mode) = [type |-> "file", data |-> <<>>]
      BY <2>1 DEF Opened, FileOf
    <3> QED
      BY <3>1, EmptySeq, FileOpsAssumption DEF Entry
  <2>2. CASE ~(disk[n].type = "none" \/ mode \in Truncates)
    <3>1. Opened(disk[n], mode) = disk[n]
      BY <2>2 DEF Opened
    <3> QED
      BY <1>1, <2>2, <3>1 DEF CanOpen
  <2> QED
    BY <2>1, <2>2
<1>3. /\ disk' \in [Name -> Entry] /\ disk'[n] = Opened(disk[n], mode)
      /\ \A m \in Name : m # n => disk'[m] = disk[m]
  BY <1>1, <1>2
<1> QED
  BY <1>1, <1>2, <1>3

(* Opening takes one descriptor for one handle, or neither.                    *)
LEMMA OpenStep ==
  ASSUME IInv, NEW f \in File, NEW n \in Name, NEW mode \in Mode, FSAOpenFile(f, n, mode)
  PROVE  IInv'
<1> USE WordFacts, ErrorNames, OpNames
<1>1. Idle /\ file[f] = Nil /\ "OpenFile" \in AllOps
  BY DEF FSAOpenFile, AllOps, PathOps
<1>2. CASE Still /\ \E w \in Words, fault \in BOOLEAN :
                      Answer("OpenFile", f, w, fault, NoBytes)
  BY <1>1, <1>2, AnswerKeeps
<1>3. CASE /\ CanOpen(n, mode) /\ disk' = [disk EXCEPT ![n] = Opened(disk[n], mode)]
           /\ AllocFails(f, n, mode) \/ Opens(f, n, mode)
           /\ UNCHANGED <<layer, dropped, transfer>>
  <2>1. DiskOK' /\ disk'[n].type = "file" /\ KindOK' /\ transfer' = Nil
        /\ \A m \in Name : disk[m].type = "file" => disk'[m].type = "file"
    BY <1>1, <1>3, OpenedFacts DEF Idle, IInv, KindOK, layer
  <2>2. \A g \in OpenFiles : file[g].name \in Name /\ disk[file[g].name].type = "file"
    BY HandleFacts DEF Handles
  <2>3. CASE AllocFails(f, n, mode)
    <3>1. OpenFiles' = OpenFiles
      BY <2>3 DEF AllocFails, OpenFiles
    <3>2. FileOK' /\ FdOK'
      BY <1>3, <2>1, <2>2, <2>3, <3>1
         DEF AllocFails, IInv, FileOK, FdOK, DescriptorsAccounted
    <3> QED
      BY <1>1, <2>1, <2>3, <3>2, QuietEnd DEF AllocFails, Deliver
  <2>4. CASE Opens(f, n, mode)
    <3> DEFINE new == [name |-> n, read |-> mode \in Reads, write |-> mode \in Writes,
                       append |-> mode \in Appends, pos |-> 0]
    <3>1. new \in Handles /\ new.name = n
      BY FileOpsAssumption DEF Handles
    <3>2. file' = [file EXCEPT ![f] = new]
      BY <2>4 DEF Opens
    <3> HIDE DEF new
    <3>3. /\ file' \in [File -> {Nil} \cup Handles] /\ file'[f] = new
          /\ \A g \in File : g # f => file'[g] = file[g]
      BY <3>1, <3>2 DEF IInv, FileOK
    <3>4. OpenFiles' = OpenFiles \cup {f} /\ f \notin OpenFiles
      BY <1>1, <3>1, <3>3, NotNil DEF OpenFiles
    <3>5. FileOK'
      BY <2>1, <2>2, <3>1, <3>3, <3>4 DEF FileOK, OpenFiles
    <3>6. Cardinality(OpenFiles') = Cardinality(OpenFiles) + 1
      BY <3>4, OpenFilesFinite, FS_AddElement
    <3>7. FdOK'
      <4>1. descriptors' = descriptors + 1 /\ dropped' = dropped /\ descriptors < MaxFd
        BY <1>3, <2>4 DEF Opens, CanOpen
      <4> QED
        BY <3>6, <4>1, OpenFilesFinite, FileOpsAssumption DEF IInv, FdOK, DescriptorsAccounted
    <3> QED
      BY <1>1, <2>1, <2>4, <3>5, <3>7, QuietEnd DEF Opens, Deliver
  <2> QED
    BY <1>3, <2>3, <2>4
<1>4. /\ \A e : (e = "EIO") \in BOOLEAN
      /\ \A e : Error(OpenError(e)) \in Words
  OBVIOUS
<1> QED
  BY <1>2, <1>3, <1>4 DEF FSAOpenFile, Deliver

(* A layer that is removed takes its handles with it and leaves the descriptors. *)
LEMMA RemoveLayerStep == IInv /\ RemoveFSLayer => IInv'
<1> SUFFICES ASSUME IInv, RemoveFSLayer PROVE IInv'
  OBVIOUS
<1>1. Idle /\ transfer' = Nil /\ reply' = Nil /\ disk' = disk
  BY DEF RemoveFSLayer, Idle
<1>2. OpenFiles' = {} /\ file' \in [File -> {Nil} \cup Handles]
  BY DEF RemoveFSLayer, OpenFiles
<1>3. KindOK' /\ DiskOK' /\ FileOK'
  BY <1>1, <1>2 DEF RemoveFSLayer, IInv, KindOK, DiskOK, FileOK
<1>4. FdOK'
  BY <1>2, OpenFilesFinite, FS_EmptySet, FileOpsAssumption
     DEF RemoveFSLayer, IInv, FdOK, DescriptorsAccounted
<1>5. ReplyOK'
  BY <1>1 DEF ReplyOK, ReadsWhatIsThere, WritesWhatWasGiven, Done
<1> QED
  BY <1>1, <1>3, <1>4, <1>5 DEF IInv, TransferOK

(* A new layer starts without handles.                                         *)
LEMMA AddLayerStep == IInv /\ (\E k \in Kinds : AddFSLayer(k)) => IInv'
<1> SUFFICES ASSUME IInv, NEW k \in Kinds, AddFSLayer(k) PROVE IInv'
  OBVIOUS
<1>1. Idle /\ transfer' = Nil /\ reply' = Nil
      /\ UNCHANGED <<disk, file, descriptors, dropped>>
  BY DEF AddFSLayer, Idle
<1>2. KindOK'
  BY DEF AddFSLayer, KindOK
<1>3. DiskOK' /\ FileOK' /\ FdOK'
  BY <1>1 DEF IInv, DiskOK, FileOK, FdOK, OpenFiles, DescriptorsAccounted
<1>4. ReplyOK'
  BY <1>1 DEF ReplyOK, ReadsWhatIsThere, WritesWhatWasGiven, Done
<1> QED
  BY <1>1, <1>2, <1>3, <1>4 DEF IInv, TransferOK
-----------------------------------------------------------------------------
(* Changes of the storage: names, and the length of a file.                     *)

(* A change of the storage that leaves every open file a file.                   *)
LEMMA DiskChange ==
  ASSUME IInv, DiskOK', UNCHANGED <<layer, file, descriptors, dropped>>, transfer' = Nil,
         \A f \in OpenFiles : disk'[file[f].name].type = "file",
         NEW op \in AllOps, NEW f \in File \cup {Nil}, Deliver(op, f, OK)
  PROVE  IInv'
<1>1. OpenFiles' = OpenFiles /\ KindOK'
  BY DEF OpenFiles, IInv, KindOK, layer
<1>2. FileOK' /\ FdOK'
  BY <1>1 DEF IInv, FileOK, FdOK, DescriptorsAccounted, OpenFiles
<1> QED
  BY <1>1, <1>2, QuietEnd, WordFacts DEF Deliver

(* A call that is refused, or changes the storage so and is answered.            *)
LEMMA NamesStep ==
  ASSUME IInv, Idle, UNCHANGED <<layer, file, descriptors, dropped, transfer>>,
         NEW op \in {"Remove", "Rename", "MakeDir"},
         \/ UNCHANGED disk /\ \E w \in Words, fault \in BOOLEAN :
                                Answer(op, Nil, w, fault, NoBytes)
         \/ /\ disk' \in [Name -> Entry]
            /\ \A n \in Name : Len(disk'[n].data) <= MaxLen
            /\ \A f \in OpenFiles : disk'[file[f].name].type = "file"
            /\ Deliver(op, Nil, OK)
  PROVE  IInv'
<1>1. transfer' = Nil /\ op \in AllOps
  BY DEF Idle, AllOps, PathOps
<1>2. CASE UNCHANGED disk /\ \E w \in Words, fault \in BOOLEAN :
                               Answer(op, Nil, w, fault, NoBytes)
  <2>1. Still
    BY <1>2 DEF Still
  <2> QED
    BY <1>1, <1>2, <2>1, AnswerKeeps
<1>3. CASE /\ disk' \in [Name -> Entry]
           /\ \A n \in Name : Len(disk'[n].data) <= MaxLen
           /\ \A f \in OpenFiles : disk'[file[f].name].type = "file"
           /\ Deliver(op, Nil, OK)
  <2>1. DiskOK'
    BY <1>3 DEF DiskOK
  <2> QED
    BY <1>1, <1>3, <2>1, DiskChange
<1> QED
  BY <1>2, <1>3

(* What the invariant says of the files.                                       *)
LEMMA DiskFacts ==
  ASSUME IInv
  PROVE  /\ disk \in [Name -> Entry] /\ \A n \in Name : Len(disk[n].data) <= MaxLen
         /\ \A f \in OpenFiles : file[f].name \in Name /\ disk[file[f].name].type = "file"
         /\ Nothing \in Entry /\ Directory \in Entry
         /\ Len(Nothing.data) <= MaxLen /\ Len(Directory.data) <= MaxLen
<1>1. /\ Nothing \in Entry /\ Directory \in Entry
      /\ Len(Nothing.data) <= MaxLen /\ Len(Directory.data) <= MaxLen
  BY EmptySeq, FileOpsAssumption DEF Nothing, Directory, Entry
<1> QED
  BY <1>1, HandleFacts DEF IInv, DiskOK, Handles

(* A name is removed only while no handle is open on it.                       *)
LEMMA RemoveStep ==
  ASSUME IInv, NEW n \in Name, FSARemove(n)
  PROVE  IInv'
<1> DEFINE new == [disk EXCEPT ![n] = Nothing]
           possible == Missing(n) = {} /\ ~InUse(n)
<1>1. ASSUME possible
      PROVE  /\ new \in [Name -> Entry] /\ \A m \in Name : Len(new[m].data) <= MaxLen
             /\ \A f \in OpenFiles : new[file[f].name].type = "file"
  BY <1>1, DiskFacts DEF InUse
<1>2. /\ Idle /\ UNCHANGED <<layer, file, descriptors, dropped, transfer>>
      /\ \/ UNCHANGED disk /\ \E w \in Words, fault \in BOOLEAN :
                                Answer("Remove", Nil, w, fault, NoBytes)
         \/ possible /\ disk' = new /\ Deliver("Remove", Nil, OK)
  <2>1. \A e : Error(PathError(e)) \in Words /\ (e = "EIO") \in BOOLEAN
    BY ErrorNames, WordFacts
  <2> QED
    BY <2>1, ErrorNames, WordFacts DEF FSARemove, ChangeNames, Deliver
<1> HIDE DEF possible, new
<1> QED
  BY <1>1, <1>2, NamesStep

(* The same for renaming it.                                                   *)
LEMMA RenameStep ==
  ASSUME IInv, NEW n \in Name, NEW m \in Name, FSARename(n, m)
  PROVE  IInv'
<1> DEFINE new == [disk EXCEPT ![m] = disk[n], ![n] = Nothing]
           possible == Missing(n) = {} /\ Present(m) = {} /\ ~InUse(n)
<1>1. ASSUME possible
      PROVE  /\ new \in [Name -> Entry] /\ \A i \in Name : Len(new[i].data) <= MaxLen
             /\ \A f \in OpenFiles : new[file[f].name].type = "file"
  <2>1. disk[m].type = "none" /\ n # m
    BY <1>1 DEF Present, FSARename
  <2>2. new[n] = Nothing /\ new[m] = disk[n]
        /\ \A i \in Name : i # n /\ i # m => new[i] = disk[i]
    BY <2>1, DiskFacts
  <2>3. new \in [Name -> Entry]
    BY DiskFacts
  <2>4. \A f \in OpenFiles : file[f].name # n /\ file[f].name # m
    BY <1>1, <2>1, DiskFacts DEF InUse
  <2> HIDE DEF new
  <2> QED
    BY <2>2, <2>3, <2>4, DiskFacts
<1>2. /\ Idle /\ UNCHANGED <<layer, file, descriptors, dropped, transfer>>
      /\ \/ UNCHANGED disk /\ \E w \in Words, fault \in BOOLEAN :
                                Answer("Rename", Nil, w, fault, NoBytes)
         \/ possible /\ disk' = new /\ Deliver("Rename", Nil, OK)
  <2>1. \A e : Error(PathError(e)) \in Words /\ (e = "EIO") \in BOOLEAN
    BY ErrorNames, WordFacts
  <2> QED
    BY <2>1, ErrorNames, WordFacts DEF FSARename, ChangeNames, Deliver
<1> HIDE DEF possible, new
<1> QED
  BY <1>1, <1>2, NamesStep

(* A new directory takes only a name that is free.                             *)
LEMMA MakeDirStep ==
  ASSUME IInv, NEW n \in Name, FSAMakeDir(n)
  PROVE  IInv'
<1> DEFINE new == [disk EXCEPT ![n] = Directory]
           possible == Present(n) = {}
<1>1. ASSUME possible
      PROVE  /\ new \in [Name -> Entry] /\ \A m \in Name : Len(new[m].data) <= MaxLen
             /\ \A f \in OpenFiles : new[file[f].name].type = "file"
  <2>1. disk[n].type = "none"
    BY <1>1 DEF Present
  <2> QED
    BY <2>1, DiskFacts
<1>2. /\ Idle /\ UNCHANGED <<layer, file, descriptors, dropped, transfer>>
      /\ \/ UNCHANGED disk /\ \E w \in Words, fault \in BOOLEAN :
                                Answer("MakeDir", Nil, w, fault, NoBytes)
         \/ possible /\ disk' = new /\ Deliver("MakeDir", Nil, OK)
  <2>1. \A e : Error(MakeDirError(e)) \in Words /\ (e = "EIO") \in BOOLEAN
    BY ErrorNames, WordFacts
  <2> QED
    BY <2>1, ErrorNames, WordFacts DEF FSAMakeDir, ChangeNames, Deliver
<1> HIDE DEF possible, new
<1> QED
  BY <1>1, <1>2, NamesStep

(* Cutting a file leaves it inside the bounds.                                 *)
LEMMA TruncateStep ==
  ASSUME IInv, NEW f \in File, FSATruncateFile(f)
  PROVE  IInv'
<1> USE WordFacts, ErrorNames, OpNames
<1>1. Idle /\ transfer' = Nil /\ f \in OpenFiles /\ "TruncateFile" \in AllOps
  BY DEF FSATruncateFile, Idle, OpenFiles, AllOps, HandleOps
<1>2. CASE UNCHANGED disk /\ \E w \in Words, fault \in BOOLEAN :
                               Answer("TruncateFile", f, w, fault, NoBytes)
  <2>1. Still
    BY <1>2 DEF FSATruncateFile, Still
  <2> QED
    BY <1>1, <1>2, <2>1, AnswerKeeps
<1>3. CASE /\ file[f].pos <= MaxLen /\ Deliver("TruncateFile", f, OK)
           /\ disk' = [disk EXCEPT ![file[f].name].data = Resized(@, file[f].pos)]
  <2> DEFINE n == file[f].name
             data == Resized(disk[n].data, file[f].pos)
             new == [disk[n] EXCEPT !.data = data]
  <2>1. n \in Name /\ disk[n] \in Entry /\ file[f].pos \in Nat /\ disk[n].type = "file"
    BY <1>1, HandleFacts, FileOpsAssumption DEF Handles
  <2>2. data \in Seq(Nat) /\ Len(data) <= MaxLen
    BY <1>3, <2>1, ResizedFacts DEF Entry
  <2>3. new \in Entry /\ new.data = data /\ new.type = "file"
    BY <2>1, <2>2 DEF Entry
  <2>4. disk' = [disk EXCEPT ![n] = new]
    BY <1>3
  <2> HIDE DEF n, data, new
  <2>5. DiskOK' /\ \A m \in Name : disk[m].type = "file" => disk'[m].type = "file"
    BY <2>1, <2>2, <2>3, <2>4, DiskFacts DEF DiskOK
  <2>6. \A g \in OpenFiles : disk'[file[g].name].type = "file"
    BY <2>5, DiskFacts
  <2>7. UNCHANGED <<layer, file, descriptors, dropped>>
    BY DEF FSATruncateFile
  <2> QED
    BY <1>1, <1>3, <2>5, <2>6, <2>7, DiskChange
<1> QED
  BY <1>2, <1>3 DEF FSATruncateFile, Deliver, Fail
-----------------------------------------------------------------------------
(* Transfers: how a loop starts, goes on and ends.                              *)

LEMMA ProductFacts ==
  ASSUME NEW size \in Nat, NEW count \in Nat
  PROVE  /\ Product(size, count) \in Nat /\ size * count \in Nat
         /\ Product(size, count) <= size * count
<1>1. \A x, w \in Nat : w # 0 => x % w \in Nat /\ x % w <= x
  OBVIOUS
<1>2. size * count \in Nat
  OBVIOUS
<1> QED
  BY <1>1, <1>2, FileOpsAssumption DEF Product

(* An answer of a read that has put the right bytes into the buffer.             *)
LEMMA ReadReply ==
  ASSUME NEW f \in File, NEW w \in Words, NEW fault \in BOOLEAN, NEW t \in Bytes,
         Len(t.buf) <= t.size * t.count,
         t.buf = SubSeq(t.prior, t.from + 1, t.from + Len(t.buf)),
         Answer("ReadFile", f, w, fault, t)
  PROVE  ReplyOK'
<1>1. reply' \in Replies /\ Honest(reply'.code) /\ reply'.op = "ReadFile" /\ reply'.bytes = t
  BY AnswerFacts, OpNames
<1>2. ReadsWhatIsThere'
  BY <1>1 DEF ReadsWhatIsThere
<1>3. WritesWhatWasGiven'
  BY <1>1 DEF WritesWhatWasGiven, Done
<1> QED
  BY <1>1, <1>2, <1>3 DEF ReplyOK

(* A call on a handle starts a loop at the place where the handle is.             *)
LEMMA StartReadStep ==
  ASSUME IInv, Idle, NEW f \in OpenFiles, NEW api \in APIs, NEW size \in Nat,
         NEW count \in Nat, NEW p \in 0 .. MaxPos,
         StartRead(api, f, size, count, p), UNCHANGED <<layer, disk>>,
         OpenFiles' = OpenFiles, file'[f].name = file[f].name, file'[f].pos = p,
         FileOK', FdOK'
  PROVE  IInv'
<1> DEFINE t == Started(api, size, count, p, Data(f))
<1>1. /\ KindOK' /\ DiskOK' /\ f \in File /\ Data(f) \in Seq(Nat) /\ p \in Nat
      /\ transfer = Nil /\ reply = Nil
  BY HandleFacts, FileOpsAssumption DEF IInv, KindOK, DiskOK, layer, Idle
<1>2. /\ t \in Bytes /\ t.size = size /\ t.count = count /\ t.buf = <<>> /\ t.from = p
      /\ t.prior = Data(f) /\ Len(t.buf) = 0
  BY <1>1, StartedType, EmptySeq DEF Started
<1>3. t.buf = SubSeq(t.prior, t.from + 1, t.from + Len(t.buf))
  BY <1>1, <1>2, SubSeqEmpty
<1>4. Product(size, count) \in Nat /\ size * count \in Nat /\ Product(size, count) <= size * count
  BY ProductFacts
<1> HIDE DEF t
<1>5. CASE Answer("ReadFile", f, OK, FALSE, t) /\ UNCHANGED transfer
  <2>1. Len(t.buf) <= t.size * t.count
    BY <1>2, <1>4
  <2>2. ReplyOK'
    BY <1>1, <1>2, <1>3, <1>5, <2>1, ReadReply, WordFacts
  <2> QED
    BY <1>1, <1>5, <2>2 DEF IInv, TransferOK
<1>6. CASE Deliver("ReadFile", f, Error("INVALID_BUFFER")) /\ UNCHANGED transfer
  <2>1. ReplyOK'
    BY <1>1, <1>6, QuietReply, WordFacts, ErrorNames, OpNames DEF Deliver
  <2> QED
    BY <1>1, <1>6, <2>1 DEF IInv, TransferOK
<1>7. CASE Begin("ReadFile", f, t, p) /\ UNCHANGED reply
  <2>1. transfer' = [op |-> "ReadFile", f |-> f, bytes |-> t, pos0 |-> p,
                     left |-> Product(size, count)]
    BY <1>2, <1>7 DEF Begin
  <2>2. transfer' \in Transfer /\ transfer'.f \in OpenFiles'
    BY <1>1, <1>2, <1>4, <2>1 DEF Transfer
  <2>3. /\ transfer'.op = "ReadFile" /\ transfer'.f = f /\ transfer'.bytes = t
        /\ transfer'.left = Product(size, count)
    BY <2>1
  <2>4. LoopOK'
    <3>1. Data(f) = disk'[file'[f].name].data
      BY DEF Data
    <3>2. 0 + Product(size, count) <= size * count /\ p = p + 0
      BY <1>1, <1>4
    <3> QED
      BY <1>2, <1>3, <2>3, <3>1, <3>2 DEF LoopOK, Data
  <2>5. ReplyOK'
    BY <1>1, <1>7 DEF ReplyOK, ReadsWhatIsThere, WritesWhatWasGiven, Done
  <2> QED
    BY <1>1, <1>7, <2>2, <2>4, <2>5 DEF IInv, TransferOK
<1> QED
  BY <1>5, <1>6, <1>7 DEF StartRead, t

(* A read that begins its loop has read nothing yet.                           *)
LEMMA ReadFileStep ==
  ASSUME IInv, NEW f \in File, NEW api \in APIs, NEW size \in Size, NEW count \in Count,
         FSAReadFile(api, f, size, count)
  PROVE  IInv'
<1>1. f \in OpenFiles /\ Idle /\ size \in Nat /\ count \in Nat /\ OpenFiles' = OpenFiles
  BY FileOpsAssumption DEF FSAReadFile, OpenFiles
<1>2. file[f].pos \in 0 .. MaxPos
  BY <1>1, HandleFacts DEF Handles
<1>3. FileOK' /\ FdOK'
  BY <1>1 DEF FSAReadFile, IInv, FileOK, FdOK, DescriptorsAccounted
<1> QED
  BY <1>1, <1>2, <1>3, StartReadStep DEF FSAReadFile

(* The same behind a seek to the given position.                               *)
LEMMA ReadFileWithPosStep ==
  ASSUME IInv, NEW f \in File, NEW api \in APIs, NEW size \in Size, NEW count \in Count,
         NEW pos \in Positions, FSAReadFileWithPos(api, f, size, count, pos)
  PROVE  IInv'
<1>1. f \in OpenFiles /\ Idle /\ size \in Nat /\ count \in Nat /\ pos \in 0 .. MaxPos
  BY FileOpsAssumption DEF FSAReadFileWithPos, OpenFiles
<1>2. CASE MoveTo(f, pos) /\ StartRead(api, f, size, count, pos)
  <2>1. /\ OpenFiles' = OpenFiles /\ file'[f].name = file[f].name /\ file'[f].pos = pos
    BY <1>1, <1>2, MoveFacts
  <2>2. FileOK' /\ FdOK'
    BY <1>1, <1>2, MoveKeeps DEF FSAReadFileWithPos
  <2> QED
    BY <1>1, <1>2, <2>1, <2>2, StartReadStep DEF FSAReadFileWithPos
<1>3. CASE Fail("ReadFile", f, "MEDIA_ERROR") /\ UNCHANGED <<file, transfer>>
  <2>1. Still
    BY <1>3 DEF FSAReadFileWithPos, Still
  <2> QED
    BY <1>1, <1>3, <2>1, AnswerKeeps, WordFacts, ErrorNames, OpNames DEF Fail
<1> QED
  BY <1>2, <1>3 DEF FSAReadFileWithPos

(* A write that begins its loop has written nothing yet.                       *)
LEMMA WriteFileStep ==
  ASSUME IInv, NEW f \in File, NEW api \in APIs, NEW size \in Size, NEW count \in Count,
         FSAWriteFile(api, f, size, count)
  PROVE  IInv'
<1> DEFINE at == At(f)
           t == Started(api, size, count, at, Data(f))
<1>1. /\ f \in OpenFiles /\ Idle /\ size \in Nat /\ count \in Nat
      /\ UNCHANGED <<layer, disk, file, descriptors, dropped>> /\ transfer = Nil /\ reply = Nil
  BY FileOpsAssumption DEF FSAWriteFile, OpenFiles, Idle
<1>2. /\ f \in File /\ Data(f) \in Seq(Nat) /\ file[f].pos \in 0 .. MaxPos
      /\ file[f].pos \in Nat /\ at \in Nat
  BY <1>1, HandleFacts, LenProperties, FileOpsAssumption DEF Handles, At
<1>3. CASE ~pIsWriteable /\ Deliver("WriteFile", f, Error("ACCESS_ERROR"))
           /\ UNCHANGED transfer
  <2>1. Still
    BY <1>1, <1>3 DEF Still
  <2> QED
    BY <1>1, <1>2, <1>3, <2>1, AnswerKeeps, WordFacts, ErrorNames, OpNames DEF Deliver
<1>4. CASE pIsWriteable /\ Begin("WriteFile", f, t, file[f].pos) /\ UNCHANGED reply
  <2>1. /\ t \in Bytes /\ t.size = size /\ t.count = count /\ t.buf = <<>> /\ t.from = at
        /\ t.prior = Data(f) /\ Len(t.buf) = 0
    BY <1>1, <1>2, StartedType, EmptySeq DEF Started
  <2>2. Product(size, count) \in Nat /\ Product(size, count) <= size * count
        /\ size * count \in Nat
    BY <1>1, ProductFacts
  <2> HIDE DEF t, at
  <2>3. transfer' = [op |-> "WriteFile", f |-> f, bytes |-> t, pos0 |-> file[f].pos,
                     left |-> Product(size, count)]
    BY <1>4, <2>1 DEF Begin
  <2>4. transfer' \in Transfer /\ transfer'.f \in OpenFiles'
    BY <1>1, <1>2, <2>1, <2>2, <2>3 DEF Transfer, OpenFiles
  <2>5. /\ transfer'.op = "WriteFile" /\ transfer'.f = f /\ transfer'.bytes = t
        /\ transfer'.left = Product(size, count)
    BY <2>3
  <2>6. LoopOK'
    <3>1. Data(f) = disk'[file'[f].name].data /\ At(f)' = At(f)
      BY <1>1 DEF Data, At
    <3>2. 0 + Product(size, count) <= size * count /\ at = at + 0
      BY <1>2, <2>2
    <3>3. Numbered(0, 0) = <<>> /\ Overlay(Data(f), at, <<>>) = Data(f)
      BY NumberedFacts DEF Overlay
    <3>4. kind' = "save"
      BY <1>1, <1>4 DEF pIsWriteable, layer
    <3>5. disk'[file'[f].name].data = Overlay(t.prior, t.from, t.buf) /\ t.buf = Numbered(0, Len(t.buf))
      BY <2>1, <3>1, <3>3
    <3>6. At(f) = t.from + Len(t.buf)
      BY <1>2, <2>1, <3>2 DEF at
    <3> QED
      BY <1>1, <2>1, <2>5, <3>2, <3>4, <3>5, <3>6 DEF LoopOK, Data, At
  <2>7. KindOK' /\ DiskOK' /\ FileOK' /\ FdOK'
    BY <1>1 DEF IInv, KindOK, DiskOK, FileOK, FdOK, layer, OpenFiles, DescriptorsAccounted
  <2>8. ReplyOK' /\ reply' = Nil
    BY <1>1, <1>4 DEF ReplyOK, ReadsWhatIsThere, WritesWhatWasGiven, Done
  <2> QED
    BY <2>4, <2>6, <2>7, <2>8 DEF IInv, TransferOK
<1> QED
  BY <1>3, <1>4 DEF FSAWriteFile, At

(* What holds while a loop runs.                                               *)
LEMMA LoopFacts ==
  ASSUME IInv, transfer # Nil
  PROVE  /\ transfer \in Transfer /\ transfer.f \in OpenFiles /\ reply = Nil /\ LoopOK
         /\ transfer.bytes \in Bytes /\ transfer.left \in Nat
         /\ transfer.bytes.size \in Nat /\ transfer.bytes.count \in Nat
         /\ transfer.bytes.buf \in Seq(Nat) /\ Len(transfer.bytes.buf) \in Nat
         /\ transfer.bytes.from \in Nat /\ transfer.bytes.prior \in Seq(Nat)
         /\ Len(transfer.bytes.buf) <= transfer.bytes.size * transfer.bytes.count
<1>1. /\ transfer \in Transfer /\ transfer.f \in OpenFiles /\ reply = Nil /\ LoopOK
  BY DEF IInv, TransferOK
<1>2. transfer.bytes \in Bytes /\ transfer.left \in Nat
  BY <1>1 DEF Transfer
<1>3. /\ transfer.bytes.size \in Nat /\ transfer.bytes.count \in Nat
      /\ transfer.bytes.buf \in Seq(Nat) /\ Len(transfer.bytes.buf) \in Nat
      /\ transfer.bytes.from \in Nat /\ transfer.bytes.prior \in Seq(Nat)
  BY <1>2 DEF Bytes
<1>4. Len(transfer.bytes.buf) <= transfer.bytes.size * transfer.bytes.count
  <2>1. /\ transfer.bytes.size * transfer.bytes.count \in Nat
        /\ Len(transfer.bytes.buf) + transfer.left
             <= transfer.bytes.size * transfer.bytes.count
    BY <1>1, <1>3 DEF LoopOK
  <2> QED
    BY <1>2, <1>3, <2>1
<1> QED
  BY <1>1, <1>2, <1>3, <1>4

(* What the loops answer is the number of whole elements.                      *)
LEMMA ElementsFacts ==
  ASSUME NEW t \in Bytes, NEW w \in Elements(t)
  PROVE  /\ w \in Words
         /\ w.extra = "none" /\ t.size > 0 => w = Number(Len(t.buf) \div t.size)
         /\ w.extra = "none" => w.name = "OK"
         /\ w.extra # "none" /\ t.size > 0 => Len(t.buf) \div t.size >= Sign
<1>0. ASSUME NEW n \in Nat, w \in Results(n)
      PROVE  /\ w \in Words /\ (w.extra = "none" => w = Number(n) /\ w.name = "OK")
             /\ w.extra # "none" => n >= Sign
  <2>1. CASE n >= Sign
    <3>1. w \in Misread
      BY <1>0, <2>1 DEF Results, IsNegative
    <3>2. w.extra # "none" /\ w \in Words
      BY <3>1, MisreadAssumption DEF Extra, Words
    <3> QED
      BY <2>1, <3>2
  <2>2. CASE ~(n >= Sign)
    BY <1>0, <2>2, WordFacts DEF Results, IsNegative, Number
  <2> QED
    BY <2>1, <2>2
<1>1. t.size \in Nat /\ Len(t.buf) \in Nat
  BY LenProperties DEF Bytes
<1>2. CASE t.size = 0
  <2>1. PICK n \in Nat : w \in Results(n)
    BY <1>2, FileOpsAssumption DEF Elements
  <2> QED
    BY <1>2, <2>1, <1>0
<1>3. CASE t.size # 0
  <2> DEFINE n == Len(t.buf) \div t.size
  <2>1. w \in Results(n) /\ n \in Nat
    BY <1>1, <1>3 DEF Elements
  <2> HIDE DEF n
  <2>2. w \in Words /\ (w.extra = "none" => w = Number(n)) /\ (w.extra # "none" => n >= Sign)
        /\ (w.extra = "none" => w.name = "OK")
    BY <2>1, <1>0
  <2> QED
    BY <2>2 DEF n
<1> QED
  BY <1>2, <1>3

(* A loop ends: what it has moved is what the answer is about.                   *)
LEMMA LoopEnds ==
  ASSUME IInv, transfer # Nil, UNCHANGED <<layer, disk, file, descriptors, dropped>>,
         NEW w \in Words, NEW fault \in BOOLEAN, EndTransfer(w, fault),
         \/ \E e \in FSErrorName \ {"OK"} : w = Error(e)
         \/ w \in Elements(transfer.bytes)
  PROVE  IInv'
<1> DEFINE t == transfer.bytes
           f == transfer.f
<1>1. /\ LoopOK /\ f \in OpenFiles /\ f \in File /\ t \in Bytes
      /\ Len(t.buf) <= t.size * t.count /\ Len(t.buf) \in Nat /\ t.size \in Nat
      /\ transfer.op \in {"ReadFile", "WriteFile"} /\ transfer' = Nil
  BY LoopFacts, HandleFacts DEF Transfer, EndTransfer
<1>2. Answer(transfer.op, f, w, fault, t)
  BY DEF EndTransfer
<1>3. ReplyOK'
  <2>1. CASE transfer.op = "ReadFile"
    <3>1. t.buf = SubSeq(t.prior, t.from + 1, t.from + Len(t.buf))
      BY <1>1, <2>1 DEF LoopOK
    <3>2. Answer("ReadFile", f, w, fault, t)
      BY <1>2, <2>1
    <3> HIDE DEF t, f
    <3> QED
      BY <1>1, <3>1, <3>2, ReadReply
  <2>2. CASE transfer.op = "WriteFile"
    <3>1. /\ reply' \in Replies /\ Honest(reply'.code) /\ reply'.op = "WriteFile"
          /\ reply'.f = f /\ reply'.bytes = t
          /\ reply'.by = "layer" => reply'.code = Masked(w)
      <4>1. Answer("WriteFile", f, w, fault, t)
        BY <1>2, <2>2
      <4> HIDE DEF t, f
      <4> QED
        BY <1>1, <4>1, AnswerFacts, OpNames
    <3>2. Data(f) = Overlay(t.prior, t.from, Numbered(0, Len(t.buf)))
      BY <1>1, <2>2 DEF LoopOK
    <3>3. Numbered(0, Len(t.buf)) = [i \in 1 .. Len(t.buf) |-> i]
      BY <1>1 DEF Numbered
    <3>4. t.size > 0 /\ Masked(w).extra = "none" =>
            Masked(w).count = Len(t.buf) \div t.size
      <4>1. CASE \E e \in FSErrorName \ {"OK"} : w = Error(e)
        BY <4>1 DEF Error, Masked
      <4>2. CASE w \in Elements(t)
        <5>1. /\ w.extra = "none" /\ t.size > 0 => w = Number(Len(t.buf) \div t.size)
              /\ w \in Words
          BY <1>1, <4>2, ElementsFacts
        <5> QED
          BY <5>1, HonestMasked DEF Number
      <4> QED
        BY <4>1, <4>2
    <3>5. Data(f) = disk'[file'[f].name].data
      BY DEF Data
    <3>6. ReadsWhatIsThere'
      BY <3>1 DEF ReadsWhatIsThere, Done
    <3> HIDE DEF t, f
    <3>7. WritesWhatWasGiven'
      BY <1>1, <3>1, <3>2, <3>3, <3>4, <3>5 DEF WritesWhatWasGiven, Done, Data
    <3> QED
      BY <3>1, <3>6, <3>7 DEF ReplyOK
  <2> QED
    BY <1>1, <2>1, <2>2
<1>4. KindOK' /\ DiskOK' /\ FileOK' /\ FdOK'
  BY DEF IInv, KindOK, DiskOK, FileOK, FdOK, layer, OpenFiles, DescriptorsAccounted
<1> QED
  BY <1>1, <1>3, <1>4 DEF IInv, TransferOK
(* A read() that returns some bytes.                                           *)
LEMMA ReadMore ==
  ASSUME IInv, transfer # Nil, transfer.op = "ReadFile",
         UNCHANGED <<layer, disk, descriptors, dropped, reply>>,
         NEW k \in Nat \ {0}, k <= transfer.left,
         file[transfer.f].pos + k <= Len(Data(transfer.f)),
         Advance(SubSeq(Data(transfer.f), file[transfer.f].pos + 1, file[transfer.f].pos + k)),
         MoveTo(transfer.f, file[transfer.f].pos + k)
  PROVE  IInv'
<1> DEFINE t == transfer.bytes
           f == transfer.f
           n == Len(t.buf)
           pos == file[f].pos
           more == SubSeq(Data(f), pos + 1, pos + k)
<1>1. /\ LoopOK /\ f \in OpenFiles /\ f \in File /\ t \in Bytes /\ n \in Nat
      /\ transfer.left \in Nat /\ t.from \in Nat /\ transfer \in Transfer /\ reply = Nil
  BY LoopFacts, HandleFacts
<1>2. /\ t.prior = Data(f) /\ pos = t.from + n
      /\ t.buf = SubSeq(t.prior, t.from + 1, t.from + n)
  BY <1>1 DEF LoopOK
<1>2a. n + transfer.left <= t.size * t.count
  BY <1>1 DEF LoopOK
<1>3. /\ Data(f) \in Seq(Nat) /\ Len(Data(f)) <= MaxLen /\ Len(Data(f)) \in Nat
  BY <1>1, HandleFacts, LenProperties
<1>4. /\ t.buf \o more = SubSeq(t.prior, t.from + 1, t.from + n + k)
      /\ t.buf \o more \in Seq(Nat) /\ Len(t.buf \o more) = n + k /\ Len(more) = k
  <2> DEFINE data == Data(f)
             from == t.from
  <2>1. data \in Seq(Nat) /\ from \in Nat /\ n \in Nat /\ from + n + k <= Len(data)
    BY <1>1, <1>2, <1>3
  <2> HIDE DEF n, t, f, data, from
  <2>2. /\ SubSeq(data, from + 1, from + n) \o SubSeq(data, from + n + 1, from + n + k)
              = SubSeq(data, from + 1, from + n + k)
         /\ SubSeq(data, from + 1, from + n + k) \in Seq(Nat)
         /\ Len(SubSeq(data, from + 1, from + n + k)) = n + k
         /\ Len(SubSeq(data, from + n + 1, from + n + k)) = k
    BY <2>1, ReadInTwo
  <2> QED
    BY <1>2, <2>2 DEF data, from
<1>5. pos + k \in 0 .. MaxPos
  <2> DEFINE len == Len(Data(f))
  <2>1. pos \in Nat
    BY <1>1, HandleFacts, FileOpsAssumption DEF Handles
  <2>2. pos + k <= len /\ len \in Nat /\ len <= MaxLen
    BY <1>3
  <2>3. MaxLen \in Nat /\ MaxPos \in Nat /\ MaxLen <= MaxPos
    BY FileOpsAssumption
  <2> HIDE DEF len, pos
  <2> QED
    BY <2>1, <2>2, <2>3
<1>6. /\ file'[f].pos = pos + k /\ OpenFiles' = OpenFiles /\ file'[f].name = file[f].name
      /\ FileOK' /\ FdOK' /\ DiskOK' /\ KindOK'
  <2> DEFINE to == pos + k
  <2>1. f \in OpenFiles /\ to \in 0 .. MaxPos /\ MoveTo(f, to)
    BY <1>1, <1>5
  <2> HIDE DEF f, to
  <2>2. /\ file'[f].pos = to /\ OpenFiles' = OpenFiles
        /\ \A g \in OpenFiles : file'[g].name = file[g].name
    BY <2>1, MoveFacts
  <2>3. FileOK' /\ FdOK' /\ DiskOK'
    BY <2>1, MoveKeeps
  <2>4. KindOK'
    BY DEF IInv, KindOK, layer
  <2> QED
    BY <2>1, <2>2, <2>3, <2>4 DEF to
<1>7. transfer' = [transfer EXCEPT !.bytes.buf = t.buf \o more, !.left = @ - k]
  BY <1>4 DEF Advance
<1> DEFINE new == [t EXCEPT !.buf = t.buf \o more]
<1>8. /\ transfer'.op = "ReadFile" /\ transfer'.f = f /\ transfer'.bytes = new
      /\ transfer'.left = transfer.left - k /\ transfer' \in Transfer
  <2>1. new \in Bytes
    BY <1>1, <1>4 DEF Bytes
  <2>2. transfer.left - k \in Nat
    BY <1>1
  <2>3. transfer' = [op |-> transfer.op, f |-> f, bytes |-> new, left |-> transfer.left - k,
                     pos0 |-> transfer.pos0]
    BY <1>1, <1>7 DEF Transfer
  <2> QED
    BY <1>1, <2>1, <2>2, <2>3 DEF Transfer
<1>9. /\ new.buf = t.buf \o more /\ new.size = t.size /\ new.count = t.count
      /\ new.from = t.from /\ new.prior = t.prior
  BY <1>1 DEF Bytes
<1>10. LoopOK'
  <2>1. Data(f) = disk'[file'[f].name].data
    BY <1>6 DEF Data
  <2>2. /\ (n + k) + (transfer.left - k) = n + transfer.left
        /\ pos + k = t.from + (n + k) /\ t.from + n + k = t.from + (n + k)
    BY <1>1, <1>2
  <2> HIDE DEF n, t, f, new, more, pos
  <2> QED
    BY <1>2, <1>2a, <1>4, <1>6, <1>8, <1>9, <2>1, <2>2 DEF LoopOK, Data
<1>11. ReplyOK' /\ reply' = Nil
  BY <1>1 DEF ReplyOK, ReadsWhatIsThere, WritesWhatWasGiven, Done
<1> QED
  BY <1>1, <1>6, <1>8, <1>10, <1>11 DEF IInv, TransferOK

(* One read(): its bytes are the file's, behind those read before.             *)
LEMMA ReadSomeStep == IInv /\ ReadSome => IInv'
<1> SUFFICES ASSUME IInv, ReadSome PROVE IInv'
  OBVIOUS
<1> DEFINE f == transfer.f
           pos == file[f].pos
           rest == IF Len(Data(f)) > pos THEN Len(Data(f)) - pos ELSE 0
<1>1. /\ transfer # Nil /\ transfer.op = "ReadFile" /\ f \in OpenFiles
      /\ UNCHANGED <<layer, disk, descriptors, dropped>> /\ transfer.bytes \in Bytes
  BY LoopFacts DEF ReadSome
<1>2. pos \in Nat /\ Len(Data(f)) \in Nat /\ file[f].read \in BOOLEAN
  BY <1>1, HandleFacts, LenProperties, FileOpsAssumption DEF Handles
<1>3. ASSUME NEW w \in Elements(transfer.bytes), EndTransfer(w, FALSE), UNCHANGED file
      PROVE  IInv'
  <2>1. w \in Words
    BY <1>1, ElementsFacts
  <2> QED
    BY <1>1, <1>3, <2>1, LoopEnds
<1>4. CASE EndTransfer(Error(ReadError(f)), file[f].read) /\ UNCHANGED file
  <2>1. Error(ReadError(f)) \in Words /\ ReadError(f) \in FSErrorName \ {"OK"}
    BY ErrorNames, WordFacts
  <2> QED
    BY <1>1, <1>2, <1>4, <2>1, LoopEnds
<1>5. ASSUME NEW k \in 1 .. rest, k <= transfer.left, MoveTo(f, pos + k), UNCHANGED reply,
             Advance(SubSeq(Data(f), pos + 1, pos + k))
      PROVE  IInv'
  <2>1. k \in Nat \ {0} /\ pos + k <= Len(Data(f))
    BY <1>2
  <2> QED
    BY <1>1, <1>5, <2>1, ReadMore
<1> QED
  BY <1>3, <1>4, <1>5 DEF ReadSome
(* A write() that takes some bytes.                                            *)
LEMMA WriteMore ==
  ASSUME IInv, transfer # Nil, transfer.op = "WriteFile",
         UNCHANGED <<layer, descriptors, dropped, reply>>,
         NEW k \in Nat \ {0}, k <= transfer.left, At(transfer.f) + k <= MaxLen,
         disk' = [disk EXCEPT ![file[transfer.f].name].data =
                    Overlay(@, At(transfer.f), Numbered(Len(transfer.bytes.buf), k))],
         Advance(Numbered(Len(transfer.bytes.buf), k)),
         MoveTo(transfer.f, At(transfer.f) + k)
  PROVE  IInv'
<1> DEFINE t == transfer.bytes
           f == transfer.f
           n == Len(t.buf)
           name == file[f].name
           at == At(f)
           more == Numbered(n, k)
           data == Overlay(Data(f), at, more)
<1>1. /\ LoopOK /\ f \in OpenFiles /\ f \in File /\ t \in Bytes /\ n \in Nat
      /\ transfer.left \in Nat /\ t.from \in Nat /\ transfer \in Transfer /\ reply = Nil
      /\ t.prior \in Seq(Nat)
  BY LoopFacts, HandleFacts
<1>2. /\ t.buf = Numbered(0, n) /\ at = t.from + n /\ kind = "save"
      /\ Data(f) = Overlay(t.prior, t.from, t.buf)
  BY <1>1 DEF LoopOK
<1>1a. n \in Nat /\ n + k \in Nat
  <2>1. n \in Nat
    BY <1>1
  <2> HIDE DEF n
  <2> QED
    BY <2>1
<1>2a. n + transfer.left <= t.size * t.count
  BY <1>1 DEF LoopOK
<1>3. /\ Data(f) \in Seq(Nat) /\ Len(Data(f)) <= MaxLen /\ Len(Data(f)) \in Nat
      /\ name \in Name /\ disk[name] \in Entry /\ disk[name].type = "file"
      /\ disk[name].data = Data(f) /\ file[f].append \in BOOLEAN
  <2>1. f \in OpenFiles
    BY <1>1
  <2> HIDE DEF f
  <2> QED
    BY <2>1, HandleFacts, LenProperties DEF Handles, Data, name
<1>4. at \in Nat /\ more \in Seq(Nat) /\ Len(more) = k
  <2>1. at \in Nat
    BY <1>1, <1>2
  <2> HIDE DEF at, n
  <2>2. n \in Nat
    BY <1>1 DEF n
  <2> QED
    BY <2>1, <2>2, NumberedFacts
<1>5. /\ data \in Seq(Nat) /\ Len(data) <= MaxLen
      /\ file[f].append => Len(data) = at + k
  <2> DEFINE old == Data(f)
  <2>1. old \in Seq(Nat) /\ Len(old) \in Nat /\ Len(old) <= MaxLen /\ at + k <= MaxLen
    BY <1>3
  <2>2. file[f].append => at = Len(old)
    BY DEF At
  <2> HIDE DEF old, at, more
  <2>3. /\ Overlay(old, at, more) \in Seq(Nat)
        /\ Len(Overlay(old, at, more)) = Larger(Len(old), at + k)
    BY <1>4, <2>1, OverlayOf
  <2> HIDE DEF f
  <2>4. /\ Larger(Len(old), at + k) <= MaxLen
        /\ file[f].append => Larger(Len(old), at + k) = at + k
    BY <1>4, <2>1, <2>2 DEF Larger
  <2>5. /\ Overlay(old, at, more) \in Seq(Nat) /\ Len(Overlay(old, at, more)) <= MaxLen
        /\ file[f].append => Len(Overlay(old, at, more)) = at + k
    BY <2>3, <2>4
  <2> QED
    BY <2>5, Zenon DEF old
<1>6. data = Overlay(t.prior, t.from, Numbered(0, n + k))
      /\ Numbered(0, n) \o more = Numbered(0, n + k)
  <2> DEFINE prior == t.prior
             from == t.from
  <2>1. prior \in Seq(Nat) /\ from \in Nat /\ n \in Nat
    BY <1>1
  <2> HIDE DEF prior, from, n
  <2>2. /\ Overlay(Overlay(prior, from, Numbered(0, n)), from + n, Numbered(n, k))
           = Overlay(prior, from, Numbered(0, n + k))
        /\ Numbered(0, n) \o Numbered(n, k) = Numbered(0, n + k)
    BY <2>1, WriteInTwo, NumberedInTwo
  <2> QED
    BY <1>2, <2>2, Zenon DEF prior, from
<1>7. at + k \in 0 .. MaxPos
  <2>1. MaxLen \in Nat /\ MaxPos \in Nat /\ MaxLen <= MaxPos /\ at + k <= MaxLen
    BY FileOpsAssumption
  <2> HIDE DEF at
  <2> QED
    BY <1>4, <2>1
<1> DEFINE entry == [disk[name] EXCEPT !.data = data]
<1>8. /\ disk' \in [Name -> Entry] /\ disk'[name].data = data /\ DiskOK'
      /\ \A m \in Name : disk[m].type = "file" => disk'[m].type = "file"
  <2>1. disk' = [disk EXCEPT ![name] = entry]
    BY <1>3
  <2>2. entry \in Entry /\ entry.data = data /\ entry.type = "file"
    BY <1>3, <1>5 DEF Entry
  <2> HIDE DEF entry, data, name
  <2>3. /\ disk' \in [Name -> Entry] /\ disk'[name] = entry
        /\ \A m \in Name : m # name => disk'[m] = disk[m]
    BY <1>3, <2>1, <2>2, DiskFacts
  <2> QED
    BY <1>5, <2>2, <2>3, DiskFacts DEF DiskOK
<1>9. /\ file'[f].pos = at + k /\ OpenFiles' = OpenFiles /\ file'[f].name = name
      /\ file'[f].append = file[f].append /\ FileOK' /\ FdOK' /\ KindOK'
  <2> DEFINE to == at + k
  <2>1. f \in OpenFiles /\ to \in 0 .. MaxPos /\ MoveTo(f, to)
    BY <1>1, <1>7
  <2> HIDE DEF f, to
  <2>2. /\ file' \in [File -> {Nil} \cup Handles] /\ OpenFiles' = OpenFiles
        /\ \A g \in OpenFiles : file'[g].name = file[g].name
        /\ file'[f].pos = to /\ file'[f].append = file[f].append
    BY <2>1, MoveFacts
  <2>3. \A g \in OpenFiles : file[g].name \in Name /\ disk[file[g].name].type = "file"
    BY DiskFacts
  <2>4. FileOK'
    BY <1>8, <2>2, <2>3 DEF FileOK
  <2>5. FdOK' /\ KindOK'
    BY <2>2 DEF IInv, FdOK, KindOK, layer, DescriptorsAccounted
  <2> QED
    BY <2>1, <2>2, <2>4, <2>5 DEF to
<1> DEFINE new == [t EXCEPT !.buf = t.buf \o more]
<1>10. /\ transfer'.op = "WriteFile" /\ transfer'.f = f /\ transfer'.bytes = new
       /\ transfer'.left = transfer.left - k /\ transfer' \in Transfer
       /\ new.buf = Numbered(0, n + k)
  <2>1. t.buf \o more \in Seq(Nat) /\ t.buf \o more = Numbered(0, n + k)
    <3>1. t.buf \o more = Numbered(0, n + k)
      BY <1>2, <1>6, Zenon
    <3> HIDE DEF n, t, more
    <3>2. Numbered(0, n + k) \in Seq(Nat)
      BY <1>1a, NumberedFacts
    <3> QED
      BY <3>1, <3>2
  <2>2. new \in Bytes
    BY <1>1, <2>1 DEF Bytes
  <2>3. transfer.left - k \in Nat
    BY <1>1
  <2>4. transfer' = [transfer EXCEPT !.bytes.buf = t.buf \o more, !.left = @ - k]
    BY <1>4 DEF Advance
  <2>5. transfer' = [op |-> transfer.op, f |-> f, bytes |-> new, left |-> transfer.left - k,
                     pos0 |-> transfer.pos0]
    BY <1>1, <2>4 DEF Transfer
  <2>6. new.buf = t.buf \o more
    BY <1>1 DEF Bytes
  <2> QED
    BY <1>1, <2>1, <2>2, <2>3, <2>5, <2>6 DEF Transfer
<1>11. new.size = t.size /\ new.count = t.count /\ new.from = t.from /\ new.prior = t.prior
  BY <1>1 DEF Bytes
<1>12. LoopOK'
  <2>1. Len(new.buf) = n + k /\ Numbered(0, Len(new.buf)) = new.buf
    <3>1. new.buf = Numbered(0, n + k)
      BY <1>10, Zenon
    <3> HIDE DEF n, new
    <3>2. Len(Numbered(0, n + k)) = n + k
      BY <1>1a, NumberedFacts
    <3> QED
      BY <3>1, <3>2
  <2>2. /\ (n + k) + (transfer.left - k) = n + transfer.left
        /\ at + k = t.from + (n + k)
    BY <1>1, <1>2
  <2>3. disk'[file'[f].name].data = Overlay(t.prior, t.from, new.buf)
    BY <1>6, <1>8, <1>9, <1>10
  <2>4. (IF file'[f].append THEN Len(disk'[file'[f].name].data) ELSE file'[f].pos)
          = at + k
    BY <1>5, <1>8, <1>9
  <2>5. kind' = "save"
    BY <1>2 DEF layer
  <2> HIDE DEF n, t, f, new, more, at, name, data, entry
  <2> QED
    BY <1>2a, <1>10, <1>11, <2>1, <2>2, <2>3, <2>4, <2>5 DEF LoopOK, Data, At
<1>13. ReplyOK' /\ reply' = Nil
  BY <1>1 DEF ReplyOK, ReadsWhatIsThere, WritesWhatWasGiven, Done
<1> QED
  BY <1>1, <1>8, <1>9, <1>10, <1>12, <1>13 DEF IInv, TransferOK

(* One write(): its bytes go behind those written before.                      *)
LEMMA WriteSomeStep == IInv /\ WriteSome => IInv'
<1> SUFFICES ASSUME IInv, WriteSome PROVE IInv'
  OBVIOUS
<1> DEFINE f == transfer.f
           at == At(f)
<1>1. /\ transfer # Nil /\ transfer.op = "WriteFile" /\ f \in OpenFiles
      /\ UNCHANGED <<layer, descriptors, dropped>> /\ transfer.bytes \in Bytes
      /\ transfer.left \in Nat
  BY LoopFacts DEF WriteSome
<1>2. CASE /\ \E w \in Elements(transfer.bytes) : EndTransfer(w, FALSE)
           /\ UNCHANGED <<disk, file>>
  <2>1. PICK w \in Elements(transfer.bytes) : EndTransfer(w, FALSE)
    BY <1>2
  <2>2. w \in Words
    BY <1>1, ElementsFacts
  <2> QED
    BY <1>1, <1>2, <2>1, <2>2, LoopEnds
<1>3. CASE /\ \E k \in 1 .. transfer.left :
                /\ at + k <= MaxLen
                /\ disk' = [disk EXCEPT ![file[f].name].data =
                              Overlay(@, at, Numbered(Len(transfer.bytes.buf), k))]
                /\ Advance(Numbered(Len(transfer.bytes.buf), k))
                /\ MoveTo(f, at + k) /\ UNCHANGED reply
  <2>1. PICK k \in 1 .. transfer.left :
                /\ at + k <= MaxLen
                /\ disk' = [disk EXCEPT ![file[f].name].data =
                              Overlay(@, at, Numbered(Len(transfer.bytes.buf), k))]
                /\ Advance(Numbered(Len(transfer.bytes.buf), k))
                /\ MoveTo(f, at + k) /\ UNCHANGED reply
    BY <1>3
  <2>2. k \in Nat \ {0} /\ k <= transfer.left
    BY <1>1
  <2> QED
    BY <1>1, <2>1, <2>2, WriteMore
<1>4. CASE /\ \E e \in {"FILE_TOO_BIG", "ACCESS_ERROR", "MEDIA_ERROR"}, fault \in BOOLEAN :
                EndTransfer(Error(e), fault)
           /\ UNCHANGED <<disk, file>>
  <2>1. PICK e \in {"FILE_TOO_BIG", "ACCESS_ERROR", "MEDIA_ERROR"}, fault \in BOOLEAN :
               EndTransfer(Error(e), fault)
    BY <1>4
  <2>2. Error(e) \in Words /\ e \in FSErrorName \ {"OK"}
    BY ErrorNames, WordFacts
  <2> QED
    BY <1>1, <1>4, <2>1, <2>2, LoopEnds
<1> QED
  BY <1>2, <1>3, <1>4 DEF WriteSome, At, NextBytes, Numbered
-----------------------------------------------------------------------------
(* Every step keeps the invariant.                                             *)

LEMMA StutterKeeps == IInv /\ UNCHANGED vars => IInv'
<1> SUFFICES ASSUME IInv, UNCHANGED vars PROVE IInv'
  OBVIOUS
<1>1. /\ UNCHANGED <<kind, marked, disk, file, descriptors, dropped, transfer, reply>>
      /\ OpenFiles' = OpenFiles
  BY DEF vars, OpenFiles
<1>2. KindOK' /\ DiskOK' /\ FileOK' /\ FdOK' /\ ReplyOK'
  BY <1>1 DEF IInv, KindOK, DiskOK, FileOK, FdOK, DescriptorsAccounted,
              ReplyOK, ReadsWhatIsThere, WritesWhatWasGiven, Done, Data
<1>3. TransferOK'
  BY <1>1 DEF IInv, TransferOK, LoopOK, Data, At
<1> QED
  BY <1>2, <1>3 DEF IInv

(* Every action, with its lemma.                                               *)
LEMMA StepIInv == IInv /\ [Next]_vars => IInv'
<1> SUFFICES ASSUME IInv, [Next]_vars PROVE IInv'
  OBVIOUS
<1>1. ASSUME NEW f \in File, OnFile(f) PROVE IInv'
  <2>1. ASSUME NEW n \in Name, NEW mode \in Mode, FSAOpenFile(f, n, mode) PROVE IInv'
    BY <2>1, OpenStep
  <2>2. CASE FSACloseFile(f)
    BY <2>2, CloseStep
  <2>3. CASE FSAIsEof(f)
    BY <2>3, EofStep
  <2>4. CASE FSATruncateFile(f)
    BY <2>4, TruncateStep
  <2>5. CASE FSAFlushFile(f)
    BY <2>5, QuietSteps
  <2>6. ASSUME NEW pos \in Positions, FSASetPosFile(f, pos) PROVE IInv'
    BY <2>6, SeekStep
  <2>7. ASSUME NEW op \in HandleOps, Query(op, f) \/ Unsupported(op, f) \/ UnknownHandle(op, f)
        PROVE  IInv'
    BY <2>7, QuietSteps
  <2>8. ASSUME NEW api \in APIs, NEW size \in Size, NEW count \in Count,
               \/ FSAReadFile(api, f, size, count) \/ FSAWriteFile(api, f, size, count)
               \/ \E op \in {"ReadFile", "WriteFile"} : RefuseTransfer(op, f, api, size, count)
               \/ \E pos \in Positions : FSAReadFileWithPos(api, f, size, count, pos)
        PROVE  IInv'
    BY <2>8, ReadFileStep, WriteFileStep, RefuseStep, ReadFileWithPosStep
  <2> QED
    BY <1>1, <2>1, <2>2, <2>3, <2>4, <2>5, <2>6, <2>7, <2>8 DEF OnFile
<1>2. CASE OnPath
  BY <1>2, RemoveStep, MakeDirStep, RenameStep, QuietSteps DEF OnPath
<1>3. CASE ReadSome \/ WriteSome \/ Receive
  BY <1>3, ReadSomeStep, WriteSomeStep, ReceiveStep
<1>4. CASE \E op \in PathOps \cup HandleOps : ShimRefused(op)
  BY <1>4, QuietSteps DEF AllOps
<1>5. CASE RemoveFSLayer \/ \E k \in Kinds : AddFSLayer(k)
  BY <1>5, RemoveLayerStep, AddLayerStep
<1>6. CASE UNCHANGED vars
  BY <1>6, StutterKeeps
<1> QED
  BY <1>1, <1>2, <1>3, <1>4, <1>5, <1>6 DEF Next

(* The inductive invariant: whatever the application calls, in whatever order,   *)
(* and however the storage behaves, every running loop has moved exactly the    *)
(* bytes that it should have moved by now.                                     *)
THEOREM Invariance == Spec => []IInv
<1>1. Init => IInv
  BY InitIInv
<1>2. IInv /\ [Next]_vars => IInv'
  BY StepIInv
<1> QED
  BY <1>1, <1>2, PTL DEF Spec

(* Positions, lengths and descriptors stay inside their bounds, every handle     *)
(* stands for a file, and one call runs at a time (FSWrapper's state).          *)
THEOREM TypeCorrect == Spec => []TypeOK
<1>1. IInv => TypeOK
  BY DEF IInv, KindOK, DiskOK, FileOK, FdOK, TransferOK, ReplyOK, TypeOK, Handles
<1> QED
  BY <1>1, Invariance, PTL

(* No open that fails, close that fails or layer that is removed loses a         *)
(* descriptor of which the layer or `dropped' does not know (FSWrapper.cpp,     *)
(* FSOpenFileWrapper, FSCloseFileWrapper).                                     *)
THEOREM NoDescriptorLost == Spec => []DescriptorsAccounted
<1>1. IInv => DescriptorsAccounted
  BY DEF IInv, FdOK
<1> QED
  BY <1>1, Invariance, PTL

(* However often read() is short, and wherever it fails, the buffer holds the    *)
(* bytes of the file from the position on (readIntoBuffer).                     *)
THEOREM ReadsAreExact == Spec => []ReadsWhatIsThere
<1>1. IInv => ReadsWhatIsThere
  BY DEF IInv, ReplyOK
<1> QED
  BY <1>1, Invariance, PTL

(* However often write() is short, and wherever it fails, the file holds a       *)
(* prefix of the caller's bytes at its place (writeFromBuffer).                 *)
THEOREM WritesAreExact == Spec => []WritesWhatWasGiven
<1>1. IInv => WritesWhatWasGiven
  BY DEF IInv, ReplyOK
<1> QED
  BY <1>1, Invariance, PTL

(* A step that changes the replacement directory is a step of a save layer:      *)
(* all functions of FSWrapper ask pIsWriteable before they change anything.     *)
LEMMA OnlySaveLayersChange == IInv /\ [Next]_vars => (disk' # disk => kind = "save")
<1> SUFFICES ASSUME IInv, [Next]_vars, disk' # disk PROVE kind = "save"
  OBVIOUS
<1>1. ASSUME NEW n \in Name, NEW mode \in Mode, CanOpen(n, mode), IsFileModeAllowed(mode),
             disk' = [disk EXCEPT ![n] = Opened(disk[n], mode)]
      PROVE  kind = "save"
  <2>1. CASE mode = "r"
    <3>1. disk[n].type = "file" /\ mode \notin Truncates
      BY <1>1, <2>1 DEF CanOpen, Creates, Truncates
    <3>2. Opened(disk[n], mode) = disk[n]
      BY <3>1 DEF Opened
    <3> QED
      BY <1>1, <3>2 DEF IInv, DiskOK
  <2> QED
    BY <1>1, <2>1 DEF IsFileModeAllowed, pIsWriteable
<1>2. ASSUME NEW f \in File, OnFile(f) PROVE kind = "save"
  <2>1. ASSUME NEW n \in Name, NEW mode \in Mode, FSAOpenFile(f, n, mode) PROVE kind = "save"
    BY <1>1, <2>1 DEF FSAOpenFile, Still
  <2>2. CASE FSATruncateFile(f)
    BY <2>2 DEF FSATruncateFile, pIsWriteable
  <2>3. CASE FSACloseFile(f) \/ FSAIsEof(f) \/ FSAFlushFile(f)
             \/ \E pos \in Positions : FSASetPosFile(f, pos)
    BY <2>3 DEF FSACloseFile, FSAIsEof, FSAFlushFile, FSASetPosFile, Still
  <2>4. CASE \E op \in HandleOps : Query(op, f) \/ Unsupported(op, f) \/ UnknownHandle(op, f)
    BY <2>4 DEF Query, Unsupported, UnknownHandle, Still
  <2>5. ASSUME NEW api \in APIs, NEW size \in Size, NEW count \in Count
        PROVE  /\ FSAReadFile(api, f, size, count) => kind = "save"
               /\ FSAWriteFile(api, f, size, count) => kind = "save"
               /\ \A op : RefuseTransfer(op, f, api, size, count) => kind = "save"
               /\ \A pos : FSAReadFileWithPos(api, f, size, count, pos) => kind = "save"
    <3>1. FSAReadFile(api, f, size, count) => disk' = disk
      BY DEF FSAReadFile
    <3>2. FSAWriteFile(api, f, size, count) => disk' = disk
      BY DEF FSAWriteFile
    <3>3. \A op : RefuseTransfer(op, f, api, size, count) => disk' = disk
      BY DEF RefuseTransfer, Still
    <3>4. \A pos : FSAReadFileWithPos(api, f, size, count, pos) => disk' = disk
      BY DEF FSAReadFileWithPos
    <3> QED
      BY <3>1, <3>2, <3>3, <3>4
  <2> QED
    BY <1>2, <2>1, <2>2, <2>3, <2>4, <2>5 DEF OnFile
<1>3. CASE OnPath
  BY <1>3 DEF OnPath, FSARemove, FSAMakeDir, FSAGetStat, FSARename, ChangeNames, OutsideLayer,
              Still, pIsWriteable
<1>4. CASE WriteSome
  <2>1. transfer # Nil /\ transfer.op = "WriteFile"
    BY <1>4 DEF WriteSome
  <2> QED
    BY <2>1, LoopFacts DEF LoopOK
<1>5. CASE \/ ReadSome \/ Receive \/ \E op \in PathOps \cup HandleOps : ShimRefused(op)
           \/ RemoveFSLayer \/ \E k \in Kinds : AddFSLayer(k)
  BY <1>5 DEF ReadSome, Receive, ShimRefused, RemoveFSLayer, AddFSLayer, Still
<1> QED
  BY <1>2, <1>3, <1>4, <1>5 DEF Next, vars

(* A layer that is not a save layer never changes its replacement directory.     *)
THEOREM ReadOnlyLayersChangeNothing == Spec => WriteProtected
<1>1. IInv /\ [Next]_vars => [disk' # disk => kind = "save"]_vars
  BY OnlySaveLayersChange
<1> QED
  BY <1>1, Invariance, PTL DEF Spec, WriteProtected
=============================================================================
