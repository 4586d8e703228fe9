---------------------------- MODULE ReferenceFile ----------------------------
(***************************************************************************)
(* What an application may rely on when a layer serves its files: every     *)
(* call is one step; a transfer moves the position by exactly the bytes it   *)
(* moved, at the place where they belong, and nothing else in the file or    *)
(* on the disk changes.  The one exception is written down as an action of   *)
(* its own: asking for the end of the file may move the position.            *)
(***************************************************************************)
EXTENDS Naturals, Sequences, Storage

CONSTANTS File, Name, Positions, Nil

VARIABLES
  content,      \* [Name -> entry of the disk]
  open,         \* [File -> Nil or [name, pos]]
  done          \* the call that was answered last, Nil when the caller goes on

Init == open = [f \in File |-> Nil] /\ done = Nil

Bytes(f) == content[open[f].name].data
MoveTo(f, p) == open[f] # Nil /\ open' = [open EXCEPT ![f].pos = p]

Open(f, n) == /\ done' = "OpenFile" /\ open[f] = Nil
              /\ content' \in {content, [content EXCEPT ![n] = FileOf(<<>>)]}
              /\ content'[n].type = "file"
              /\ open' = [open EXCEPT ![f] = [name |-> n, pos |-> 0]]

Close(f) == /\ done' = "CloseFile" /\ open[f] # Nil
            /\ open' = [open EXCEPT ![f] = Nil] /\ UNCHANGED content

(* A read that names a position begins with this step.                         *)
Seek(f) == /\ done' \in {"SetPosFile", "ReadFile", Nil}
           /\ \E p \in Positions : MoveTo(f, p)
           /\ UNCHANGED content

(* A read moves the position, at most to the end of the file.                  *)
Read(f) == /\ done' = "ReadFile" /\ open[f] # Nil
           /\ \E p \in open[f].pos .. Len(Bytes(f)) : MoveTo(f, p)
           /\ UNCHANGED content

(* A write puts a prefix of the caller's bytes, which are 1, 2, 3 ..., at the   *)
(* position or at the end of the file, and leaves the position behind them.    *)
Prefix(k) == [i \in 1 .. k |-> i]
Write(f) ==
  /\ done' = "WriteFile" /\ open[f] # Nil
  /\ \E at \in {open[f].pos, Len(Bytes(f))}, p \in 1 .. Len(content'[open[f].name].data) :
       /\ p > at
       /\ content' = [content EXCEPT ![open[f].name].data = Overlay(@, at, Prefix(p - at))]
       /\ MoveTo(f, p)

Truncate(f) == /\ done' = "TruncateFile" /\ open[f] # Nil
               /\ content' = [content EXCEPT ![open[f].name].data = Resized(@, open[f].pos)]
               /\ UNCHANGED open

(* The exception: a position that is not the end does not come back.           *)
EofQuery(f) == /\ done' = "IsEof" /\ open[f] # Nil
               /\ MoveTo(f, Len(Bytes(f))) \/ MoveTo(f, Len(Bytes(f)) + open[f].pos)
               /\ UNCHANGED content

(* An open that fails late may have created or emptied the file.               *)
Reset(n)  == done' = "OpenFile" /\ content' = [content EXCEPT ![n] = FileOf(<<>>)]

NotOpen(n) == \A f \in File : open[f] # Nil => open[f].name # n
Remove(n) == /\ done' = "Remove" /\ NotOpen(n)
             /\ content' = [content EXCEPT ![n] = Nothing]
Rename(n, m) == /\ done' = "Rename" /\ NotOpen(n) /\ content[m].type = "none"
                /\ content' = [content EXCEPT ![m] = content[n], ![n] = Nothing]
MakeDir(n) == /\ done' = "MakeDir" /\ content[n].type = "none"
              /\ content' = [content EXCEPT ![n] = Directory]

(* Answers that change nothing, and the removal of the layer.                  *)
Unchanged == UNCHANGED <<content, open>>
CloseAll  == open' = [f \in File |-> Nil] /\ UNCHANGED <<content, done>>

Next == \/ \E f \in File : \/ \E n \in Name : Open(f, n)
                           \/ Close(f) \/ Seek(f) \/ Read(f) \/ Write(f)
                           \/ Truncate(f) \/ EofQuery(f)
        \/ Unchanged \/ CloseAll
        \/ \E n \in Name : /\ Reset(n) \/ Remove(n) \/ MakeDir(n) \/ \E m \in Name : Rename(n, m)
                           /\ UNCHANGED open

Spec == Init /\ [][Next]_<<content, open, done>>
=============================================================================
