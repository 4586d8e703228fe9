-------------------------------- MODULE Paths --------------------------------
(***************************************************************************)
(* Paths as the layers handle them: text that is compared and cut without    *)
(* regard to where a name ends.  A path is a sequence of tokens, which are   *)
(* "/", "\" and pieces of names; a name of two pieces stands for one that    *)
(* begins like another.  Resolve is how the console reads the same text.    *)
(***************************************************************************)
EXTENDS Naturals, Sequences, SequencesExt

CONSTANTS
  LowerCase     \* [piece -> piece]: std::tolower of a piece of a name

Slash     == "/"
Backslash == "\\"
Dots      == {".", ".."}
Token     == {Slash, Backslash} \cup STRING
IsSeparator(t) == t \in {Slash, Backslash}
IsAbsolute(path) == path # <<>> /\ IsSeparator(path[1])

(* std::tolower changes letters only: no separator and no dots, to none of them. *)
ASSUME LowerCaseAssumption ==
  /\ LowerCase \in [DOMAIN LowerCase -> Token]
  /\ \A t \in DOMAIN LowerCase : /\ t \in Token /\ ~IsSeparator(t) /\ t \notin Dots
                                /\ ~IsSeparator(LowerCase[t]) /\ LowerCase[t] \notin Dots

(* A loop over a sequence: step maps what it has so far and the next element to   *)
(* what it has then.  It is a recursive function, not a fold over an operator,    *)
(* so that Paths_proofs can reason about it by induction.                       *)
Folding(step, base, sq) ==
  LET at[i \in 0 .. Len(sq)] == IF i = 0 THEN base ELSE step[<<at[i - 1], sq[i]>>]
  IN  at
Fold(step, base, sq) == Folding(step, base, sq)[Len(sq)]

(* std::replace(path, '\\', '/').                                             *)
Slashes(path) == [i \in DOMAIN path |-> IF path[i] = Backslash THEN Slash ELSE path[i]]

ToLower(path) == [i \in DOMAIN path |-> IF path[i] \in DOMAIN LowerCase
                                        THEN LowerCase[path[i]] ELSE path[i]]

starts_with_case_insensitive(str, prefix) == IsPrefix(ToLower(prefix), ToLower(str))

(* The loop of GetNewPath that clears a path of double slashes.                *)
KeepToken == [x \in Seq(Token) \X Token |->
                IF x[2] = Slash /\ x[1] # <<>> /\ Last(x[1]) = Slash
                THEN x[1] ELSE Append(x[1], x[2])]
NoDoubleSlashes(path) == Fold(KeepToken, <<>>, path)

CutTooMuch(path, prefix, replacement) ==   \* mutant: one more token is cut off
  NoDoubleSlashes(Slashes(replacement \o SubSeq(path, Len(prefix) + 2, Len(path))))
GetNewPath(path, prefix, replacement) ==
  NoDoubleSlashes(Slashes(replacement \o SubSeq(path, Len(prefix) + 1, Len(path))))

-----------------------------------------------------------------------------
(* The console: names between separators, in lower case; "." and ".." are not  *)
(* names.                                                                     *)
Readings == {r \in [names : Seq(Seq(Token)), open : BOOLEAN] : r.open => r.names # <<>>}
Nothing  == [names |-> <<>>, open |-> FALSE]
AddToken ==
  [x \in Readings \X Token |->
     LET read == x[1]  t == x[2] IN
     [names |-> IF IsSeparator(t) THEN read.names
                ELSE IF read.open
                     THEN [read.names EXCEPT ![Len(read.names)] = Append(@, t)]
                     ELSE Append(read.names, <<t>>),
      open  |-> ~IsSeparator(t)]]
Names(path) == Fold(AddToken, Nothing, ToLower(path)).names

Step ==
  [x \in Seq(Seq(Token)) \X Seq(Token) |->
     LET at == x[1]  name == x[2] IN
     CASE name = <<".">>  -> at
       [] name = <<"..">> -> IF at = <<>> THEN at ELSE Front(at)
       [] OTHER           -> Append(at, name)]
Walked(dir, names) == Fold(Step, dir, names)

(* The place a path names for a client whose directory is dir.                 *)
Resolve(dir, path) == Walked(IF IsAbsolute(path) THEN <<>> ELSE dir, Names(path))

(* What the layers do not undo: "." and "..", separators in a row, and a name   *)
(* that goes on after the end of the prefix.                                  *)
HasDots(path) == \E i \in DOMAIN path : path[i] \in Dots
HasDoubleSeparator(path) ==
  \E i \in 2 .. Len(path) : IsSeparator(path[i]) /\ IsSeparator(path[i - 1])
GoesOn(path, prefix) ==
  /\ starts_with_case_insensitive(path, prefix)
  /\ Len(path) > Len(prefix) /\ ~IsSeparator(path[Len(prefix) + 1])
=============================================================================
