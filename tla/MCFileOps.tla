------------------------------ MODULE MCFileOps ------------------------------
(* One name with two bytes and one that is free or a directory, a uint32_t of  *)
(* three values of which 2 has the sign bit, files of up to two bytes.         *)
EXTENDS FileOps, TLC

CONSTANTS f1, a, b

OneFile   == {f1}
Names     == {a, b}
Modes     == {"r", "r+", "w", "a", "x"}
AllKinds  == {"replace", "merge", "save"}
Sizes     == {0, 1, 2}
Counts    == {0, 1, 2}
SeekTo    == {0, 1, 3}
Negative(extra, name) == [extra |-> extra, name |-> name, count |-> 0]
Words     == {FORCE_PARENT_LAYER, Negative("noFallback", "unnamed"), Negative("other", "unnamed"),
              Negative("other", "END_OF_FILE"), Negative("real", "BUSY")}
StartDisks == {[n \in Name |-> IF n = a THEN FileOf(<<2, 1>>) ELSE Nothing],
               [n \in Name |-> IF n = a THEN FileOf(<<>>) ELSE Directory]}
==============================================================================
