----------------------------- MODULE MCReentry -----------------------------
(* A merging layer m1 keeps its copies of p in a, where .deleted_ marks are     *)
(* da; a replacing layer r1 has its copies in b.                              *)
EXTENDS Reentry, TLC

CONSTANTS m1, r1, p, a, b, da, h1, h2, g1

OneEach    == {m1, r1}
OneMerger  == {m1}
OnePath    == {p}
Paths      == {p, a, b, da}
NoHandle   == {}
OneHandle  == {h1}
TwoHandles == {h1, h2}
OneReal    == {g1}

CopyIn  == [l \in Layer |-> [x \in Path |-> IF l = m1 THEN a ELSE b]]
MarkOfA == [x \in Path |-> IF x = a THEN da ELSE x]
Depth   == [x \in Path |-> CASE x = p -> 3 [] x = a -> 2 [] x = da -> 1 [] x = b -> 0]

(* Both replace p, and nobody looks where they keep its copies.                *)
BesideCovers == [l \in Layer |-> {p}]

(* r1 replaces what m1 keeps its copies in.                                   *)
ChainCovers == [l \in Layer |-> IF l = m1 THEN {p} ELSE {a}]
ChainExist  == {b, da}
=============================================================================
