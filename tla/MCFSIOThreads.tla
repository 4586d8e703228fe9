--------------------------- MODULE MCFSIOThreads ---------------------------
(* Instances of FSIOThreads for TLC; the sets are model values of the .cfg.  *)
EXTENDS FSIOThreads, TLC

CONSTANTS t1, t2, b1, b2, p1, p2, p3

Threads == {t1, t2}
OneThread == {t1}
OneBlock == {b1}
TwoBlocks == {b1, b2}
NoBlock == {}
Addresses == {p1, p2, p3}
SameAddresses == Permutations(Addresses)

(* malloc that takes any address, or always the lowest one that is unused.   *)
AnyAddress(S) == S
Numbered == 1 .. 6
FirstFit(S) == {p \in S : \A q \in S : p <= q}
=============================================================================
