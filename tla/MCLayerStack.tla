---------------------------- MODULE MCLayerStack ----------------------------
(* Two merging layers, and one path that both cover.                          *)
EXTENDS LayerStack, TLC

CONSTANTS m1, m2, p, h1, h2, g1

Mergers    == {m1, m2}
Paths      == {p}
CoversAll  == [l \in Layer |-> Paths]
TwoHandles == {h1, h2}
OneReal    == {g1}
Same       == Permutations(TwoHandles) \cup Permutations(Mergers)
=============================================================================
