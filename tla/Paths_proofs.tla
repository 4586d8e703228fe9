----------------------------- MODULE Paths_proofs -----------------------------
(***************************************************************************)
(* What the operators of Paths do to paths of any length: how the names of   *)
(* a path are those of its parts, and what rewriting leaves of them.         *)
(***************************************************************************)
EXTENDS Paths, Integers, SequenceTheorems, WellFoundedInduction, TLAPS

-----------------------------------------------------------------------------
(* Loops over sequences.                                                      *)

(* Induction up to n, for the set of the numbers of which something holds: the  *)
(* least number outside that set would have a predecessor inside it.           *)
LEMMA Induct ==
  ASSUME NEW n \in Nat, NEW G \in SUBSET (0 .. n), 0 \in G,
         \A i \in 1 .. n : i - 1 \in G => i \in G
  PROVE  G = 0 .. n
<1> DEFINE B == (0 .. n) \ G
<1> SUFFICES ASSUME B # {} PROVE FALSE
  OBVIOUS
<1>1. PICK m \in B : \A k \in B : ~(<<k, m>> \in OpToRel(<, Nat))
  <2>1. B \subseteq Nat
    OBVIOUS
  <2> HIDE DEF B
  <2> QED
    BY <2>1, NatLessThanWellFounded, WFMin
<1>2. m \in 1 .. n
  OBVIOUS
<1>3. m - 1 \in G
  <2> SUFFICES ASSUME m - 1 \in B PROVE FALSE
    BY <1>2
  <2>1. <<m - 1, m>> \in OpToRel(<, Nat)
    BY <1>2 DEF OpToRel
  <2> QED
    BY <1>1, <2>1
<1> QED
  BY <1>2, <1>3

(* The types of a loop over sq, and what it has after each element.            *)
IsLoop(S, T, step, base, sq) ==
  step \in [S \X T -> S] /\ base \in S /\ sq \in Seq(T)
Loops(at, S, step, base, sq) ==
  /\ at \in [0 .. Len(sq) -> S]
  /\ at[0] = base
  /\ \A i \in 1 .. Len(sq) : at[i] = step[<<at[i - 1], sq[i]>>]

(* A loop comes to an end: after each prefix it has a value ...                *)
LEMMA LoopsSoFar ==
  ASSUME NEW S, NEW T, NEW step, NEW base, NEW sq, IsLoop(S, T, step, base, sq)
  PROVE  \E g : Loops(g, S, step, base, sq)
<1>0. PICK n \in Nat : n = Len(sq)
  BY LenProperties
<1> DEFINE Up(g, k) == /\ g \in [0 .. k -> S] /\ g[0] = base
                       /\ \A i \in 1 .. k : g[i] = step[<<g[i - 1], sq[i]>>]
           G == {k \in 0 .. n : \E g : Up(g, k)}
<1>1. \A i \in 1 .. n : sq[i] \in T
  BY <1>0, ElementOfSeq DEF IsLoop
<1>2. 0 \in G
  <2>1. Up([i \in 0 .. 0 |-> base], 0)
    BY DEF IsLoop
  <2>2. \E g : Up(g, 0)
    BY <2>1
  <2> HIDE DEF Up
  <2> QED
    BY <2>2
<1>3. ASSUME NEW k \in 1 .. n, k - 1 \in G PROVE k \in G
  <2>1. PICK g : Up(g, k - 1)
    BY <1>3
  <2> DEFINE last == step[<<g[k - 1], sq[k]>>]
             h == [i \in 0 .. k |-> IF i = k THEN last ELSE g[i]]
  <2>2. g \in [0 .. k - 1 -> S] /\ g[0] = base
        /\ \A i \in 1 .. k - 1 : g[i] = step[<<g[i - 1], sq[i]>>]
    BY <2>1
  <2>3. k - 1 \in 0 .. k - 1 /\ 0 \in 0 .. k /\ k \in Nat /\ k # 0
    OBVIOUS
  <2>4. last \in S
    <3>1. g[k - 1] \in S /\ sq[k] \in T
      BY <1>1, <2>2, <2>3
    <3> QED
      BY <3>1 DEF IsLoop
  <2> HIDE DEF last
  <2>5. h \in [0 .. k -> S]
    <3>1. ASSUME NEW i \in 0 .. k, i # k PROVE g[i] \in S
      <4>1. i \in 0 .. k - 1
        BY <2>3, <3>1
      <4> QED
        BY <2>2, <4>1
    <3> QED
      BY <2>4, <3>1
  <2>6. h[0] = base
    BY <2>2, <2>3
  <2>7. \A i \in 1 .. k : h[i] = step[<<h[i - 1], sq[i]>>]
    <3> SUFFICES ASSUME NEW i \in 1 .. k PROVE h[i] = step[<<h[i - 1], sq[i]>>]
      OBVIOUS
    <3>1. i - 1 \in 0 .. k /\ i - 1 # k /\ i \in 0 .. k
      BY <2>3
    <3>2. h[i - 1] = g[i - 1] /\ h[i] = IF i = k THEN last ELSE g[i]
      BY <3>1
    <3>3. CASE i = k
      BY <3>2, <3>3 DEF last
    <3>4. CASE i # k
      <4>1. i \in 1 .. k - 1
        BY <2>3, <3>4
      <4> QED
        BY <2>2, <3>2, <3>4, <4>1
    <3> QED
      BY <3>3, <3>4
  <2>8. Up(h, k)
    BY <2>5, <2>6, <2>7
  <2>9. \E f : Up(f, k)
    BY <2>8
  <2> HIDE DEF Up
  <2> QED
    BY <2>3, <2>9
<1>4. n \in G
  <2> HIDE DEF G
  <2>1. G \in SUBSET (0 .. n)
    BY DEF G
  <2>2. G = 0 .. n
    BY <1>2, <1>3, <2>1, Induct
  <2> QED
    BY <2>2
<1>5. \E g : Up(g, n)
  <2> HIDE DEF Up
  <2> QED
    BY <1>4
<1> QED
  BY <1>0, <1>5 DEF Loops

(* ... what satisfies the recursion is those values ...                        *)
LEMMA LoopType ==
  ASSUME NEW S, NEW T, NEW step, NEW base, NEW sq, IsLoop(S, T, step, base, sq), NEW at,
         at = [i \in 0 .. Len(sq) |-> IF i = 0 THEN base ELSE step[<<at[i - 1], sq[i]>>]]
  PROVE  Loops(at, S, step, base, sq)
<1>1. Len(sq) \in Nat
  BY LenProperties DEF IsLoop
<1>2. /\ at = [i \in 0 .. Len(sq) |-> at[i]]
      /\ at[0] = base
      /\ \A i \in 1 .. Len(sq) : at[i] = step[<<at[i - 1], sq[i]>>]
  <2>1. at = [i \in 0 .. Len(sq) |-> at[i]]
    OBVIOUS
  <2>2. \A i \in 0 .. Len(sq) : at[i] = IF i = 0 THEN base ELSE step[<<at[i - 1], sq[i]>>]
    OBVIOUS
  <2>3. 0 \in 0 .. Len(sq) /\ \A i \in 1 .. Len(sq) : i \in 0 .. Len(sq) /\ i # 0
    BY <1>1
  <2> QED
    BY <2>1, <2>2, <2>3
<1> DEFINE H == {i \in 0 .. Len(sq) : at[i] \in S}
<1>3. 0 \in H
  BY <1>1, <1>2 DEF IsLoop
<1>4. ASSUME NEW i \in 1 .. Len(sq), i - 1 \in H PROVE i \in H
  <2>1. at[i - 1] \in S /\ sq[i] \in T
    BY <1>4, ElementOfSeq DEF IsLoop
  <2>2. step[<<at[i - 1], sq[i]>>] \in S
    BY <2>1 DEF IsLoop
  <2>3. i \in 0 .. Len(sq)
    BY <1>1
  <2>4. at[i] \in S
    BY <1>2, <2>2
  <2> QED
    BY <2>3, <2>4
<1>5. H = 0 .. Len(sq)
  <2>1. H \in SUBSET (0 .. Len(sq))
    OBVIOUS
  <2> HIDE DEF H
  <2> QED
    BY <1>1, <1>3, <1>4, <2>1, Induct
<1>6. \A i \in 0 .. Len(sq) : at[i] \in S
  BY <1>5
<1> QED
  BY <1>2, <1>6 DEF Loops

(* ... and so the recursion of Folding defines a function.                     *)
LEMMA FoldingLoops ==
  ASSUME NEW S, NEW T, NEW step, NEW base, NEW sq, IsLoop(S, T, step, base, sq)
  PROVE  Loops(Folding(step, base, sq), S, step, base, sq)
<1> DEFINE Body(f) == [i \in 0 .. Len(sq) |-> IF i = 0 THEN base ELSE step[<<f[i - 1], sq[i]>>]]
<1>1. Len(sq) \in Nat
  BY LenProperties DEF IsLoop
<1>2. PICK g : Loops(g, S, step, base, sq)
  BY LoopsSoFar
<1>3. g = Body(g)
  <2>1. \A i \in 0 .. Len(sq) : g[i] = Body(g)[i]
    <3> SUFFICES ASSUME NEW i \in 0 .. Len(sq) PROVE g[i] = Body(g)[i]
      OBVIOUS
    <3>1. CASE i = 0
      BY <1>2, <3>1 DEF Loops
    <3>2. CASE i # 0
      <4>1. i \in 1 .. Len(sq)
        BY <1>1, <3>2
      <4> QED
        BY <1>2, <3>2, <4>1 DEF Loops
    <3> QED
      BY <3>1, <3>2
  <2> QED
    BY <1>2, <2>1 DEF Loops
<1>4. Folding(step, base, sq) = Body(Folding(step, base, sq))
  BY <1>3 DEF Folding
<1> QED
  BY <1>4, LoopType

(* Where a loop ends.                                                         *)
LEMMA FoldEnds ==
  ASSUME NEW S, NEW T, NEW step, NEW base, NEW sq, IsLoop(S, T, step, base, sq)
  PROVE  \E at : /\ Loops(at, S, step, base, sq)
                 /\ Fold(step, base, sq) = at[Len(sq)] /\ Fold(step, base, sq) \in S
<1> DEFINE at == Folding(step, base, sq)
<1>1. Loops(at, S, step, base, sq)
  BY FoldingLoops
<1>2. Fold(step, base, sq) = at[Len(sq)]
  BY DEF Fold
<1> HIDE DEF at
<1>3. at[Len(sq)] \in S
  <2>1. Len(sq) \in 0 .. Len(sq)
    BY LenProperties DEF IsLoop
  <2> QED
    BY <1>1, <2>1 DEF Loops
<1> QED
  BY <1>1, <1>2, <1>3

(* Two loops over sequences of one length whose steps keep a relation between   *)
(* them end up related.                                                       *)
LEMMA FoldsRelated ==
  ASSUME NEW S, NEW T, NEW f, NEW b, NEW p, IsLoop(S, T, f, b, p),
         NEW U, NEW V, NEW g, NEW c, NEW q, IsLoop(U, V, g, c, q),
         Len(p) = Len(q), NEW R, <<b, c>> \in R,
         \A i \in 1 .. Len(p) : \A s \in S, u \in U :
           <<s, u>> \in R => <<f[<<s, p[i]>>], g[<<u, q[i]>>]>> \in R
  PROVE  <<Fold(f, b, p), Fold(g, c, q)>> \in R
<1>1. PICK at : Loops(at, S, f, b, p) /\ Fold(f, b, p) = at[Len(p)]
  BY FoldEnds
<1>2. PICK up : Loops(up, U, g, c, q) /\ Fold(g, c, q) = up[Len(q)]
  BY FoldEnds
<1>3. Len(p) \in Nat
  BY LenProperties DEF IsLoop
<1> DEFINE G == {i \in 0 .. Len(p) : <<at[i], up[i]>> \in R}
<1>4. 0 \in G
  <2>1. at[0] = b /\ up[0] = c /\ 0 \in 0 .. Len(p)
    BY <1>1, <1>2, <1>3 DEF Loops
  <2> QED
    BY <2>1
<1>5. ASSUME NEW i \in 1 .. Len(p), i - 1 \in G PROVE i \in G
  <2>1. i \in 0 .. Len(p) /\ i - 1 \in 0 .. Len(p)
    BY <1>3
  <2>2. at[i] = f[<<at[i - 1], p[i]>>] /\ up[i] = g[<<up[i - 1], q[i]>>]
    BY <1>1, <1>2 DEF Loops
  <2>3. at[i - 1] \in S /\ up[i - 1] \in U
    BY <1>1, <1>2, <2>1 DEF Loops
  <2>4. <<at[i - 1], up[i - 1]>> \in R
    BY <1>5
  <2>5. <<at[i], up[i]>> \in R
    BY <2>2, <2>3, <2>4
  <2> QED
    BY <2>1, <2>5
<1>6. G = 0 .. Len(p)
  <2>1. G \in SUBSET (0 .. Len(p))
    OBVIOUS
  <2> HIDE DEF G
  <2> QED
    BY <1>3, <1>4, <1>5, <2>1, Induct
<1>7. <<at[Len(p)], up[Len(p)]>> \in R
  <2>1. Len(p) \in 0 .. Len(p)
    BY <1>3
  <2> QED
    BY <1>6, <2>1
<1> QED
  BY <1>1, <1>2, <1>7

(* A loop whose steps do not leave a set ends in it.                           *)
LEMMA FoldStays ==
  ASSUME NEW S, NEW T, NEW f, NEW b, NEW p, IsLoop(S, T, f, b, p), NEW K, b \in K,
         \A i \in 1 .. Len(p) : \A s \in S : s \in K => f[<<s, p[i]>>] \in K
  PROVE  Fold(f, b, p) \in K
<1> DEFINE R == {x \in K \X K : x[1] = x[2]}
<1>1. <<b, b>> \in R
  OBVIOUS
<1>2. \A i \in 1 .. Len(p) : \A s, u \in S :
        <<s, u>> \in R => <<f[<<s, p[i]>>], f[<<u, p[i]>>]>> \in R
  OBVIOUS
<1>3. \A x, y : <<x, y>> \in R => x \in K
  OBVIOUS
<1> HIDE DEF R
<1>4. <<Fold(f, b, p), Fold(f, b, p)>> \in R
  BY <1>1, <1>2, FoldsRelated
<1> QED
  BY <1>3, <1>4

(* A loop over nothing stays where it is; one over two parts goes on with the   *)
(* second where the first ended.                                             *)
LEMMA FoldEmpty ==
  ASSUME NEW S, NEW T, NEW f, NEW b, IsLoop(S, T, f, b, <<>>)
  PROVE  Fold(f, b, <<>>) = b
<1>1. Len(<<>>) = 0
  BY EmptySeq
<1>2. PICK at : Loops(at, S, f, b, <<>>) /\ Fold(f, b, <<>>) = at[Len(<<>>)]
  BY FoldEnds
<1> QED
  BY <1>1, <1>2 DEF Loops

LEMMA FoldConcat ==
  ASSUME NEW S, NEW T, NEW f, NEW b, NEW p, IsLoop(S, T, f, b, p), NEW q \in Seq(T)
  PROVE  Fold(f, b, p \o q) = Fold(f, Fold(f, b, p), q)
<1>1. PICK at : Loops(at, S, f, b, p) /\ Fold(f, b, p) = at[Len(p)] /\ Fold(f, b, p) \in S
  BY FoldEnds
<1>2. PICK c : c = Fold(f, b, p) /\ c \in S /\ c = at[Len(p)]
  BY <1>1
<1>3. IsLoop(S, T, f, c, q)
  BY <1>2 DEF IsLoop
<1>4. PICK up : Loops(up, S, f, c, q) /\ Fold(f, c, q) = up[Len(q)]
  BY <1>3, FoldEnds
<1>5. p \in Seq(T) /\ Len(p) \in Nat /\ Len(q) \in Nat
  BY LenProperties DEF IsLoop
<1>6. PICK r : r = p \o q
  OBVIOUS
<1>7. /\ r \in Seq(T) /\ Len(r) = Len(p) + Len(q)
      /\ \A i \in 1 .. Len(p) : r[i] = p[i]
      /\ \A i \in 1 .. Len(q) : r[Len(p) + i] = q[i]
  BY <1>5, <1>6, ConcatProperties
<1>8. PICK all : Loops(all, S, f, b, r) /\ Fold(f, b, r) = all[Len(r)]
  <2>1. IsLoop(S, T, f, b, r)
    BY <1>7 DEF IsLoop
  <2> QED
    BY <2>1, FoldEnds
<1>9. /\ all[0] = b
      /\ \A i \in 1 .. Len(p) : all[i] = f[<<all[i - 1], p[i]>>]
      /\ \A i \in 1 .. Len(q) : all[Len(p) + i] = f[<<all[Len(p) + i - 1], q[i]>>]
  <2>1. /\ \A i \in 1 .. Len(p) : i \in 1 .. Len(r)
        /\ \A i \in 1 .. Len(q) : Len(p) + i \in 1 .. Len(r)
    BY <1>5, <1>7
  <2>2. all[0] = b /\ \A i \in 1 .. Len(r) : all[i] = f[<<all[i - 1], r[i]>>]
    BY <1>8 DEF Loops
  <2>3. \A i \in 1 .. Len(p) : all[i] = f[<<all[i - 1], p[i]>>]
    BY <1>7, <2>1, <2>2
  <2>4. \A i \in 1 .. Len(q) : all[Len(p) + i] = f[<<all[Len(p) + i - 1], q[i]>>]
    BY <1>7, <2>1, <2>2
  <2> QED
    BY <2>2, <2>3, <2>4
<1>10. all[Len(p)] = at[Len(p)]
  <2> DEFINE G == {i \in 0 .. Len(p) : all[i] = at[i]}
  <2>1. 0 \in G
    <3>1. all[0] = at[0] /\ 0 \in 0 .. Len(p)
      BY <1>1, <1>5, <1>9 DEF Loops
    <3> QED
      BY <3>1
  <2>2. ASSUME NEW i \in 1 .. Len(p), i - 1 \in G PROVE i \in G
    <3>1. i \in 0 .. Len(p) /\ i - 1 \in 0 .. Len(p)
      BY <1>5
    <3>2. all[i] = at[i]
      BY <1>1, <1>9, <2>2 DEF Loops
    <3> QED
      BY <3>1, <3>2
  <2>3. G \in SUBSET (0 .. Len(p)) /\ Len(p) \in 0 .. Len(p)
    BY <1>5
  <2>4. G = 0 .. Len(p)
    <3> HIDE DEF G
    <3> QED
      BY <1>5, <2>1, <2>2, <2>3, Induct
  <2> QED
    BY <2>3, <2>4
<1>11. all[Len(p) + Len(q)] = up[Len(q)]
  <2> DEFINE G == {i \in 0 .. Len(q) : all[Len(p) + i] = up[i]}
  <2>1. 0 \in G
    <3>1. up[0] = at[Len(p)] /\ 0 \in 0 .. Len(q) /\ Len(p) + 0 = Len(p)
      BY <1>2, <1>4, <1>5 DEF Loops
    <3> QED
      BY <1>10, <3>1
  <2>2. ASSUME NEW i \in 1 .. Len(q), i - 1 \in G PROVE i \in G
    <3>1. i \in 0 .. Len(q) /\ i - 1 \in 0 .. Len(q) /\ Len(p) + i - 1 = Len(p) + (i - 1)
      BY <1>5
    <3>2. all[Len(p) + (i - 1)] = up[i - 1]
      BY <2>2
    <3>3. all[Len(p) + i] = f[<<up[i - 1], q[i]>>]
      BY <1>9, <3>1, <3>2
    <3>4. up[i] = f[<<up[i - 1], q[i]>>]
      BY <1>4 DEF Loops
    <3> QED
      BY <3>1, <3>3, <3>4
  <2>3. G \in SUBSET (0 .. Len(q)) /\ Len(q) \in 0 .. Len(q)
    BY <1>5
  <2>4. G = 0 .. Len(q)
    <3> HIDE DEF G
    <3> QED
      BY <1>5, <2>1, <2>2, <2>3, Induct
  <2> QED
    BY <2>3, <2>4
<1> QED
  BY <1>2, <1>4, <1>6, <1>7, <1>8, <1>11

LEMMA FoldAppend ==
  ASSUME NEW S, NEW T, NEW f, NEW b, NEW p, IsLoop(S, T, f, b, p), NEW t \in T
  PROVE  Fold(f, b, Append(p, t)) = f[<<Fold(f, b, p), t>>]
<1>1. PICK one : one = <<t>>
  OBVIOUS
<1>2. one \in Seq(T) /\ Len(one) = 1 /\ one[1] = t
  BY <1>1
<1>3. Append(p, t) = p \o one
  BY <1>1, AppendIsConcat DEF IsLoop
<1>4. PICK c \in S : c = Fold(f, b, p)
  BY FoldEnds
<1>5. IsLoop(S, T, f, c, one)
  BY <1>2 DEF IsLoop
<1>6. PICK at : Loops(at, S, f, c, one) /\ Fold(f, c, one) = at[Len(one)]
  BY <1>5, FoldEnds
<1>7. Fold(f, c, one) = f[<<c, t>>]
  BY <1>2, <1>6 DEF Loops
<1>8. Fold(f, b, p \o one) = Fold(f, c, one)
  BY <1>2, <1>4, FoldConcat
<1> QED
  BY <1>3, <1>4, <1>7, <1>8

-----------------------------------------------------------------------------
(* Sequences that grow at their end.                                          *)

LEMMA LastOfAppend ==
  ASSUME NEW S, NEW s \in Seq(S), NEW e \in S
  PROVE  /\ Append(s, e) \in Seq(S) /\ Append(s, e) # <<>>
         /\ Last(Append(s, e)) = e /\ Len(Append(s, e)) = Len(s) + 1
<1>1. PICK r : r = Append(s, e)
  OBVIOUS
<1>2. r \in Seq(S) /\ r # <<>> /\ Len(r) = Len(s) + 1 /\ r[Len(s) + 1] = e
  BY <1>1, AppendProperties
<1>3. Last(r) = e
  BY <1>2 DEF Last
<1> QED
  BY <1>1, <1>2, <1>3

LEMMA ConcatAppend ==
  ASSUME NEW S, NEW s \in Seq(S), NEW t \in Seq(S), NEW e \in S
  PROVE  s \o Append(t, e) = Append(s \o t, e)
<1>1. PICK one \in Seq(S) : one = <<e>>
  <2>1. <<e>> \in Seq(S)
    OBVIOUS
  <2> QED
    BY <2>1, Zenon
<1>2. Append(t, e) = t \o one
  BY <1>1, AppendIsConcat
<1>3. PICK r \in Seq(S) : r = s \o t
  BY ConcatProperties
<1>4. Append(r, e) = r \o one
  BY <1>1, AppendIsConcat
<1>5. s \o (t \o one) = (s \o t) \o one
  BY ConcatAssociative
<1> QED
  BY <1>2, <1>3, <1>4, <1>5

(* A sequence is its part up to n and the rest of it.                          *)
LEMMA CutInTwo ==
  ASSUME NEW S, NEW s \in Seq(S), NEW n \in 0 .. Len(s)
  PROVE  \E p, q \in Seq(S) : /\ p = SubSeq(s, 1, n) /\ q = SubSeq(s, n + 1, Len(s))
                              /\ s = p \o q /\ Len(p) = n /\ Len(q) = Len(s) - n
                              /\ \A i \in 1 .. n : p[i] = s[i]
                              /\ q # <<>> => q[1] = s[n + 1]
<1>1. Len(s) \in Nat /\ \A i \in 1 .. Len(s) : s[i] \in S
  BY LenProperties, ElementOfSeq
<1>2. PICK p : p = SubSeq(s, 1, n)
  OBVIOUS
<1>3. PICK q : q = SubSeq(s, n + 1, Len(s))
  OBVIOUS
<1>4. p \in Seq(S) /\ Len(p) = n /\ \A i \in 1 .. n : p[i] = s[i]
  <2>1. \A i \in 1 .. n : s[i] \in S
    BY <1>1
  <2> QED
    BY <1>1, <1>2, <2>1, SubSeqProperties
<1>5. q \in Seq(S) /\ Len(q) = Len(s) - n
      /\ \A i \in 1 .. Len(s) - n : q[i] = s[n + i]
  <2>1. \A i \in n + 1 .. Len(s) : s[i] \in S
    BY <1>1
  <2> QED
    BY <1>1, <1>3, <2>1, SubSeqProperties
<1>6. q # <<>> => q[1] = s[n + 1]
  <2>1. q # <<>> => 1 \in 1 .. Len(s) - n
    BY <1>1, <1>5, EmptySeq
  <2> QED
    BY <1>5, <2>1
<1>7. PICK r : r = p \o q
  OBVIOUS
<1>8. s = r
  <2>1. /\ r \in Seq(S) /\ Len(r) = Len(s)
        /\ \A i \in 1 .. Len(s) : r[i] = IF i <= n THEN p[i] ELSE q[i - n]
    BY <1>1, <1>4, <1>5, <1>7, ConcatProperties
  <2>2. ASSUME NEW i \in 1 .. Len(s) PROVE r[i] = s[i]
    <3>1. CASE i <= n
      BY <1>4, <2>1, <3>1
    <3>2. CASE i > n
      <4>1. i - n \in 1 .. Len(s) - n /\ n + (i - n) = i
        BY <1>1, <3>2
      <4> QED
        BY <1>5, <2>1, <3>2, <4>1
    <3> QED
      BY <1>1, <3>1, <3>2
  <2> QED
    BY <2>1, <2>2, SeqEqual
<1> QED
  BY <1>2, <1>3, <1>4, <1>5, <1>6, <1>7, <1>8

(* Induction over the prefixes of a sequence.                                  *)
LEMMA PrefixInduct ==
  ASSUME NEW S, NEW sq \in Seq(S), NEW K, <<>> \in K,
         \A i \in 1 .. Len(sq) : \A s \in Seq(S) :
           s \in K /\ Len(s) = i - 1 /\ (\A j \in 1 .. i - 1 : s[j] = sq[j])
             => Append(s, sq[i]) \in K
  PROVE  sq \in K
<1>1. PICK n \in Nat : n = Len(sq)
  BY LenProperties
<1> DEFINE G == {i \in 0 .. n : SubSeq(sq, 1, i) \in K}
<1>2. 0 \in G
  <2>1. SubSeq(sq, 1, 0) = <<>>
    BY SubSeqEmpty
  <2>2. SubSeq(sq, 1, 0) \in K
    BY <2>1, Zenon
  <2>3. 0 \in 0 .. n
    OBVIOUS
  <2> QED
    BY <2>2, <2>3, Zenon
<1>3. ASSUME NEW i \in 1 .. n, i - 1 \in G PROVE i \in G
  <2>1. i - 1 \in 0 .. Len(sq) /\ i \in 0 .. Len(sq) /\ sq[i] \in S /\ 1 \in 1 .. Len(sq)
    BY <1>1, ElementOfSeq
  <2>2. PICK s \in Seq(S) : /\ s = SubSeq(sq, 1, i - 1) /\ Len(s) = i - 1
                            /\ \A j \in 1 .. i - 1 : s[j] = sq[j]
    <3>1. PICK k \in 0 .. Len(sq) : k = i - 1
      BY <2>1
    <3>2. PICK p, q \in Seq(S) : /\ p = SubSeq(sq, 1, k) /\ Len(p) = k
                                 /\ \A j \in 1 .. k : p[j] = sq[j]
      BY CutInTwo
    <3> QED
      BY <3>1, <3>2
  <2>3. SubSeq(sq, 1, i) = s \o <<sq[i]>>
    <3>1. i \in 1 .. Len(sq)
      BY <1>1
    <3> QED
      BY <2>1, <2>2, <3>1, SubSeqRecursiveSecond
  <2>4. Append(s, sq[i]) = s \o <<sq[i]>>
    BY <2>1, <2>2, AppendIsConcat
  <2>5. Append(s, sq[i]) \in K
    BY <1>1, <1>3, <2>2
  <2> QED
    BY <1>1, <2>1, <2>3, <2>4, <2>5
<1>4. G = 0 .. n
  <2>1. G \in SUBSET (0 .. n)
    OBVIOUS
  <2> HIDE DEF G
  <2> QED
    BY <1>2, <1>3, <2>1, Induct
<1>5. SubSeq(sq, 1, n) \in K
  BY <1>4
<1> QED
  BY <1>1, <1>5, SubSeqFull

-----------------------------------------------------------------------------
(* Lower case and slashes: token by token, and no separator and no dots come    *)
(* or go.                                                                     *)

Lower(t) == IF t \in DOMAIN LowerCase THEN LowerCase[t] ELSE t

LEMMA LowerKeeps ==
  ASSUME NEW t \in Token
  PROVE  /\ Lower(t) \in Token /\ (IsSeparator(Lower(t)) <=> IsSeparator(t))
         /\ (Lower(t) \in Dots <=> t \in Dots) /\ (IsSeparator(t) => Lower(t) = t)
BY LowerCaseAssumption DEF Lower

LEMMA ToLowerType ==
  ASSUME NEW path \in Seq(Token)
  PROVE  /\ ToLower(path) \in Seq(Token) /\ Len(ToLower(path)) = Len(path)
         /\ \A i \in 1 .. Len(path) : ToLower(path)[i] = Lower(path[i])
<1>1. DOMAIN path = 1 .. Len(path) /\ Len(path) \in Nat
  BY LenProperties
<1>2. ToLower(path) = [i \in 1 .. Len(path) |-> Lower(path[i])]
  BY <1>1 DEF ToLower, Lower
<1>3. \A i \in 1 .. Len(path) : Lower(path[i]) \in Token
  BY ElementOfSeq, LowerKeeps
<1> QED
  BY <1>1, <1>2, <1>3, IsASeq

LEMMA SlashesType ==
  ASSUME NEW path \in Seq(Token)
  PROVE  /\ Slashes(path) \in Seq(Token) /\ Len(Slashes(path)) = Len(path)
         /\ \A i \in 1 .. Len(path) :
              Slashes(path)[i] = IF path[i] = Backslash THEN Slash ELSE path[i]
<1> DEFINE E(i) == IF path[i] = Backslash THEN Slash ELSE path[i]
<1>1. DOMAIN path = 1 .. Len(path) /\ Len(path) \in Nat
  BY LenProperties
<1>2. Slashes(path) = [i \in 1 .. Len(path) |-> E(i)]
  BY <1>1 DEF Slashes
<1>3. \A i \in 1 .. Len(path) : E(i) \in Token
  BY ElementOfSeq DEF Token
<1> QED
  BY <1>1, <1>2, <1>3, IsASeq

LEMMA ToLowerAppend ==
  ASSUME NEW path \in Seq(Token), NEW t \in Token
  PROVE  ToLower(Append(path, t)) = Append(ToLower(path), Lower(t))
<1>1. PICK r \in Seq(Token) : r = Append(path, t)
  BY AppendProperties
<1>2. Len(path) \in Nat /\ Len(r) = Len(path) + 1 /\ r[Len(path) + 1] = t
      /\ \A i \in 1 .. Len(path) : r[i] = path[i]
  BY <1>1, AppendProperties, LenProperties
<1>3. PICK low \in Seq(Token) : low = ToLower(path)
  BY ToLowerType
<1>4. PICK u \in Seq(Token) : u = Append(low, Lower(t))
  BY LowerKeeps, AppendProperties
<1>5. Len(low) = Len(path) /\ \A i \in 1 .. Len(path) : low[i] = Lower(path[i])
  BY <1>3, ToLowerType
<1>6. Len(u) = Len(path) + 1 /\ u[Len(path) + 1] = Lower(t)
      /\ \A i \in 1 .. Len(path) : u[i] = low[i]
  BY <1>4, <1>5, LowerKeeps, AppendProperties
<1>7. PICK v \in Seq(Token) : v = ToLower(r)
  BY ToLowerType
<1>8. Len(v) = Len(r) /\ \A i \in 1 .. Len(r) : v[i] = Lower(r[i])
  BY <1>7, ToLowerType
<1>9. v = u
  <2>1. ASSUME NEW i \in 1 .. Len(v) PROVE v[i] = u[i]
    <3>1. i \in 1 .. Len(r) /\ (i = Len(path) + 1 \/ i \in 1 .. Len(path))
      BY <1>2, <1>8
    <3> QED
      BY <1>2, <1>5, <1>6, <1>8, <3>1
  <2>2. Len(v) = Len(u)
    BY <1>2, <1>6, <1>8
  <2> QED
    BY <2>1, <2>2, SeqEqual
<1> QED
  BY <1>1, <1>3, <1>4, <1>7, <1>9

LEMMA ToLowerConcat ==
  ASSUME NEW p \in Seq(Token), NEW q \in Seq(Token)
  PROVE  ToLower(p \o q) = ToLower(p) \o ToLower(q)
<1>1. PICK r \in Seq(Token) : r = p \o q
  BY ConcatProperties
<1>2. /\ Len(p) \in Nat /\ Len(q) \in Nat /\ Len(r) = Len(p) + Len(q)
      /\ \A i \in 1 .. Len(r) : r[i] = IF i <= Len(p) THEN p[i] ELSE q[i - Len(p)]
  BY <1>1, ConcatProperties, LenProperties
<1>3. PICK lp, lq \in Seq(Token) : lp = ToLower(p) /\ lq = ToLower(q)
  BY ToLowerType
<1>4. /\ Len(lp) = Len(p) /\ \A i \in 1 .. Len(p) : lp[i] = Lower(p[i])
      /\ Len(lq) = Len(q) /\ \A i \in 1 .. Len(q) : lq[i] = Lower(q[i])
  BY <1>3, ToLowerType
<1>5. PICK u \in Seq(Token) : u = lp \o lq
  BY ConcatProperties
<1>6. /\ Len(u) = Len(r)
      /\ \A i \in 1 .. Len(r) : u[i] = IF i <= Len(p) THEN lp[i] ELSE lq[i - Len(p)]
  BY <1>2, <1>4, <1>5, ConcatProperties
<1>7. PICK v \in Seq(Token) : v = ToLower(r)
  BY ToLowerType
<1>8. Len(v) = Len(r) /\ \A i \in 1 .. Len(r) : v[i] = Lower(r[i])
  BY <1>7, ToLowerType
<1>9. ASSUME NEW i \in 1 .. Len(r) PROVE v[i] = u[i]
  <2>1. CASE i <= Len(p)
    <3>1. i \in 1 .. Len(p)
      BY <1>2, <2>1
    <3> QED
      BY <1>2, <1>4, <1>6, <1>8, <2>1, <3>1
  <2>2. CASE i > Len(p)
    <3>1. i - Len(p) \in 1 .. Len(q) /\ ~(i <= Len(p))
      BY <1>2, <2>2
    <3> QED
      BY <1>2, <1>4, <1>6, <1>8, <3>1
  <2> QED
    BY <1>2, <2>1, <2>2
<1>10. v = u
  BY <1>6, <1>8, <1>9, SeqEqual
<1> QED
  BY <1>1, <1>3, <1>5, <1>7, <1>10

-----------------------------------------------------------------------------
(* The console's reading of a path, one token after the other.                *)

Read(path) == Fold(AddToken, Nothing, ToLower(path))
Grown(names, t) == [names EXCEPT ![Len(names)] = Append(@, t)]

LEMMA GrownAppend ==
  ASSUME NEW front \in Seq(Seq(Token)), NEW name \in Seq(Token), NEW t \in Token
  PROVE  Grown(Append(front, name), t) = Append(front, Append(name, t))
<1>1. PICK new \in Seq(Token) : new = Append(name, t)
  BY AppendProperties
<1>2. PICK r \in Seq(Seq(Token)) : r = Append(front, name)
  BY AppendProperties
<1>3. /\ Len(front) \in Nat /\ Len(r) = Len(front) + 1 /\ r[Len(front) + 1] = name
      /\ \A i \in 1 .. Len(front) : r[i] = front[i]
  BY <1>2, AppendProperties, LenProperties
<1>4. PICK u \in Seq(Seq(Token)) : u = Append(front, new)
  BY AppendProperties
<1>5. /\ Len(u) = Len(front) + 1 /\ u[Len(front) + 1] = new
      /\ \A i \in 1 .. Len(front) : u[i] = front[i]
  BY <1>4, AppendProperties
<1>6. Len(r) \in 1 .. Len(r) /\ r[Len(r)] = name
  BY <1>3
<1>7. Grown(r, t) = [r EXCEPT ![Len(r)] = new]
  BY <1>1, <1>6 DEF Grown
<1>8. PICK v \in Seq(Seq(Token)) : v = [r EXCEPT ![Len(r)] = new]
  BY <1>6, ExceptSeq
<1>9. Len(v) = Len(r) /\ \A i \in 1 .. Len(r) : v[i] = IF i = Len(r) THEN new ELSE r[i]
  BY <1>6, <1>8, ExceptSeq
<1>10. ASSUME NEW i \in 1 .. Len(r) PROVE v[i] = u[i]
  <2>1. i = Len(front) + 1 \/ i \in 1 .. Len(front)
    BY <1>3
  <2> QED
    BY <1>3, <1>5, <1>9, <2>1
<1>11. v = u
  BY <1>3, <1>5, <1>9, <1>10, SeqEqual
<1> QED
  BY <1>1, <1>2, <1>4, <1>7, <1>8, <1>11

LEMMA GrownType ==
  ASSUME NEW names \in Seq(Seq(Token)), names # <<>>, NEW t \in Token
  PROVE  Grown(names, t) \in Seq(Seq(Token)) /\ Grown(names, t) # <<>>
<1>1. PICK front \in Seq(Seq(Token)), name \in Seq(Token) : names = Append(front, name)
  BY SequenceEmptyOrAppend
<1>2. PICK new \in Seq(Token) : new = Append(name, t)
  BY AppendProperties
<1>3. Grown(names, t) = Append(front, new)
  BY <1>1, <1>2, GrownAppend
<1>4. Append(front, new) \in Seq(Seq(Token)) /\ Append(front, new) # <<>>
  BY AppendProperties
<1> QED
  BY <1>3, <1>4

LEMMA ConcatAppendName ==
  \A s, u \in Seq(Seq(Token)), e \in Seq(Token) : s \o Append(u, e) = Append(s \o u, e)
BY ConcatAppend

LEMMA GrownConcat ==
  ASSUME NEW names \in Seq(Seq(Token)), names # <<>>, NEW t \in Token,
         NEW before \in Seq(Seq(Token))
  PROVE  Grown(before \o names, t) = before \o Grown(names, t)
<1>1. PICK front \in Seq(Seq(Token)), name \in Seq(Token) : names = Append(front, name)
  BY SequenceEmptyOrAppend
<1>2. PICK new \in Seq(Token) : new = Append(name, t)
  BY AppendProperties
<1>3. PICK r \in Seq(Seq(Token)) : r = before \o front
  BY ConcatProperties
<1>4. /\ before \o Append(front, name) = Append(before \o front, name)
      /\ before \o Append(front, new) = Append(before \o front, new)
  BY ConcatAppendName
<1>5. Grown(names, t) = Append(front, new) /\ Grown(Append(r, name), t) = Append(r, new)
  BY <1>1, <1>2, GrownAppend
<1> QED
  BY <1>1, <1>3, <1>4, <1>5

(* What a token does to a reading: it ends the name, adds to it or begins one.   *)
LEMMA AddTokenIs ==
  ASSUME NEW r \in Readings, NEW t \in Token
  PROVE  /\ IsSeparator(t) => AddToken[<<r, t>>] = [names |-> r.names, open |-> FALSE]
         /\ ~IsSeparator(t) /\ r.open
              => AddToken[<<r, t>>] = [names |-> Grown(r.names, t), open |-> TRUE]
         /\ ~IsSeparator(t) /\ ~r.open
              => AddToken[<<r, t>>] = [names |-> Append(r.names, <<t>>), open |-> TRUE]
<1>1. AddToken[<<r, t>>] =
        [names |-> IF IsSeparator(t) THEN r.names
                   ELSE IF r.open THEN Grown(r.names, t) ELSE Append(r.names, <<t>>),
         open  |-> ~IsSeparator(t)]
  BY DEF AddToken, Grown
<1>2. CASE IsSeparator(t)
  BY <1>1, <1>2
<1>3. CASE ~IsSeparator(t) /\ r.open
  BY <1>1, <1>3
<1>4. CASE ~IsSeparator(t) /\ ~r.open
  BY <1>1, <1>4
<1> QED
  BY <1>2, <1>3, <1>4

LEMMA AddTokenNames ==
  ASSUME NEW r \in Readings, NEW t \in Token
  PROVE  AddToken[<<r, t>>].names =
           IF IsSeparator(t) THEN r.names
           ELSE IF r.open THEN Grown(r.names, t) ELSE Append(r.names, <<t>>)
BY DEF AddToken, Grown

LEMMA AddTokenType ==
  ASSUME NEW r \in Readings, NEW t \in Token
  PROVE  /\ AddToken[<<r, t>>] \in Readings
         /\ AddToken[<<r, t>>].open <=> ~IsSeparator(t)
<1>1. r.names \in Seq(Seq(Token)) /\ (r.open => r.names # <<>>)
  BY DEF Readings
<1>2. CASE IsSeparator(t)
  <2>1. PICK names \in Seq(Seq(Token)) : names = r.names
    BY <1>1
  <2>2. AddToken[<<r, t>>] = [names |-> names, open |-> FALSE]
    BY <1>2, <2>1, AddTokenIs
  <2> QED
    BY <1>2, <2>2 DEF Readings
<1>3. CASE ~IsSeparator(t) /\ r.open
  <2>1. PICK names \in Seq(Seq(Token)) : names = Grown(r.names, t) /\ names # <<>>
    BY <1>1, <1>3, GrownType
  <2>2. AddToken[<<r, t>>] = [names |-> names, open |-> TRUE]
    BY <1>3, <2>1, AddTokenIs
  <2> QED
    BY <1>3, <2>1, <2>2 DEF Readings
<1>4. CASE ~IsSeparator(t) /\ ~r.open
  <2>1. <<t>> \in Seq(Token)
    OBVIOUS
  <2>2. PICK names \in Seq(Seq(Token)) : names = Append(r.names, <<t>>) /\ names # <<>>
    BY <1>1, <2>1, AppendProperties
  <2>3. AddToken[<<r, t>>] = [names |-> names, open |-> TRUE]
    BY <1>4, <2>2, AddTokenIs
  <2> QED
    BY <1>4, <2>2, <2>3 DEF Readings
<1> QED
  BY <1>2, <1>3, <1>4

LEMMA ReadingIsLoop ==
  ASSUME NEW r \in Readings, NEW p \in Seq(Token)
  PROVE  IsLoop(Readings, Token, AddToken, r, p)
<1>1. AddToken \in [Readings \X Token -> Readings]
  <2>1. \A x \in Readings \X Token : AddToken[x] \in Readings
    <3> SUFFICES ASSUME NEW x \in Readings \X Token PROVE AddToken[x] \in Readings
      OBVIOUS
    <3>1. PICK read \in Readings, t \in Token : x = <<read, t>>
      OBVIOUS
    <3> QED
      BY <3>1, AddTokenType
  <2>2. AddToken = [x \in Readings \X Token |-> AddToken[x]]
    BY DEF AddToken
  <2> QED
    BY <2>1, <2>2
<1> QED
  BY <1>1 DEF IsLoop

LEMMA NothingIsReading == Nothing \in Readings /\ Nothing.names = <<>> /\ Nothing.open = FALSE
<1>1. <<>> \in Seq(Seq(Token))
  BY EmptySeq
<1> QED
  BY <1>1 DEF Nothing, Readings

(* Reading goes on where it was, and is inside a name after anything but a       *)
(* separator.                                                                 *)
LEMMA ReadType ==
  ASSUME NEW p \in Seq(Token)
  PROVE  Read(p) \in Readings /\ Names(p) = Read(p).names /\ Names(p) \in Seq(Seq(Token))
<1>1. PICK low \in Seq(Token) : low = ToLower(p)
  BY ToLowerType
<1>2. IsLoop(Readings, Token, AddToken, Nothing, low)
  BY NothingIsReading, ReadingIsLoop
<1>3. Fold(AddToken, Nothing, low) \in Readings
  BY <1>2, FoldEnds
<1>4. Read(p) \in Readings /\ Names(p) = Read(p).names
  BY <1>1, <1>3 DEF Read, Names
<1> QED
  BY <1>4 DEF Readings

LEMMA ReadAppend ==
  ASSUME NEW p \in Seq(Token), NEW t \in Token
  PROVE  /\ Read(Append(p, t)) = AddToken[<<Read(p), Lower(t)>>]
         /\ Read(Append(p, t)).open <=> ~IsSeparator(t)
<1>1. PICK low \in Seq(Token) : low = ToLower(p)
  BY ToLowerType
<1>2. IsLoop(Readings, Token, AddToken, Nothing, low)
  BY NothingIsReading, ReadingIsLoop
<1>3. PICK u \in Token : u = Lower(t) /\ (IsSeparator(u) <=> IsSeparator(t))
  BY LowerKeeps
<1>4. Fold(AddToken, Nothing, Append(low, u)) = AddToken[<<Fold(AddToken, Nothing, low), u>>]
  BY <1>2, FoldAppend
<1>5. ToLower(Append(p, t)) = Append(low, u)
  BY <1>1, <1>3, ToLowerAppend
<1>6. Read(Append(p, t)) = AddToken[<<Read(p), u>>]
  BY <1>1, <1>4, <1>5 DEF Read
<1>7. AddToken[<<Read(p), u>>].open <=> ~IsSeparator(u)
  BY ReadType, AddTokenType
<1> QED
  BY <1>3, <1>6, <1>7

LEMMA ReadNothing == ToLower(<<>>) = <<>> /\ Read(<<>>) = Nothing /\ Names(<<>>) = <<>>
<1>1. <<>> \in Seq(Token)
  BY EmptySeq
<1>2. IsLoop(Readings, Token, AddToken, Nothing, <<>>)
  BY <1>1, NothingIsReading, ReadingIsLoop
<1>3. ToLower(<<>>) = <<>>
  <2>1. ToLower(<<>>) \in Seq(Token) /\ Len(ToLower(<<>>)) = Len(<<>>)
    BY <1>1, ToLowerType
  <2> QED
    BY <2>1, EmptySeq
<1>4. Fold(AddToken, Nothing, <<>>) = Nothing
  BY <1>2, FoldEmpty
<1> QED
  BY <1>3, <1>4, NothingIsReading DEF Read, Names

(* What is read behind a separator adds its names to those that were there.     *)
LEMMA ReadBehind ==
  ASSUME NEW r \in Readings, ~r.open, NEW q \in Seq(Token)
  PROVE  Fold(AddToken, r, q).names = r.names \o Fold(AddToken, Nothing, q).names
<1> DEFINE R == {x \in Readings \X Readings :
                   x[1].names = r.names \o x[2].names /\ (x[1].open <=> x[2].open)}
<1>1. \A s, u \in Readings : <<s, u>> \in R <=>
        s.names = r.names \o u.names /\ (s.open <=> u.open)
  OBVIOUS
<1> HIDE DEF R
<1>2. r.names \in Seq(Seq(Token)) /\ (~r.open <=> r.open = FALSE)
  BY DEF Readings
<1>3. <<r, Nothing>> \in R
  <2>1. r.names \o <<>> = r.names
    BY <1>2, ConcatEmptySeq
  <2> QED
    BY <1>1, <2>1, NothingIsReading
<1>4. ASSUME NEW t \in Token, NEW s \in Readings, NEW u \in Readings, <<s, u>> \in R
      PROVE  <<AddToken[<<s, t>>], AddToken[<<u, t>>]>> \in R
  <2>1. s.names = r.names \o u.names /\ (s.open <=> u.open)
    BY <1>1, <1>4
  <2>2. u.names \in Seq(Seq(Token)) /\ (u.open => u.names # <<>>)
    BY DEF Readings
  <2>3. PICK s2, u2 \in Readings : s2 = AddToken[<<s, t>>] /\ u2 = AddToken[<<u, t>>]
    BY AddTokenType
  <2>4. s2.open <=> u2.open
    BY <2>3, AddTokenType
  <2>5. s2.names = r.names \o u2.names
    <3>1. CASE IsSeparator(t)
      BY <2>1, <2>3, <3>1, AddTokenNames
    <3>2. CASE ~IsSeparator(t) /\ u.open
      <4>1. s2.names = Grown(r.names \o u.names, t) /\ u2.names = Grown(u.names, t)
        BY <2>1, <2>3, <3>2, AddTokenNames
      <4> QED
        BY <1>2, <2>2, <3>2, <4>1, GrownConcat
    <3>3. CASE ~IsSeparator(t) /\ ~u.open
      <4>1. PICK name \in Seq(Token) : name = <<t>>
        <5>1. <<t>> \in Seq(Token)
          OBVIOUS
        <5> QED
          BY <5>1, Zenon
      <4>2. s2.names = Append(r.names \o u.names, name) /\ u2.names = Append(u.names, name)
        BY <2>1, <2>3, <3>3, <4>1, AddTokenNames
      <4> QED
        BY <1>2, <2>2, <4>2, ConcatAppendName
    <3> QED
      BY <3>1, <3>2, <3>3
  <2> QED
    BY <1>1, <2>3, <2>4, <2>5
<1>5. /\ IsLoop(Readings, Token, AddToken, r, q)
      /\ IsLoop(Readings, Token, AddToken, Nothing, q)
  BY ReadingIsLoop, NothingIsReading
<1>6. \A i \in 1 .. Len(q) : q[i] \in Token
  BY ElementOfSeq
<1>7. <<Fold(AddToken, r, q), Fold(AddToken, Nothing, q)>> \in R
  BY <1>3, <1>4, <1>5, <1>6, FoldsRelated
<1>8. Fold(AddToken, r, q) \in Readings /\ Fold(AddToken, Nothing, q) \in Readings
  BY <1>5, FoldEnds
<1> QED
  BY <1>1, <1>7, <1>8

(* A separator behind a path adds nothing to its names and ends the last one.    *)
LEMMA ReadSeparator ==
  ASSUME NEW p \in Seq(Token), NEW t \in Token, IsSeparator(t)
  PROVE  Read(Append(p, t)).names = Names(p) /\ Read(Append(p, t)).open = FALSE
<1>1. Lower(t) = t
  BY LowerKeeps
<1>2. PICK r \in Readings : r = Read(p) /\ r.names = Names(p)
  BY ReadType
<1>3. Read(Append(p, t)) = AddToken[<<r, t>>]
  BY <1>1, <1>2, ReadAppend
<1>4. AddToken[<<r, t>>] = [names |-> r.names, open |-> FALSE]
  BY AddTokenIs
<1> QED
  BY <1>2, <1>3, <1>4

LEMMA NamesSeparator ==
  ASSUME NEW p \in Seq(Token), NEW t \in Token, IsSeparator(t)
  PROVE  Names(Append(p, t)) = Names(p)
<1>1. PICK r \in Seq(Token) : r = Append(p, t)
  BY AppendProperties
<1>2. Read(r).names = Names(p)
  BY <1>1, ReadSeparator
<1> QED
  BY <1>1, <1>2, ReadType

(* The names of two paths put together are those of both, unless the first ends   *)
(* in a name that the second goes on with.                                      *)
LEMMA NamesBehind ==
  ASSUME NEW p \in Seq(Token), NEW q \in Seq(Token), p = <<>> \/ IsSeparator(Last(p))
  PROVE  Names(p \o q) = Names(p) \o Names(q)
<1>1. PICK r \in Readings : r = Read(p)
  BY ReadType
<1>2. r.names = Names(p) /\ ~r.open
  <2>1. CASE p = <<>>
    BY <1>1, <2>1, ReadNothing, NothingIsReading
  <2>2. CASE p # <<>>
    <3>1. PICK s \in Seq(Token), t \in Token : p = Append(s, t)
      BY <2>2, SequenceEmptyOrAppend
    <3>2. IsSeparator(t)
      BY <2>2, <3>1, LastOfAppend
    <3>3. ~r.open
      BY <1>1, <3>1, <3>2, ReadSeparator
    <3> QED
      BY <1>1, <3>3, ReadType
  <2> QED
    BY <2>1, <2>2
<1>3. PICK lp, lq \in Seq(Token) : lp = ToLower(p) /\ lq = ToLower(q)
  BY ToLowerType
<1>4. ToLower(p \o q) = lp \o lq
  BY <1>3, ToLowerConcat
<1>5. IsLoop(Readings, Token, AddToken, Nothing, lp)
  BY ReadingIsLoop, NothingIsReading
<1>6. Fold(AddToken, Nothing, lp \o lq) = Fold(AddToken, Fold(AddToken, Nothing, lp), lq)
  BY <1>5, FoldConcat
<1>7. Fold(AddToken, Nothing, lp) = r
  BY <1>1, <1>3 DEF Read
<1>8. Fold(AddToken, r, lq).names = r.names \o Fold(AddToken, Nothing, lq).names
  BY <1>2, ReadBehind
<1> QED
  BY <1>2, <1>3, <1>4, <1>6, <1>7, <1>8 DEF Names

LEMMA NamesApart ==
  ASSUME NEW p \in Seq(Token), NEW q \in Seq(Token), q = <<>> \/ IsSeparator(q[1])
  PROVE  Names(p \o q) = Names(p) \o Names(q)
<1>1. CASE q = <<>>
  <2>1. p \o <<>> = p
    BY ConcatEmptySeq
  <2>2. Names(p) \o <<>> = Names(p)
    BY ReadType, ConcatEmptySeq
  <2> QED
    BY <1>1, <2>1, <2>2, ReadNothing
<1>2. CASE q # <<>>
  <2>1. PICK t \in Token : t = q[1] /\ IsSeparator(t)
    <3>1. 1 \in 1 .. Len(q)
      BY <1>2, EmptySeq
    <3> QED
      BY <1>2, <3>1, ElementOfSeq
  <2>2. PICK one, rest \in Seq(Token) : q = one \o rest /\ one = <<t>>
    <3>1. Len(q) \in 1 .. Len(q) /\ 1 \in 1 .. Len(q)
      BY <1>2, EmptySeq
    <3>2. q = <<t>> \o SubSeq(q, 2, Len(q))
      <4>1. SubSeq(q, 1, Len(q)) = q
        BY SubSeqFull
      <4> QED
        BY <2>1, <3>1, <4>1, SubSeqRecursiveFirst
    <3>3. <<t>> \in Seq(Token) /\ SubSeq(q, 2, Len(q)) \in Seq(Token)
      BY <3>1, LenProperties
    <3> QED
      BY <3>2, <3>3, Zenon
  <2>3. /\ one = Append(<<>>, t) /\ <<>> \in Seq(Token)
        /\ Append(p, t) = p \o one
    BY <2>2, AppendIsConcat, EmptySeq
  <2>4. Names(one) = <<>> /\ Names(p \o one) = Names(p)
    BY <2>1, <2>3, NamesSeparator, ReadNothing
  <2>5. PICK b \in Seq(Token) : b = p \o one /\ b # <<>> /\ Last(b) = t
    BY <2>3, LastOfAppend
  <2>6. one # <<>> /\ Last(one) = t
    BY <2>3, LastOfAppend
  <2>7. Names(b \o rest) = Names(b) \o Names(rest)
    BY <2>1, <2>5, NamesBehind
  <2>8. Names(one \o rest) = Names(one) \o Names(rest)
    BY <2>1, <2>6, NamesBehind
  <2>9. Names(one) \o Names(rest) = Names(rest)
    BY <2>4, ReadType, ConcatEmptySeq
  <2>10. b \o rest = p \o q
    BY <2>2, <2>5, ConcatAssociative
  <2> QED
    BY <2>2, <2>4, <2>5, <2>7, <2>8, <2>9, <2>10
<1> QED
  BY <1>1, <1>2

(* Slashes for backslashes change no name.                                     *)
LEMMA NamesOfSlashes ==
  ASSUME NEW p \in Seq(Token)
  PROVE  Names(Slashes(p)) = Names(p)
<1>1. PICK s \in Seq(Token) : s = Slashes(p)
  BY SlashesType
<1>2. Len(s) = Len(p) /\ \A i \in 1 .. Len(p) : s[i] = IF p[i] = Backslash THEN Slash ELSE p[i]
  BY <1>1, SlashesType
<1>3. PICK lp, ls \in Seq(Token) : lp = ToLower(p) /\ ls = ToLower(s)
  BY ToLowerType
<1>4. /\ Len(lp) = Len(p) /\ \A i \in 1 .. Len(p) : lp[i] = Lower(p[i])
      /\ Len(ls) = Len(p) /\ \A i \in 1 .. Len(p) : ls[i] = Lower(s[i])
  BY <1>2, <1>3, ToLowerType
<1>5. ASSUME NEW i \in 1 .. Len(p)
      PROVE  lp[i] = ls[i] \/ (IsSeparator(lp[i]) /\ IsSeparator(ls[i]))
  <2>1. CASE p[i] = Backslash
    <3>1. lp[i] = Lower(Backslash) /\ ls[i] = Lower(Slash)
      BY <1>2, <1>4, <2>1
    <3>2. Backslash \in Token /\ Slash \in Token /\ IsSeparator(Backslash) /\ IsSeparator(Slash)
      BY DEF Token, IsSeparator
    <3> QED
      BY <3>1, <3>2, LowerKeeps
  <2>2. CASE p[i] # Backslash
    <3>1. s[i] = p[i] /\ lp[i] = Lower(p[i]) /\ ls[i] = Lower(s[i])
      BY <1>2, <1>4, <2>2
    <3> QED
      BY <3>1, Zenon
  <2> QED
    BY <2>1, <2>2
<1> DEFINE R == {x \in Readings \X Readings : x[1] = x[2]}
<1>6. \A u, v \in Readings : <<u, v>> \in R <=> u = v
  OBVIOUS
<1> HIDE DEF R
<1>7. ASSUME NEW i \in 1 .. Len(lp), NEW u \in Readings, NEW v \in Readings, <<u, v>> \in R
      PROVE  <<AddToken[<<u, lp[i]>>], AddToken[<<v, ls[i]>>]>> \in R
  <2>1. lp[i] \in Token /\ ls[i] \in Token /\ i \in 1 .. Len(p) /\ u = v
    BY <1>4, <1>6, <1>7, ElementOfSeq
  <2>2. AddToken[<<u, lp[i]>>] = AddToken[<<v, ls[i]>>]
    <3>1. CASE lp[i] = ls[i]
      BY <2>1, <3>1
    <3>2. CASE IsSeparator(lp[i]) /\ IsSeparator(ls[i])
      BY <2>1, <3>2, AddTokenIs
    <3> QED
      BY <1>5, <2>1, <3>1, <3>2
  <2>3. AddToken[<<u, lp[i]>>] \in Readings
    BY <2>1, AddTokenType
  <2> QED
    BY <1>6, <2>2, <2>3
<1>8. /\ IsLoop(Readings, Token, AddToken, Nothing, lp)
      /\ IsLoop(Readings, Token, AddToken, Nothing, ls)
  BY ReadingIsLoop, NothingIsReading
<1>9. <<Nothing, Nothing>> \in R /\ Len(lp) = Len(ls)
  BY <1>4, <1>6, NothingIsReading
<1>10. <<Fold(AddToken, Nothing, lp), Fold(AddToken, Nothing, ls)>> \in R
  <2>1. \A i \in 1 .. Len(lp) : \A u, v \in Readings :
          <<u, v>> \in R => <<AddToken[<<u, lp[i]>>], AddToken[<<v, ls[i]>>]>> \in R
    BY <1>7
  <2> QED
    BY <1>8, <1>9, <2>1, FoldsRelated, SMTT(30)
<1>11. Fold(AddToken, Nothing, lp) = Fold(AddToken, Nothing, ls)
  BY <1>6, <1>8, <1>10, FoldEnds
<1> QED
  BY <1>1, <1>3, <1>11 DEF Names

(* Without dots in a path there is none among its names.                       *)
NoDots(names) == \A i \in DOMAIN names : names[i] # <<".">> /\ names[i] # <<"..">>

LEMMA NamesWithoutDots ==
  ASSUME NEW p \in Seq(Token), ~HasDots(p)
  PROVE  NoDots(Names(p))
<1> DEFINE Fair(name) == name # <<>> /\ name[1] \notin Dots
           K == {r \in Readings : \A i \in 1 .. Len(r.names) : Fair(r.names[i])}
<1>1. PICK lp \in Seq(Token) : lp = ToLower(p)
  BY ToLowerType
<1>2. \A i \in 1 .. Len(lp) : lp[i] \in Token /\ lp[i] \notin Dots
  <2>1. DOMAIN p = 1 .. Len(p) /\ Len(lp) = Len(p) /\ \A i \in 1 .. Len(p) : p[i] \in Token
    BY <1>1, LenProperties, ElementOfSeq, ToLowerType
  <2> QED
    BY <1>1, <2>1, ToLowerType, LowerKeeps DEF HasDots
<1>3. Nothing \in K
  BY NothingIsReading, EmptySeq
<1>4. ASSUME NEW t \in Token, t \notin Dots, NEW r \in Readings, r \in K
      PROVE  AddToken[<<r, t>>] \in K
  <2>1. PICK new \in Readings : new = AddToken[<<r, t>>]
    BY AddTokenType
  <2>2. PICK old \in Seq(Seq(Token)) : old = r.names /\ (r.open => old # <<>>)
                                      /\ \A i \in 1 .. Len(old) : Fair(old[i])
    BY <1>4 DEF Readings
  <2>3. PICK names \in Seq(Seq(Token)) : names = new.names
    BY DEF Readings
  <2>4. \A i \in 1 .. Len(names) : Fair(names[i])
    <3>1. CASE IsSeparator(t)
      BY <2>1, <2>2, <2>3, <3>1, AddTokenNames
    <3>2. CASE ~IsSeparator(t) /\ r.open
      <4>1. PICK front \in Seq(Seq(Token)), name \in Seq(Token) : old = Append(front, name)
        BY <2>2, <3>2, SequenceEmptyOrAppend
      <4>2. PICK longer \in Seq(Token) : longer = Append(name, t) /\ longer # <<>>
        BY AppendProperties
      <4>3. names = Append(front, longer)
        <5>1. names = Grown(old, t)
          BY <2>1, <2>2, <2>3, <3>2, AddTokenNames
        <5> QED
          BY <4>1, <4>2, <5>1, GrownAppend
      <4>4. Fair(name) /\ \A i \in 1 .. Len(front) : Fair(front[i])
        <5>1. /\ Len(front) \in Nat /\ Len(old) = Len(front) + 1
              /\ old[Len(front) + 1] = name /\ \A i \in 1 .. Len(front) : old[i] = front[i]
          BY <4>1, AppendProperties, LenProperties
        <5>2. Len(front) + 1 \in 1 .. Len(old) /\ \A i \in 1 .. Len(front) : i \in 1 .. Len(old)
          BY <5>1
        <5> QED
          BY <2>2, <5>1, <5>2
      <4>5. Fair(longer)
        <5>1. 1 \in 1 .. Len(name) /\ name[1] \notin Dots
          BY <4>4, EmptySeq
        <5>2. longer[1] = name[1]
          BY <4>2, <5>1, AppendProperties
        <5> QED
          BY <4>2, <5>1, <5>2
      <4>6. /\ Len(front) \in Nat /\ Len(names) = Len(front) + 1
            /\ names[Len(front) + 1] = longer /\ \A i \in 1 .. Len(front) : names[i] = front[i]
        BY <4>3, AppendProperties, LenProperties
      <4> HIDE DEF Fair
      <4>7. ASSUME NEW i \in 1 .. Len(names) PROVE Fair(names[i])
        <5>1. i = Len(front) + 1 \/ i \in 1 .. Len(front)
          BY <4>6
        <5> QED
          BY <4>4, <4>5, <4>6, <5>1
      <4> QED
        BY <4>7
    <3>3. CASE ~IsSeparator(t) /\ ~r.open
      <4>1. PICK name \in Seq(Token) : name = <<t>> /\ Fair(name)
        <5>1. <<t>> \in Seq(Token) /\ <<t>> # <<>> /\ <<t>>[1] = t
          OBVIOUS
        <5> QED
          BY <1>4, <5>1
      <4>2. names = Append(old, name)
        BY <2>1, <2>2, <2>3, <3>3, <4>1, AddTokenNames
      <4>3. /\ Len(old) \in Nat /\ Len(names) = Len(old) + 1
            /\ names[Len(old) + 1] = name /\ \A i \in 1 .. Len(old) : names[i] = old[i]
        BY <4>2, AppendProperties, LenProperties
      <4> HIDE DEF Fair
      <4>4. ASSUME NEW i \in 1 .. Len(names) PROVE Fair(names[i])
        <5>1. i = Len(old) + 1 \/ i \in 1 .. Len(old)
          BY <4>3
        <5> QED
          BY <2>2, <4>1, <4>3, <5>1
      <4> QED
        BY <4>4
    <3> QED
      BY <3>1, <3>2, <3>3
  <2> QED
    BY <2>1, <2>3, <2>4
<1> HIDE DEF K
<1>5. IsLoop(Readings, Token, AddToken, Nothing, lp)
  BY ReadingIsLoop, NothingIsReading
<1>6. Fold(AddToken, Nothing, lp) \in K
  BY <1>2, <1>3, <1>4, <1>5, FoldStays
<1>7. PICK names \in Seq(Seq(Token)) : names = Names(p) /\ \A i \in 1 .. Len(names) : Fair(names[i])
  BY <1>1, <1>6 DEF Names, K, Readings
<1>8. DOMAIN names = 1 .. Len(names)
  BY LenProperties
<1>9. <<".">>[1] \in Dots /\ <<"..">>[1] \in Dots
  BY DEF Dots
<1> QED
  BY <1>7, <1>8, <1>9 DEF NoDots

(* What GetNewPath clears of double slashes has the names it had.              *)
LEMMA KeepTokenType ==
  ASSUME NEW s \in Seq(Token), NEW t \in Token
  PROVE  KeepToken[<<s, t>>] \in Seq(Token)
         /\ Read(KeepToken[<<s, t>>]) = AddToken[<<Read(s), Lower(t)>>]
<1>1. KeepToken[<<s, t>>] = IF t = Slash /\ s # <<>> /\ Last(s) = Slash THEN s ELSE Append(s, t)
  BY DEF KeepToken
<1>2. CASE t = Slash /\ s # <<>> /\ Last(s) = Slash
  <2>1. PICK u \in Seq(Token), e \in Token : s = Append(u, e)
    BY <1>2, SequenceEmptyOrAppend
  <2>2. IsSeparator(Slash) /\ e = Slash /\ Lower(t) = Slash
    BY <1>2, <2>1, LastOfAppend, LowerKeeps DEF IsSeparator
  <2>3. Read(s).names = Names(u) /\ Read(s).open = FALSE
    BY <2>1, <2>2, ReadSeparator
  <2>4. AddToken[<<Read(s), Slash>>] = [names |-> Read(s).names, open |-> FALSE]
    BY <1>2, <2>2, ReadType, AddTokenIs
  <2>5. Read(s) = [names |-> Read(s).names, open |-> FALSE]
    BY <2>3, ReadType DEF Readings
  <2> QED
    BY <1>1, <1>2, <2>2, <2>4, <2>5
<1>3. CASE ~(t = Slash /\ s # <<>> /\ Last(s) = Slash)
  <2>1. KeepToken[<<s, t>>] = Append(s, t)
    BY <1>1, <1>3
  <2> QED
    BY <2>1, ReadAppend, AppendProperties
<1> QED
  BY <1>2, <1>3

LEMMA NamesOfNoDoubleSlashes ==
  ASSUME NEW p \in Seq(Token)
  PROVE  NoDoubleSlashes(p) \in Seq(Token) /\ Names(NoDoubleSlashes(p)) = Names(p)
<1> DEFINE R == {x \in Seq(Token) \X Readings : Read(x[1]) = x[2]}
<1>1. \A s \in Seq(Token), u \in Readings : <<s, u>> \in R <=> Read(s) = u
  OBVIOUS
<1> HIDE DEF R
<1>2. PICK lp \in Seq(Token) : lp = ToLower(p)
  BY ToLowerType
<1>3. Len(lp) = Len(p) /\ \A i \in 1 .. Len(p) : p[i] \in Token /\ lp[i] = Lower(p[i])
  BY <1>2, ToLowerType, ElementOfSeq
<1>4. \A i \in 1 .. Len(p) : \A s \in Seq(Token), u \in Readings :
        <<s, u>> \in R => <<KeepToken[<<s, p[i]>>], AddToken[<<u, lp[i]>>]>> \in R
  <2> SUFFICES ASSUME NEW i \in 1 .. Len(p), NEW s \in Seq(Token), NEW u \in Readings, <<s, u>> \in R
               PROVE  <<KeepToken[<<s, p[i]>>], AddToken[<<u, lp[i]>>]>> \in R
    OBVIOUS
  <2>1. PICK t \in Token : t = p[i] /\ lp[i] = Lower(t) /\ Lower(t) \in Token
    BY <1>3, LowerKeeps
  <2>2. KeepToken[<<s, t>>] \in Seq(Token)
        /\ Read(KeepToken[<<s, t>>]) = AddToken[<<Read(s), Lower(t)>>]
    BY KeepTokenType
  <2>3. Read(s) = u /\ AddToken[<<u, Lower(t)>>] \in Readings
    BY <1>1, <2>1, AddTokenType
  <2> QED
    BY <1>1, <2>1, <2>2, <2>3
<1>5. IsLoop(Seq(Token), Token, KeepToken, <<>>, p)
  <2>1. KeepToken \in [Seq(Token) \X Token -> Seq(Token)]
    <3>1. \A x \in Seq(Token) \X Token : KeepToken[x] \in Seq(Token)
      <4> SUFFICES ASSUME NEW x \in Seq(Token) \X Token PROVE KeepToken[x] \in Seq(Token)
        OBVIOUS
      <4>1. PICK s \in Seq(Token), t \in Token : x = <<s, t>>
        OBVIOUS
      <4> QED
        BY <4>1, KeepTokenType
    <3>2. KeepToken = [x \in Seq(Token) \X Token |-> KeepToken[x]]
      BY DEF KeepToken
    <3> QED
      BY <3>1, <3>2
  <2> QED
    BY <2>1, EmptySeq DEF IsLoop
<1>6. IsLoop(Readings, Token, AddToken, Nothing, lp)
  BY ReadingIsLoop, NothingIsReading
<1>7. PICK none \in Seq(Token) : none = <<>>
  BY EmptySeq
<1>8. <<none, Nothing>> \in R /\ IsLoop(Seq(Token), Token, KeepToken, none, p)
  BY <1>1, <1>5, <1>7, ReadNothing, NothingIsReading
<1>9. <<Fold(KeepToken, none, p), Fold(AddToken, Nothing, lp)>> \in R
  BY <1>3, <1>4, <1>6, <1>8, FoldsRelated, SMTT(30)
<1>10. Fold(KeepToken, none, p) \in Seq(Token) /\ Fold(AddToken, Nothing, lp) \in Readings
  BY <1>6, <1>8, FoldEnds
<1>11. PICK kept \in Seq(Token) : kept = NoDoubleSlashes(p)
  BY <1>7, <1>10 DEF NoDoubleSlashes
<1>12. Read(kept) = Fold(AddToken, Nothing, lp)
  BY <1>1, <1>7, <1>9, <1>10, <1>11 DEF NoDoubleSlashes
<1> QED
  BY <1>2, <1>11, <1>12 DEF Names, Read

-----------------------------------------------------------------------------
(* Walking along names: part after part, and with no dots just down.            *)

LEMMA WalkIsLoop ==
  ASSUME NEW dir \in Seq(Seq(Token)), NEW names \in Seq(Seq(Token))
  PROVE  IsLoop(Seq(Seq(Token)), Seq(Token), Step, dir, names)
<1>1. \A at \in Seq(Seq(Token)), name \in Seq(Token) : Step[<<at, name>>] \in Seq(Seq(Token))
  <2> SUFFICES ASSUME NEW at \in Seq(Seq(Token)), NEW name \in Seq(Token)
               PROVE  Step[<<at, name>>] \in Seq(Seq(Token))
    OBVIOUS
  <2>1. Step[<<at, name>>] = CASE name = <<".">>  -> at
                               [] name = <<"..">> -> IF at = <<>> THEN at ELSE Front(at)
                               [] OTHER           -> Append(at, name)
    BY DEF Step
  <2>2. at # <<>> => Front(at) \in Seq(Seq(Token))
    <3>1. at # <<>> => Len(at) \in Nat /\ \A i \in 1 .. Len(at) - 1 : at[i] \in Seq(Token)
      BY LenProperties, ElementOfSeq
    <3> QED
      BY <3>1, SubSeqProperties DEF Front
  <2>3. Append(at, name) \in Seq(Seq(Token))
    BY AppendProperties
  <2>4. Step[<<at, name>>] \in {at, Front(at), Append(at, name)}
        /\ (Step[<<at, name>>] = Front(at) => at # <<>> \/ Front(at) \in {at, Append(at, name)})
    BY <2>1
  <2> QED
    BY <2>2, <2>3, <2>4
<1>2. Step \in [Seq(Seq(Token)) \X Seq(Token) -> Seq(Seq(Token))]
  <2>1. \A x \in Seq(Seq(Token)) \X Seq(Token) : Step[x] \in Seq(Seq(Token))
    <3> SUFFICES ASSUME NEW x \in Seq(Seq(Token)) \X Seq(Token) PROVE Step[x] \in Seq(Seq(Token))
      OBVIOUS
    <3>1. PICK at \in Seq(Seq(Token)), name \in Seq(Token) : x = <<at, name>>
      OBVIOUS
    <3> QED
      BY <1>1, <3>1
  <2>2. Step = [x \in Seq(Seq(Token)) \X Seq(Token) |-> Step[x]]
    BY DEF Step
  <2> QED
    BY <2>1, <2>2
<1> QED
  BY <1>2 DEF IsLoop

LEMMA WalkedOn ==
  ASSUME NEW dir \in Seq(Seq(Token)), NEW p \in Seq(Seq(Token)), NEW q \in Seq(Seq(Token))
  PROVE  /\ Walked(dir, p) \in Seq(Seq(Token))
         /\ Walked(dir, p \o q) = Walked(Walked(dir, p), q)
<1>1. IsLoop(Seq(Seq(Token)), Seq(Token), Step, dir, p)
  BY WalkIsLoop
<1>2. Fold(Step, dir, p) \in Seq(Seq(Token))
  BY <1>1, FoldEnds
<1>3. Fold(Step, dir, p \o q) = Fold(Step, Fold(Step, dir, p), q)
  BY <1>1, FoldConcat
<1> QED
  BY <1>2, <1>3 DEF Walked

LEMMA WalkedDown ==
  ASSUME NEW dir \in Seq(Seq(Token)), NEW names \in Seq(Seq(Token)), NoDots(names)
  PROVE  Walked(dir, names) = dir \o names
<1> DEFINE K == {s \in Seq(Seq(Token)) : Walked(dir, s) = dir \o s}
<1>1. \A s \in Seq(Seq(Token)) : s \in K <=> Walked(dir, s) = dir \o s
  OBVIOUS
<1> HIDE DEF K
<1>2. PICK none \in Seq(Seq(Token)) : none = <<>>
  BY EmptySeq
<1>3. none \in K
  <2>1. Fold(Step, dir, none) = dir
    BY <1>2, WalkIsLoop, FoldEmpty
  <2>2. dir \o <<>> = dir
    BY ConcatEmptySeq
  <2> QED
    BY <1>1, <1>2, <2>1, <2>2 DEF Walked
<1>4. ASSUME NEW i \in 1 .. Len(names), NEW s \in Seq(Seq(Token)), s \in K
      PROVE  Append(s, names[i]) \in K
  <2>1. PICK name \in Seq(Token) : name = names[i] /\ name # <<".">> /\ name # <<"..">>
    BY ElementOfSeq, LenProperties DEF NoDots
  <2>2. PICK longer \in Seq(Seq(Token)) : longer = Append(s, name)
    BY AppendProperties
  <2>3. Fold(Step, dir, longer) = Step[<<Fold(Step, dir, s), name>>]
    BY <2>2, WalkIsLoop, FoldAppend
  <2>4. PICK there \in Seq(Seq(Token)) : there = Fold(Step, dir, s) /\ there = dir \o s
    BY <1>1, <1>4, WalkedOn DEF Walked
  <2>5. Step[<<there, name>>] = Append(there, name)
    BY <2>1 DEF Step
  <2>6. dir \o Append(s, name) = Append(dir \o s, name)
    BY ConcatAppendName
  <2> QED
    BY <1>1, <2>1, <2>2, <2>3, <2>4, <2>5, <2>6 DEF Walked
<1>5. <<>> \in K
  BY <1>2, <1>3
<1>6. names \in K
  BY <1>4, <1>5, PrefixInduct
<1> QED
  BY <1>1, <1>6

-----------------------------------------------------------------------------
(* Prefixes.                                                                  *)

LEMMA PrefixAt ==
  ASSUME NEW S, NEW s \in Seq(S), NEW t \in Seq(S)
  PROVE  IsPrefix(s, t) <=> Len(s) <= Len(t) /\ \A i \in 1 .. Len(s) : s[i] = t[i]
<1>1. Len(s) \in Nat /\ Len(t) \in Nat /\ SubSeq(s, 1, Len(s)) = s
  BY LenProperties, SubSeqFull
<1>2. CASE Len(s) <= Len(t)
  <2>1. \A i \in 1 .. Len(s) : t[i] \in S
    BY <1>1, <1>2, ElementOfSeq
  <2>2. PICK u : u = SubSeq(t, 1, Len(s))
    OBVIOUS
  <2>3. u \in Seq(S) /\ Len(u) = Len(s) /\ \A i \in 1 .. Len(s) : u[i] = t[i]
    BY <1>1, <2>1, <2>2, SubSeqProperties
  <2>4. (\A i \in 1 .. Len(s) : s[i] = t[i]) => s = u
    BY <2>3, SeqEqual
  <2>5. s = u => \A i \in 1 .. Len(s) : s[i] = t[i]
    BY <2>3
  <2>6. IsPrefix(s, t) <=> s = u
    BY <1>1, <1>2, <2>2 DEF IsPrefix
  <2> QED
    BY <1>2, <2>4, <2>5, <2>6
<1>3. CASE ~(Len(s) <= Len(t))
  BY <1>3 DEF IsPrefix
<1> QED
  BY <1>2, <1>3

LEMMA PrefixOfConcat ==
  ASSUME NEW S, NEW s \in Seq(S), NEW t \in Seq(S)
  PROVE  IsPrefix(s, s \o t)
<1>1. PICK r \in Seq(S) : r = s \o t
  BY ConcatProperties
<1>2. /\ Len(s) \in Nat /\ Len(t) \in Nat /\ Len(r) = Len(s) + Len(t)
      /\ \A i \in 1 .. Len(r) : r[i] = IF i <= Len(s) THEN s[i] ELSE t[i - Len(s)]
  BY <1>1, ConcatProperties, LenProperties
<1>3. Len(s) <= Len(r) /\ \A i \in 1 .. Len(s) : s[i] = r[i]
  BY <1>2
<1> QED
  BY <1>1, <1>3, PrefixAt

LEMMA PrefixAndRest ==
  ASSUME NEW S, NEW s \in Seq(S), NEW t \in Seq(S), IsPrefix(s, t)
  PROVE  \E r \in Seq(S) : t = s \o r
<1>1. Len(s) <= Len(t) /\ \A i \in 1 .. Len(s) : s[i] = t[i]
  BY PrefixAt
<1>2. PICK n \in 0 .. Len(t) : n = Len(s)
  BY <1>1, LenProperties
<1>3. PICK p, q \in Seq(S) : t = p \o q /\ Len(p) = n /\ \A i \in 1 .. n : p[i] = t[i]
  BY CutInTwo
<1>4. p = s
  BY <1>1, <1>2, <1>3, SeqEqual
<1> QED
  BY <1>3, <1>4

LEMMA PrefixOfPrefix ==
  ASSUME NEW S, NEW s \in Seq(S), NEW t \in Seq(S), NEW u \in Seq(S),
         IsPrefix(s, t), IsPrefix(t, u)
  PROVE  IsPrefix(s, u)
<1>1. Len(s) \in Nat /\ Len(t) \in Nat /\ Len(u) \in Nat
  BY LenProperties
<1>2. /\ Len(s) <= Len(t) /\ \A i \in 1 .. Len(s) : s[i] = t[i]
      /\ Len(t) <= Len(u) /\ \A i \in 1 .. Len(t) : t[i] = u[i]
  BY PrefixAt
<1>3. Len(s) <= Len(u) /\ \A i \in 1 .. Len(s) : s[i] = u[i]
  BY <1>1, <1>2
<1> QED
  BY <1>3, PrefixAt

(* A path that starts with a prefix, whatever its case, is that prefix in another   *)
(* case and what GetNewPath keeps of it.                                       *)
LEMMA StartsWith ==
  ASSUME NEW full \in Seq(Token), NEW prefix \in Seq(Token),
         starts_with_case_insensitive(full, prefix)
  PROVE  \E pre, rest \in Seq(Token) :
           /\ full = pre \o rest /\ rest = SubSeq(full, Len(prefix) + 1, Len(full))
           /\ ToLower(pre) = ToLower(prefix)
           /\ rest # <<>> => Len(full) > Len(prefix) /\ rest[1] = full[Len(prefix) + 1]
<1>1. PICK lf, lp \in Seq(Token) : lf = ToLower(full) /\ lp = ToLower(prefix)
  BY ToLowerType
<1>2. /\ Len(lf) = Len(full) /\ Len(lp) = Len(prefix)
      /\ \A i \in 1 .. Len(full) : lf[i] = Lower(full[i])
  BY <1>1, ToLowerType
<1>3. Len(lp) <= Len(lf) /\ \A i \in 1 .. Len(lp) : lp[i] = lf[i]
  BY <1>1, PrefixAt DEF starts_with_case_insensitive
<1>4. PICK n \in 0 .. Len(full) : n = Len(prefix)
  BY <1>2, <1>3, LenProperties
<1>5. PICK pre, rest \in Seq(Token) :
        /\ pre = SubSeq(full, 1, n) /\ rest = SubSeq(full, n + 1, Len(full))
        /\ full = pre \o rest /\ Len(pre) = n /\ Len(rest) = Len(full) - n
        /\ \A i \in 1 .. n : pre[i] = full[i]
        /\ rest # <<>> => rest[1] = full[n + 1]
  BY CutInTwo
<1>6. PICK low \in Seq(Token) : low = ToLower(pre)
  BY ToLowerType
<1>7. Len(low) = n /\ \A i \in 1 .. n : low[i] = Lower(pre[i])
  BY <1>5, <1>6, ToLowerType
<1>8. low = lp
  <2>1. Len(full) \in Nat /\ Len(low) = Len(lp)
    BY <1>2, <1>4, <1>7, LenProperties
  <2>2. ASSUME NEW i \in 1 .. Len(low) PROVE low[i] = lp[i]
    <3>1. i \in 1 .. n /\ i \in 1 .. Len(full) /\ i \in 1 .. Len(lp)
      BY <1>4, <1>7, <2>1
    <3>2. low[i] = Lower(full[i]) /\ lp[i] = Lower(full[i])
      BY <1>2, <1>3, <1>5, <1>7, <3>1
    <3> QED
      BY <3>2
  <2> QED
    BY <2>1, <2>2, SeqEqual
<1>9. rest # <<>> => Len(full) > Len(prefix)
  <2>1. rest # <<>> => Len(rest) \in Nat \ {0}
    BY EmptySeq
  <2>2. Len(full) \in Nat /\ Len(rest) = Len(full) - n
    BY <1>5, LenProperties
  <2>3. rest # <<>> => Len(full) > n
    BY <2>1, <2>2
  <2> QED
    BY <1>4, <2>3
<1> QED
  BY <1>1, <1>4, <1>5, <1>6, <1>8, <1>9

-----------------------------------------------------------------------------
(* A path written out from its names: each behind a slash.                     *)

Write == [x \in Seq(Token) \X Seq(Token) |-> Append(x[1], Slash) \o x[2]]
Spell(names) == Fold(Write, <<>>, names)

LEMMA WriteIsLoop ==
  ASSUME NEW text \in Seq(Token), NEW names \in Seq(Seq(Token))
  PROVE  IsLoop(Seq(Token), Seq(Token), Write, text, names)
<1>1. Slash \in Token
  BY DEF Token
<1>2. \A s, name \in Seq(Token) : Write[<<s, name>>] \in Seq(Token)
  <2> SUFFICES ASSUME NEW s \in Seq(Token), NEW name \in Seq(Token)
               PROVE  Write[<<s, name>>] \in Seq(Token)
    OBVIOUS
  <2>1. PICK u \in Seq(Token) : u = Append(s, Slash)
    BY <1>1, AppendProperties
  <2>2. u \o name \in Seq(Token)
    BY ConcatProperties
  <2> QED
    BY <2>1, <2>2 DEF Write
<1>3. Write \in [Seq(Token) \X Seq(Token) -> Seq(Token)]
  <2>1. \A x \in Seq(Token) \X Seq(Token) : Write[x] \in Seq(Token)
    <3> SUFFICES ASSUME NEW x \in Seq(Token) \X Seq(Token) PROVE Write[x] \in Seq(Token)
      OBVIOUS
    <3>1. PICK s \in Seq(Token), name \in Seq(Token) : x = <<s, name>>
      OBVIOUS
    <3> QED
      BY <1>2, <3>1
  <2>2. Write = [x \in Seq(Token) \X Seq(Token) |-> Write[x]]
    BY DEF Write
  <2> QED
    BY <2>1, <2>2
<1> QED
  BY <1>3 DEF IsLoop

LEMMA SpellType ==
  ASSUME NEW names \in Seq(Seq(Token))
  PROVE  Spell(names) \in Seq(Token)
<1>1. <<>> \in Seq(Token)
  BY EmptySeq
<1>2. PICK none \in Seq(Token) : none = <<>>
  BY <1>1
<1>3. Fold(Write, none, names) \in Seq(Token)
  BY WriteIsLoop, FoldEnds
<1> QED
  BY <1>2, <1>3 DEF Spell

LEMMA SpellAppend ==
  ASSUME NEW names \in Seq(Seq(Token)), NEW name \in Seq(Token)
  PROVE  Spell(Append(names, name)) = Append(Spell(names), Slash) \o name
<1>1. PICK none \in Seq(Token) : none = <<>>
  BY EmptySeq
<1>2. Fold(Write, none, Append(names, name)) = Write[<<Fold(Write, none, names), name>>]
  BY WriteIsLoop, FoldAppend
<1>3. PICK text \in Seq(Token) : text = Spell(names)
  BY SpellType
<1>4. Write[<<text, name>>] = Append(text, Slash) \o name
  BY DEF Write
<1> QED
  BY <1>1, <1>2, <1>3, <1>4 DEF Spell

LEMMA SpellNothing == Spell(<<>>) = <<>>
<1>1. PICK none \in Seq(Token) : none = <<>>
  BY EmptySeq
<1>2. PICK names \in Seq(Seq(Token)) : names = <<>>
  BY EmptySeq
<1>3. Fold(Write, none, names) = none
  BY <1>2, WriteIsLoop, FoldEmpty
<1> QED
  BY <1>1, <1>2, <1>3 DEF Spell

(* Fewer names are written out to a prefix.                                    *)
LEMMA SpellPrefix ==
  ASSUME NEW names \in Seq(Seq(Token)), NEW more \in Seq(Seq(Token)), IsPrefix(names, more)
  PROVE  IsPrefix(Spell(names), Spell(more))
<1>1. PICK rest \in Seq(Seq(Token)) : more = names \o rest
  BY PrefixAndRest
<1>2. PICK text \in Seq(Token) : text = Spell(names)
  BY SpellType
<1>3. Spell(more) = Fold(Write, text, rest)
  <2>1. PICK none \in Seq(Token) : none = <<>>
    BY EmptySeq
  <2>2. Fold(Write, none, names \o rest) = Fold(Write, Fold(Write, none, names), rest)
    BY WriteIsLoop, FoldConcat
  <2> QED
    BY <1>1, <1>2, <2>1, <2>2 DEF Spell
<1> DEFINE K == {s \in Seq(Token) : IsPrefix(text, s)}
<1>4. \A s \in Seq(Token) : s \in K <=> IsPrefix(text, s)
  OBVIOUS
<1> HIDE DEF K
<1>5. text \in K
  BY <1>4, LenProperties, PrefixAt
<1>6. ASSUME NEW name \in Seq(Token), NEW s \in Seq(Token), s \in K
      PROVE  Write[<<s, name>>] \in K
  <2>1. Slash \in Token
    BY DEF Token
  <2>2. PICK u \in Seq(Token) : u = Append(s, Slash)
    BY <2>1, AppendProperties
  <2>3. PICK v \in Seq(Token) : v = u \o name
    BY ConcatProperties
  <2>4. IsPrefix(s, u)
    <3>1. Len(s) \in Nat /\ Len(u) = Len(s) + 1 /\ \A i \in 1 .. Len(s) : u[i] = s[i]
      BY <2>1, <2>2, AppendProperties, LenProperties
    <3>2. Len(s) <= Len(u) /\ \A i \in 1 .. Len(s) : s[i] = u[i]
      BY <3>1
    <3> QED
      BY <3>2, PrefixAt
  <2>5. IsPrefix(u, v)
    BY <2>3, PrefixOfConcat
  <2>6. IsPrefix(text, s)
    BY <1>4, <1>6
  <2>7. IsPrefix(text, u)
    BY <2>4, <2>6, PrefixOfPrefix
  <2>8. IsPrefix(text, v)
    BY <2>5, <2>7, PrefixOfPrefix
  <2>9. Write[<<s, name>>] = v
    BY <2>2, <2>3 DEF Write
  <2> QED
    BY <1>4, <2>8, <2>9
<1>7. Fold(Write, text, rest) \in K
  <2>1. \A i \in 1 .. Len(rest) : rest[i] \in Seq(Token)
    BY ElementOfSeq
  <2>2. IsLoop(Seq(Token), Seq(Token), Write, text, rest)
    BY WriteIsLoop
  <2>3. \A i \in 1 .. Len(rest) : \A s \in Seq(Token) : s \in K => Write[<<s, rest[i]>>] \in K
    BY <1>6, <2>1
  <2> QED
    BY <1>5, <2>2, <2>3, FoldStays
<1> QED
  BY <1>2, <1>3, <1>4, <1>7, SpellType

(* A path with slashes only, none of them behind another, is the slashes and the  *)
(* names of its reading and nothing else.                                      *)
SlashesOnly(p) ==
  /\ \A i \in 1 .. Len(p) : p[i] # Backslash
  /\ p # <<>> => p[1] = Slash
  /\ \A i \in 2 .. Len(p) : ~(p[i] = Slash /\ p[i - 1] = Slash)

LEMMA SpelledOut ==
  ASSUME NEW p \in Seq(Token), SlashesOnly(p), p # <<>>
  PROVE  ToLower(p) = IF Read(p).open THEN Spell(Names(p)) ELSE Append(Spell(Names(p)), Slash)
<1> DEFINE Fits(s) == s # <<>> => /\ Read(s).open <=> Last(s) # Slash
                                  /\ ToLower(s) = IF Read(s).open THEN Spell(Names(s))
                                                  ELSE Append(Spell(Names(s)), Slash)
           K == {s \in Seq(Token) : Fits(s)}
<1>1. <<>> \in K
  BY EmptySeq
<1>2. ASSUME NEW i \in 1 .. Len(p), NEW s \in Seq(Token), s \in K, Len(s) = i - 1,
             \A j \in 1 .. i - 1 : s[j] = p[j]
      PROVE  Append(s, p[i]) \in K
  <2>1. PICK t \in Token : t = p[i] /\ t # Backslash
    BY ElementOfSeq DEF SlashesOnly
  <2>2. IsSeparator(t) <=> t = Slash
    BY <2>1 DEF IsSeparator
  <2>3. PICK u \in Seq(Token) : u = Append(s, t) /\ u # <<>> /\ Last(u) = t
    BY LastOfAppend
  <2>4. PICK r \in Readings : r = Read(s) /\ r.names = Names(s)
    BY ReadType
  <2>5. PICK names \in Seq(Seq(Token)) : names = Names(s) /\ (r.open => names # <<>>)
    BY <2>4, ReadType DEF Readings
  <2>6. PICK low \in Seq(Token), text \in Seq(Token) : low = ToLower(s) /\ text = Spell(names)
    BY ToLowerType, SpellType
  <2>7. PICK lt \in Token : lt = Lower(t) /\ (t = Slash => lt = Slash)
                            /\ (IsSeparator(lt) <=> IsSeparator(t))
    BY <2>2, LowerKeeps
  <2>8. ToLower(u) = Append(low, lt)
    BY <2>3, <2>6, <2>7, ToLowerAppend
  <2>9. Read(u) = AddToken[<<r, lt>>] /\ (Read(u).open <=> t # Slash) /\ Names(u) = Read(u).names
    BY <2>2, <2>3, <2>4, <2>7, ReadAppend, ReadType
  <2>10. Names(u) = IF t = Slash THEN names
                    ELSE IF r.open THEN Grown(names, lt) ELSE Append(names, <<lt>>)
    BY <2>2, <2>4, <2>5, <2>7, <2>9, AddTokenNames
  <2>11. s # <<>> => low = IF r.open THEN text ELSE Append(text, Slash)
    BY <1>2, <2>4, <2>5, <2>6
  <2>12. s = <<>> => low = <<>> /\ names = <<>> /\ text = <<>> /\ t = Slash
    <3>1. s = <<>> => i = 1
      BY <1>2, EmptySeq
    <3>2. s = <<>> => t = Slash
      BY <2>1, <3>1, EmptySeq DEF SlashesOnly
    <3> QED
      BY <2>5, <2>6, <3>2, ReadNothing, SpellNothing
  <2>13. s # <<>> /\ t = Slash => r.open
    <3> SUFFICES ASSUME s # <<>>, t = Slash PROVE r.open
      OBVIOUS
    <3>1. i \in 2 .. Len(p) /\ i - 1 \in 1 .. i - 1
      <4>1. Len(s) \in Nat \ {0}
        BY EmptySeq
      <4> QED
        BY <1>2, <4>1
    <3>2. Last(s) = p[i - 1]
      BY <1>2, <3>1 DEF Last
    <3>3. p[i - 1] # Slash
      BY <2>1, <3>1 DEF SlashesOnly
    <3> QED
      BY <1>2, <2>4, <3>2, <3>3
  <2> HIDE DEF K
  <2>14. ToLower(u) = IF t # Slash THEN Spell(Names(u)) ELSE Append(Spell(Names(u)), Slash)
    <3>1. CASE t = Slash
      <4>1. low = text
        BY <2>11, <2>12, <2>13, <3>1
      <4> QED
        BY <2>6, <2>7, <2>8, <2>10, <3>1, <4>1
    <3>2. CASE t # Slash /\ r.open
      <4>1. low = text /\ names # <<>>
        BY <2>5, <2>11, <2>12, <3>2
      <4>2. PICK front \in Seq(Seq(Token)), name \in Seq(Token) : names = Append(front, name)
        BY <4>1, SequenceEmptyOrAppend
      <4>3. PICK longer \in Seq(Token) : longer = Append(name, lt)
        BY AppendProperties
      <4>4. Names(u) = Append(front, longer)
        BY <2>10, <3>2, <4>2, <4>3, GrownAppend
      <4>5. PICK head \in Seq(Token) : head = Append(Spell(front), Slash)
        BY SpellType, AppendProperties DEF Token
      <4>6. text = head \o name /\ Spell(Append(front, longer)) = head \o longer
        BY <2>6, <4>2, <4>5, SpellAppend
      <4>7. head \o longer = Append(head \o name, lt)
        BY <4>3, ConcatAppend
      <4> QED
        BY <2>8, <3>2, <4>1, <4>4, <4>6, <4>7
    <3>3. CASE t # Slash /\ ~r.open
      <4>1. PICK name \in Seq(Token) : name = <<lt>>
        <5>1. <<lt>> \in Seq(Token)
          OBVIOUS
        <5> QED
          BY <5>1
      <4>2. Names(u) = Append(names, name)
        BY <2>10, <3>3, <4>1
      <4>3. low = Append(text, Slash)
        BY <2>11, <2>12, <3>3
      <4>4. Spell(Append(names, name)) = Append(text, Slash) \o name
        BY <2>6, SpellAppend
      <4>5. low \o name = Append(low, lt)
        BY <4>1, AppendIsConcat
      <4> QED
        BY <2>8, <3>3, <4>2, <4>3, <4>4, <4>5
    <3> QED
      BY <3>1, <3>2, <3>3
  <2>15. Fits(u)
    BY <2>3, <2>9, <2>14
  <2> QED
    BY <2>1, <2>3, <2>15 DEF K
<1> HIDE DEF K
<1>3. p \in K
  BY <1>1, <1>2, PrefixInduct
<1> QED
  BY <1>3 DEF K

(* So the names of a prefix are not among those of a path that does not start     *)
(* with it.                                                                   *)
LEMMA PrefixByNames ==
  ASSUME NEW full \in Seq(Token), NEW prefix \in Seq(Token),
         SlashesOnly(full), full # <<>>, SlashesOnly(prefix), prefix # <<>>,
         Last(prefix) # Slash, IsPrefix(Names(prefix), Names(full))
  PROVE  starts_with_case_insensitive(full, prefix)
<1>1. PICK p, f \in Seq(Token) : p = Spell(Names(prefix)) /\ f = Spell(Names(full))
  BY ReadType, SpellType
<1>2. IsPrefix(p, f)
  BY <1>1, ReadType, SpellPrefix
<1>3. ToLower(prefix) = p
  <2>1. PICK s \in Seq(Token), t \in Token : prefix = Append(s, t)
    BY SequenceEmptyOrAppend
  <2>2. t # Slash /\ t # Backslash
    <3>1. Last(prefix) = t
      BY <2>1, LastOfAppend
    <3>2. Len(prefix) \in 1 .. Len(prefix)
      BY EmptySeq
    <3>3. Last(prefix) # Backslash
      BY <3>2 DEF Last, SlashesOnly
    <3> QED
      BY <3>1, <3>3
  <2>3. Read(prefix).open
    BY <2>1, <2>2, ReadAppend DEF IsSeparator
  <2> QED
    BY <1>1, <2>3, SpelledOut
<1>4. PICK lf \in Seq(Token) : lf = ToLower(full)
  BY ToLowerType
<1>5. IsPrefix(f, lf)
  <2>1. lf = f \/ lf = Append(f, Slash)
    BY <1>1, <1>4, SpelledOut
  <2>2. Slash \in Token
    BY DEF Token
  <2>3. CASE lf = f
    BY <2>3, LenProperties, PrefixAt
  <2>4. CASE lf = Append(f, Slash)
    <3>1. Len(f) \in Nat /\ Len(lf) = Len(f) + 1 /\ \A i \in 1 .. Len(f) : lf[i] = f[i]
      BY <2>2, <2>4, AppendProperties, LenProperties
    <3>2. Len(f) <= Len(lf) /\ \A i \in 1 .. Len(f) : f[i] = lf[i]
      BY <3>1
    <3> QED
      BY <3>2, PrefixAt
  <2> QED
    BY <2>1, <2>3, <2>4
<1>6. IsPrefix(p, lf)
  BY <1>2, <1>5, PrefixOfPrefix
<1> QED
  BY <1>3, <1>4, <1>6 DEF starts_with_case_insensitive

-----------------------------------------------------------------------------
(* Where paths lead.                                                          *)

LEMMA ResolvedTop ==
  ASSUME NEW p \in Seq(Token)
  PROVE  /\ Resolve(<<>>, p) = Walked(<<>>, Names(p)) /\ Resolve(<<>>, p) \in Seq(Seq(Token))
         /\ ~HasDots(p) => Resolve(<<>>, p) = Names(p)
<1>1. PICK top \in Seq(Seq(Token)) : top = <<>>
  BY EmptySeq
<1>2. PICK names \in Seq(Seq(Token)) : names = Names(p)
  BY ReadType
<1>3. Resolve(<<>>, p) = Walked(top, names)
  BY <1>1, <1>2 DEF Resolve
<1>4. Walked(top, names) \in Seq(Seq(Token))
  BY WalkedOn
<1>5. ~HasDots(p) => Walked(top, names) = top \o names
  BY <1>2, NamesWithoutDots, WalkedDown
<1>6. top \o names = names
  BY <1>1, ConcatEmptySeq
<1> QED
  BY <1>1, <1>2, <1>3, <1>4, <1>5, <1>6

LEMMA RestOfConcat ==
  ASSUME NEW S, NEW s \in Seq(S), NEW t \in Seq(S)
  PROVE  SubSeq(s \o t, Len(s) + 1, Len(s \o t)) = t
<1>1. PICK r \in Seq(S) : r = s \o t
  BY ConcatProperties
<1>2. /\ Len(s) \in Nat /\ Len(t) \in Nat /\ Len(r) = Len(s) + Len(t)
      /\ \A i \in 1 .. Len(r) : r[i] = IF i <= Len(s) THEN s[i] ELSE t[i - Len(s)]
  BY <1>1, ConcatProperties, LenProperties
<1>3. PICK u : u = SubSeq(r, Len(s) + 1, Len(r))
  OBVIOUS
<1>4. u \in Seq(S) /\ Len(u) = Len(t) /\ \A i \in 1 .. Len(t) : u[i] = r[Len(s) + i]
  <2>1. \A i \in Len(s) + 1 .. Len(r) : r[i] \in S
    BY <1>2, ElementOfSeq
  <2>2. /\ u \in Seq(S)
        /\ Len(u) = IF Len(s) + 1 <= Len(r) THEN Len(r) - (Len(s) + 1) + 1 ELSE 0
        /\ \A i \in 1 .. Len(r) - (Len(s) + 1) + 1 : u[i] = r[Len(s) + 1 + i - 1]
    BY <1>2, <1>3, <2>1, SubSeqProperties
  <2>3. Len(r) - (Len(s) + 1) + 1 = Len(t)
    BY <1>2
  <2>4. Len(u) = Len(t)
    BY <1>2, <2>2
  <2>5. ASSUME NEW i \in 1 .. Len(t) PROVE u[i] = r[Len(s) + i]
    <3>1. u[i] = r[Len(s) + 1 + i - 1] /\ Len(s) + 1 + i - 1 = Len(s) + i
      BY <1>2, <2>2, <2>3
    <3> QED
      BY <3>1
  <2> QED
    BY <2>2, <2>4, <2>5
<1>5. ASSUME NEW i \in 1 .. Len(u) PROVE u[i] = t[i]
  <2>1. Len(s) + i \in 1 .. Len(r) /\ ~(Len(s) + i <= Len(s)) /\ Len(s) + i - Len(s) = i
    BY <1>2, <1>4
  <2> QED
    BY <1>2, <1>4, <2>1
<1>6. u = t
  BY <1>4, <1>5, SeqEqual
<1> QED
  BY <1>1, <1>3, <1>6

(* A path without dots that starts with a prefix and does not go on behind it is   *)
(* below the prefix, and GetNewPath leads to the same place below the             *)
(* replacement.                                                               *)
LEMMA RedirectedPlace ==
  ASSUME NEW full \in Seq(Token), NEW prefix \in Seq(Token), NEW replacement \in Seq(Token),
         starts_with_case_insensitive(full, prefix), ~GoesOn(full, prefix), ~HasDots(full)
  PROVE  /\ IsPrefix(Names(prefix), Resolve(<<>>, full))
         /\ Resolve(<<>>, GetNewPath(full, prefix, replacement)) =
              Resolve(<<>>, replacement) \o
              SubSeq(Resolve(<<>>, full), Len(Names(prefix)) + 1, Len(Resolve(<<>>, full)))
<1>1. PICK pre, rest \in Seq(Token) :
        /\ full = pre \o rest /\ rest = SubSeq(full, Len(prefix) + 1, Len(full))
        /\ ToLower(pre) = ToLower(prefix)
        /\ rest # <<>> => Len(full) > Len(prefix) /\ rest[1] = full[Len(prefix) + 1]
  BY StartsWith
<1>2. rest = <<>> \/ IsSeparator(rest[1])
  BY <1>1 DEF GoesOn
<1>3. PICK top, below, place \in Seq(Seq(Token)) :
        /\ top = Names(prefix) /\ below = Names(rest) /\ place = Resolve(<<>>, full)
  BY ReadType, ResolvedTop
<1>4. place = top \o below /\ place = Names(full)
  <2>1. Names(pre) = top
    BY <1>1, <1>3 DEF Names
  <2>2. Names(pre \o rest) = Names(pre) \o Names(rest)
    BY <1>2, NamesApart
  <2> QED
    BY <1>1, <1>3, <2>1, <2>2, ResolvedTop
<1>5. IsPrefix(top, place)
  BY <1>4, PrefixOfConcat
<1>6. SubSeq(place, Len(top) + 1, Len(place)) = below
  BY <1>4, RestOfConcat
<1>7. NoDots(below)
  <2>1. NoDots(place)
    BY <1>4, NamesWithoutDots
  <2>2. PICK n, m \in Nat : n = Len(top) /\ m = Len(below)
    BY LenProperties
  <2>3. /\ Len(top \o below) = n + m
        /\ \A i \in 1 .. n + m : (top \o below)[i] = IF i <= n THEN top[i] ELSE below[i - n]
    BY <2>2, ConcatProperties
  <2>4. DOMAIN below = 1 .. m /\ DOMAIN place = 1 .. n + m
    BY <1>4, <2>2, <2>3, LenProperties
  <2>5. ASSUME NEW i \in 1 .. m
        PROVE  n + i \in 1 .. n + m /\ below[i] = place[n + i]
    <3>1. PICK j \in 1 .. n + m : j = n + i /\ ~(j <= n) /\ j - n = i
      OBVIOUS
    <3>2. place[j] = below[i]
      BY <1>4, <2>3, <3>1
    <3> QED
      BY <3>1, <3>2
  <2> QED
    BY <2>1, <2>4, <2>5 DEF NoDots
<1>8. PICK new \in Seq(Token) : new = replacement \o rest
  BY ConcatProperties
<1>9. PICK target \in Seq(Token) :
        target = GetNewPath(full, prefix, replacement) /\ Names(target) = Names(new)
  <2>1. PICK slashed \in Seq(Token) : slashed = Slashes(new) /\ Names(slashed) = Names(new)
    BY SlashesType, NamesOfSlashes
  <2>2. GetNewPath(full, prefix, replacement) = NoDoubleSlashes(slashed)
    BY <1>1, <1>8, <2>1 DEF GetNewPath
  <2> QED
    BY <2>1, <2>2, NamesOfNoDoubleSlashes
<1>10. PICK there \in Seq(Seq(Token)) : there = Resolve(<<>>, replacement)
  BY ResolvedTop
<1>11. Resolve(<<>>, target) = there \o below
  <2>1. PICK names \in Seq(Seq(Token)) : names = Names(replacement)
    BY ReadType
  <2>2. Names(target) = names \o below
    BY <1>2, <1>3, <1>8, <1>9, <2>1, NamesApart
  <2>3. PICK none \in Seq(Seq(Token)) : none = <<>>
    BY EmptySeq
  <2>4. Walked(none, names \o below) = Walked(Walked(none, names), below)
    BY WalkedOn
  <2>5. Walked(none, names) = there
    BY <1>10, <2>1, <2>3, ResolvedTop
  <2>6. Walked(there, below) = there \o below
    BY <1>7, WalkedDown
  <2> QED
    BY <2>2, <2>3, <2>4, <2>5, <2>6, ResolvedTop
<1> QED
  BY <1>3, <1>5, <1>6, <1>9, <1>10, <1>11

(* An absolute path with slashes only that does not start with a prefix, has no     *)
(* dots and no separators in a row is not below the prefix.                       *)
LEMMA NotBelow ==
  ASSUME NEW full \in Seq(Token), NEW prefix \in Seq(Token),
         Slashes(full) = full, IsAbsolute(full), ~HasDoubleSeparator(full), ~HasDots(full),
         Slashes(prefix) = prefix, IsAbsolute(prefix), ~HasDoubleSeparator(prefix),
         prefix[Len(prefix)] # Slash,
         IsPrefix(Names(prefix), Resolve(<<>>, full))
  PROVE  starts_with_case_insensitive(full, prefix)
<1>1. ASSUME NEW p \in Seq(Token), Slashes(p) = p, IsAbsolute(p), ~HasDoubleSeparator(p)
      PROVE  SlashesOnly(p) /\ p # <<>>
  <2>1. \A i \in 1 .. Len(p) : p[i] # Backslash
    <3>1. Slash # Backslash
      BY DEF Slash, Backslash
    <3> QED
      BY <1>1, <3>1, SlashesType
  <2>2. p # <<>> /\ Len(p) \in Nat \ {0} /\ IsSeparator(p[1])
    BY <1>1, EmptySeq DEF IsAbsolute
  <2>3. p[1] = Slash
    BY <2>1, <2>2 DEF IsSeparator
  <2>4. IsSeparator(Slash)
    BY DEF IsSeparator
  <2> QED
    BY <1>1, <2>1, <2>2, <2>3, <2>4 DEF SlashesOnly, HasDoubleSeparator
<1>2. SlashesOnly(full) /\ full # <<>> /\ SlashesOnly(prefix) /\ prefix # <<>>
  BY <1>1
<1>3. Resolve(<<>>, full) = Names(full)
  BY ResolvedTop
<1> QED
  BY <1>2, <1>3, PrefixByNames DEF Last
=============================================================================
