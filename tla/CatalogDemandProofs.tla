------------------------ MODULE CatalogDemandProofs -------------------------
(***************************************************************************)
(* Proofs about CatalogDemand, for every catalog and every chart.          *)
(*                                                                         *)
(* The first part is about sums.  What a fold computes is shown without    *)
(* induction over an operator: a set of counterexamples among the subsets  *)
(* of a finite set has a smallest member, and a smallest counterexample is *)
(* refuted by taking one element out of it.                                *)
(***************************************************************************)
EXTENDS CatalogDemand, FiniteSetTheorems, TLAPS

Sum(f, S) == SumFunctionOnSet(f, S)

(* What the fold is: the value at S of a recursive function on its subsets,*)
(* which takes out one element after the other.                            *)
Pick(s) == CHOOSE x \in s : TRUE
Adds(g, f, S) ==
    g = [s \in SUBSET S |-> IF s = {} THEN 0 ELSE f[Pick(s)] + g[s \ {Pick(s)}]]

LEMMA SumDef == \A f, S : Sum(f, S) = (CHOOSE g : Adds(g, f, S))[S]
BY DEF Sum, SumFunctionOnSet, FoldFunctionOnSet, MapThenFoldSet, Adds, Pick

LEMMA Smallest ==
    ASSUME NEW S, IsFiniteSet(S), NEW T, T \subseteq SUBSET S, T # {}
    PROVE  \E x \in T : \A y \in SUBSET S : y \subseteq x /\ y # x => y \notin T
<1>1. IsWellFoundedOn(StrictSubsetOrdering(S), SUBSET S)
  BY FS_FiniteSubsetsOfFinite, FS_StrictSubsetOrderingWellFounded
<1>2. PICK x \in T : \A y \in T : <<y, x>> \notin StrictSubsetOrdering(S)
  BY <1>1, WFMin
<1>3. ASSUME NEW y \in T, y \subseteq x, y # x PROVE FALSE
  BY <1>2, <1>3 DEF StrictSubsetOrdering
<1> QED BY <1>2, <1>3

LEMMA PickIn == ASSUME NEW s, s # {} PROVE Pick(s) \in s
BY DEF Pick

LEMMA AddsAt ==
    ASSUME NEW S, NEW f, NEW g, Adds(g, f, S), NEW s \in SUBSET S
    PROVE  g[s] = IF s = {} THEN 0 ELSE f[Pick(s)] + g[s \ {Pick(s)}]
BY DEF Adds

(* Two such functions agree where both are defined.                        *)
LEMMA AddsAgree ==
    ASSUME NEW S, IsFiniteSet(S), NEW R, NEW f, NEW g, NEW h,
           Adds(g, f, S), Adds(h, f, R), NEW X, X \subseteq S, X \subseteq R
    PROVE  g[X] = h[X]
<1> DEFINE T == {Y \in SUBSET S : Y \subseteq R /\ g[Y] # h[Y]}
<1> SUFFICES ASSUME T # {} PROVE FALSE
  OBVIOUS
<1>1. PICK Y \in T : \A Z \in SUBSET S : Z \subseteq Y /\ Z # Y => Z \notin T
  <2>1. T \subseteq SUBSET S OBVIOUS
  <2> HIDE DEF T
  <2> QED BY <2>1, Smallest
<1>2. Y # {}
  <2> SUFFICES ASSUME Y = {} PROVE FALSE
    OBVIOUS
  <2> QED BY AddsAt
<1>3. Pick(Y) \in Y BY <1>2, PickIn
<1>4. g[Y \ {Pick(Y)}] = h[Y \ {Pick(Y)}] BY <1>1, <1>3
<1>5. g[Y] = f[Pick(Y)] + g[Y \ {Pick(Y)}] BY <1>2, AddsAt
<1>6. h[Y] = f[Pick(Y)] + h[Y \ {Pick(Y)}]
  <2>1. Y \in SUBSET R OBVIOUS
  <2> HIDE DEF T
  <2>2. h[Y] = IF Y = {} THEN 0 ELSE f[Pick(Y)] + h[Y \ {Pick(Y)}]
    BY <2>1 DEF Adds
  <2> QED BY <2>2, <1>2
<1> QED BY <1>4, <1>5, <1>6

LEMMA AddsExists ==
    ASSUME NEW S, IsFiniteSet(S), NEW f PROVE \E g : Adds(g, f, S)
<1> DEFINE T == {Y \in SUBSET S : ~ \E g : Adds(g, f, Y)}
<1> SUFFICES ASSUME T # {} PROVE FALSE
  OBVIOUS
<1>1. PICK X \in T : \A Z \in SUBSET S : Z \subseteq X /\ Z # X => Z \notin T
  <2>1. T \subseteq SUBSET S OBVIOUS
  <2> HIDE DEF T
  <2> QED BY <2>1, Smallest
<1> DEFINE h(Y) == CHOOSE g : Adds(g, f, Y)
           G == [s \in SUBSET X |->
                   IF s = {} THEN 0 ELSE f[Pick(s)] + h(s \ {Pick(s)})[s \ {Pick(s)}]]
<1>2. \A Y \in SUBSET X : Y # X => Adds(h(Y), f, Y)
  BY <1>1
<1>3. ASSUME NEW s \in SUBSET X, s # {}
      PROVE  G[s \ {Pick(s)}] = h(s \ {Pick(s)})[s \ {Pick(s)}]
  <2> DEFINE Y == s \ {Pick(s)}
  <2>1. Y \in SUBSET X /\ Y # X BY <1>3, PickIn
  <2>2. Adds(h(Y), f, Y) BY <1>2, <2>1
  <2>3. h(Y)[Y] = IF Y = {} THEN 0 ELSE f[Pick(Y)] + h(Y)[Y \ {Pick(Y)}]
    <3> HIDE DEF h, Y
    <3>1. Y \in SUBSET Y OBVIOUS
    <3> QED BY <2>2, <3>1, AddsAt
  <2>4. ASSUME Y # {} PROVE h(Y)[Y \ {Pick(Y)}] = h(Y \ {Pick(Y)})[Y \ {Pick(Y)}]
    <3> DEFINE Z == Y \ {Pick(Y)}
    <3>1. Pick(Y) \in Y BY <2>4, PickIn
    <3>2. Z \in SUBSET X /\ Z # X /\ Z \subseteq Y BY <2>1, <3>1
    <3>3. Adds(h(Z), f, Z) BY <1>2, <3>2
    <3>4. IsFiniteSet(Y) BY <2>1, FS_Subset
    <3> HIDE DEF h, Y, Z
    <3>5. h(Y)[Z] = h(Z)[Z] BY <2>2, <3>2, <3>3, <3>4, AddsAgree
    <3> QED BY <3>5 DEF Z
  <2>5. G[Y] = IF Y = {} THEN 0 ELSE f[Pick(Y)] + h(Y \ {Pick(Y)})[Y \ {Pick(Y)}]
    BY <2>1
  <2> HIDE DEF h, G
  <2> QED BY <2>3, <2>4, <2>5
<1>4. Adds(G, f, X)
  <2> HIDE DEF h
  <2> QED BY <1>3 DEF Adds
<1> QED BY <1>4

LEMMA SumAdds ==
    ASSUME NEW S, IsFiniteSet(S), NEW f, NEW g, Adds(g, f, S), NEW X \in SUBSET S
    PROVE  Sum(f, X) = g[X]
<1> DEFINE h == CHOOSE k : Adds(k, f, X)
<1>1. IsFiniteSet(X) BY FS_Subset
<1>2. Adds(h, f, X) BY <1>1, AddsExists
<1>3. Sum(f, X) = h[X] BY SumDef
<1> HIDE DEF h
<1>4. h[X] = g[X] BY <1>1, <1>2, AddsAgree
<1> QED BY <1>3, <1>4

(* The recursion a sum obeys.                                              *)
LEMMA SumOne ==
    ASSUME NEW S, IsFiniteSet(S), NEW f
    PROVE  Sum(f, S) = IF S = {} THEN 0 ELSE f[Pick(S)] + Sum(f, S \ {Pick(S)})
<1>1. PICK g : Adds(g, f, S) BY AddsExists
<1>2. Sum(f, S) = g[S] BY <1>1, SumAdds
<1>3. Sum(f, S \ {Pick(S)}) = g[S \ {Pick(S)}] BY <1>1, SumAdds
<1> QED BY <1>1, <1>2, <1>3, AddsAt

LEMMA SumNone == \A f : Sum(f, {}) = 0
BY SumOne, FS_EmptySet

LEMMA SumNat ==
    ASSUME NEW S, IsFiniteSet(S), NEW f, \A x \in S : f[x] \in Nat
    PROVE  Sum(f, S) \in Nat
<1> DEFINE T == {Y \in SUBSET S : Sum(f, Y) \notin Nat}
<1> SUFFICES ASSUME T # {} PROVE FALSE
  OBVIOUS
<1>1. PICK Y \in T : \A Z \in SUBSET S : Z \subseteq Y /\ Z # Y => Z \notin T
  <2>1. T \subseteq SUBSET S OBVIOUS
  <2> HIDE DEF T
  <2> QED BY <2>1, Smallest
<1>2. Y # {} BY SumNone
<1>3. Pick(Y) \in Y BY <1>2, PickIn
<1>4. Sum(f, Y \ {Pick(Y)}) \in Nat BY <1>1, <1>3
<1>5. Sum(f, Y) = f[Pick(Y)] + Sum(f, Y \ {Pick(Y)})
  <2>1. IsFiniteSet(Y) BY FS_Subset
  <2> HIDE DEF T
  <2> QED BY <2>1, <1>2, SumOne
<1>6. f[Pick(Y)] \in Nat BY <1>3
<1> QED BY <1>4, <1>5, <1>6

(* Any element may be the one that is taken out.                           *)
LEMMA SumRemove ==
    ASSUME NEW S, IsFiniteSet(S), NEW f, \A x \in S : f[x] \in Nat, NEW a \in S
    PROVE  Sum(f, S) = f[a] + Sum(f, S \ {a})
<1> DEFINE T == {Y \in SUBSET S : \E x \in Y : Sum(f, Y) # f[x] + Sum(f, Y \ {x})}
<1> SUFFICES ASSUME T # {} PROVE FALSE
  OBVIOUS
<1>1. PICK Y \in T : \A Z \in SUBSET S : Z \subseteq Y /\ Z # Y => Z \notin T
  <2>1. T \subseteq SUBSET S OBVIOUS
  <2> HIDE DEF T
  <2> QED BY <2>1, Smallest
<1>2. PICK x \in Y : Sum(f, Y) # f[x] + Sum(f, Y \ {x})
  OBVIOUS
<1> DEFINE p == Pick(Y)
<1>3. p \in Y BY PickIn
<1>4. \A Z \in SUBSET S : IsFiniteSet(Z) /\ Sum(f, Z) \in Nat
  BY FS_Subset, SumNat
<1>5. Sum(f, Y) = f[p] + Sum(f, Y \ {p})
  BY <1>4, SumOne
<1>6. x # p BY <1>2, <1>5
<1>7. Sum(f, Y \ {p}) = f[x] + Sum(f, (Y \ {p}) \ {x})
  BY <1>1, <1>3, <1>6
<1>8. Sum(f, Y \ {x}) = f[p] + Sum(f, (Y \ {x}) \ {p})
  BY <1>1, <1>3, <1>6
<1>9. (Y \ {p}) \ {x} = (Y \ {x}) \ {p}
  OBVIOUS
<1>10. f[p] \in Nat /\ f[x] \in Nat /\ Sum(f, (Y \ {p}) \ {x}) \in Nat
  BY <1>3, <1>4
<1>11. \A a1, a2, a3 \in Nat : a1 + (a2 + a3) = a2 + (a1 + a3)
  OBVIOUS
<1>12. Sum(f, Y) = f[p] + (f[x] + Sum(f, (Y \ {p}) \ {x}))
  BY <1>5, <1>7
<1>13. f[x] + Sum(f, Y \ {x}) = f[x] + (f[p] + Sum(f, (Y \ {p}) \ {x}))
  BY <1>8, <1>9
<1> HIDE DEF T, p
<1> QED BY <1>2, <1>10, <1>11, <1>12, <1>13

LEMMA SumSame ==
    ASSUME NEW S, IsFiniteSet(S), NEW f, NEW g, \A x \in S : f[x] = g[x]
    PROVE  Sum(f, S) = Sum(g, S)
<1> DEFINE T == {Y \in SUBSET S : Sum(f, Y) # Sum(g, Y)}
<1> SUFFICES ASSUME T # {} PROVE FALSE
  OBVIOUS
<1>1. PICK Y \in T : \A Z \in SUBSET S : Z \subseteq Y /\ Z # Y => Z \notin T
  <2>1. T \subseteq SUBSET S OBVIOUS
  <2> HIDE DEF T
  <2> QED BY <2>1, Smallest
<1>2. Y # {} BY SumNone
<1>3. Pick(Y) \in Y BY <1>2, PickIn
<1>4. Sum(f, Y \ {Pick(Y)}) = Sum(g, Y \ {Pick(Y)}) BY <1>1, <1>3
<1>5. /\ Sum(f, Y) = f[Pick(Y)] + Sum(f, Y \ {Pick(Y)})
      /\ Sum(g, Y) = g[Pick(Y)] + Sum(g, Y \ {Pick(Y)})
  <2>1. IsFiniteSet(Y) BY FS_Subset
  <2> HIDE DEF T
  <2> QED BY <2>1, <1>2, SumOne
<1>6. f[Pick(Y)] = g[Pick(Y)] BY <1>3
<1> QED BY <1>4, <1>5, <1>6

LEMMA SumPositive ==
    ASSUME NEW S, IsFiniteSet(S), S # {}, NEW f,
           \A x \in S : f[x] \in Nat /\ f[x] > 0
    PROVE  Sum(f, S) \in Nat /\ Sum(f, S) > 0
<1>1. PICK a \in S : TRUE OBVIOUS
<1>2. Sum(f, S) = f[a] + Sum(f, S \ {a}) BY SumRemove
<1>3. IsFiniteSet(S \ {a}) BY FS_Subset
<1>4. Sum(f, S \ {a}) \in Nat BY <1>3, SumNat
<1> QED BY <1>2, <1>4

LEMMA SumZero ==
    ASSUME NEW S, IsFiniteSet(S), NEW f, \A x \in S : f[x] = 0
    PROVE  Sum(f, S) = 0
<1> DEFINE T == {Y \in SUBSET S : Sum(f, Y) # 0}
<1> SUFFICES ASSUME T # {} PROVE FALSE
  OBVIOUS
<1>1. PICK Y \in T : \A Z \in SUBSET S : Z \subseteq Y /\ Z # Y => Z \notin T
  <2>1. T \subseteq SUBSET S OBVIOUS
  <2> HIDE DEF T
  <2> QED BY <2>1, Smallest
<1>2. Y # {} BY SumNone
<1>3. Pick(Y) \in Y BY <1>2, PickIn
<1>4. Sum(f, Y \ {Pick(Y)}) = 0 BY <1>1, <1>3
<1>5. Sum(f, Y) = f[Pick(Y)] + Sum(f, Y \ {Pick(Y)})
  <2>1. IsFiniteSet(Y) BY FS_Subset
  <2> HIDE DEF T
  <2> QED BY <2>1, <1>2, SumOne
<1>6. f[Pick(Y)] = 0 BY <1>3
<1> QED BY <1>4, <1>5, <1>6

LEMMA OneMore ==
    ASSUME NEW S, IsFiniteSet(S), NEW x \in S
    PROVE  /\ Cardinality(S \ {x}) \in Nat
           /\ Cardinality(S) = Cardinality(S \ {x}) + 1
<1>1. IsFiniteSet(S \ {x}) /\ Cardinality(S \ {x}) = Cardinality(S) - 1
  BY FS_RemoveElement
<1>2. Cardinality(S) \in Nat /\ Cardinality(S \ {x}) \in Nat
  BY <1>1, FS_CardinalityType
<1> QED BY <1>1, <1>2

(* The pods of one Deployment.                                             *)
LEMMA Row ==
    ASSUME NEW i, NEW n \in Nat
    PROVE  IsFiniteSet({i} \X (1 .. n)) /\ Cardinality({i} \X (1 .. n)) = n
<1>1. IsFiniteSet({i}) /\ Cardinality({i}) = 1 BY FS_Singleton
<1>2. IsFiniteSet(1 .. n) /\ Cardinality(1 .. n) = IF 1 > n THEN 0 ELSE n - 1 + 1
  BY FS_Interval
<1>3. Cardinality(1 .. n) = n BY <1>2
<1> DEFINE I == 1 .. n
           J == {i}
<1> HIDE DEF I, J
<1>4. IsFiniteSet(J \X I) /\ Cardinality(J \X I) = Cardinality(J) * Cardinality(I)
  BY <1>1, <1>2, FS_Product DEF I, J
<1>5. Cardinality(J) * Cardinality(I) = n BY <1>1, <1>3 DEF I, J
<1> QED BY <1>4, <1>5 DEF I, J

(* Adding up over pairs is counting, for each first component, how often   *)
(* it occurs.                                                              *)
LEMMA SumOfPairs ==
    ASSUME NEW D, IsFiniteSet(D), NEW g \in [D -> Nat],
           NEW Q, IsFiniteSet(Q), \A p \in Q : p[1] \in D,
           NEW F, \A p \in Q : F[p] = g[p[1]]
    PROVE  Sum(F, Q) = Sum([i \in D |-> g[i] * Cardinality({p \in Q : p[1] = i})], D)
<1> DEFINE Of(Y, i) == {p \in Y : p[1] = i}
           H(Y) == [i \in D |-> g[i] * Cardinality(Of(Y, i))]
           T == {Y \in SUBSET Q : Sum(F, Y) # Sum(H(Y), D)}
<1> SUFFICES ASSUME T # {} PROVE FALSE
  OBVIOUS
<1>1. PICK Y \in T : \A Z \in SUBSET Q : Z \subseteq Y /\ Z # Y => Z \notin T
  <2>1. T \subseteq SUBSET Q OBVIOUS
  <2> HIDE DEF T
  <2> QED BY <2>1, Smallest
<1>2. \A Z \in SUBSET Q : \A i : IsFiniteSet(Of(Z, i)) /\ Cardinality(Of(Z, i)) \in Nat
  <2> SUFFICES ASSUME NEW Z \in SUBSET Q, NEW i
               PROVE  IsFiniteSet(Of(Z, i)) /\ Cardinality(Of(Z, i)) \in Nat
    OBVIOUS
  <2>1. Of(Z, i) \in SUBSET Q OBVIOUS
  <2> HIDE DEF Of, T
  <2>2. IsFiniteSet(Of(Z, i)) BY <2>1, FS_Subset
  <2> QED BY <2>2, FS_CardinalityType
<1>3. \A Z \in SUBSET Q : \A i \in D : H(Z)[i] \in Nat
  <2> HIDE DEF Of, T
  <2> QED BY <1>2
<1>4. Y # {}
  <2> SUFFICES ASSUME Y = {} PROVE FALSE
    OBVIOUS
  <2>1. \A i : Of(Y, i) = {} OBVIOUS
  <2>2. \A i \in D : H(Y)[i] = 0
    <3> HIDE DEF Of, T
    <3> QED BY <2>1, FS_EmptySet
  <2>3. Sum(H(Y), D) = 0
    <3> HIDE DEF H, Of, T
    <3> QED BY <2>2, SumZero
  <2> QED BY <2>3, SumNone
<1> DEFINE p == Pick(Y)
           Z == Y \ {p}
<1>5. p \in Y /\ Y \in SUBSET Q /\ Z \in SUBSET Q /\ p[1] \in D
  BY <1>4, PickIn
<1>6. Sum(F, Z) = Sum(H(Z), D)
  BY <1>1, <1>5
<1>7. Sum(F, Y) = g[p[1]] + Sum(H(Z), D)
  <2>1. IsFiniteSet(Y) BY <1>5, FS_Subset
  <2>2. Sum(F, Y) = F[p] + Sum(F, Z)
    <3> HIDE DEF T, Of, H
    <3> QED BY <2>1, <1>4, SumOne
  <2> QED BY <2>2, <1>5, <1>6
<1>8. \A i \in D \ {p[1]} : H(Y)[i] = H(Z)[i]
  <2>1. \A i \in D \ {p[1]} : Of(Y, i) = Of(Z, i) OBVIOUS
  <2> HIDE DEF T, Of, p, Z
  <2> QED BY <2>1
<1>9. H(Y)[p[1]] = g[p[1]] + H(Z)[p[1]]
  <2> DEFINE n == Cardinality(Of(Z, p[1]))
  <2>1. Of(Z, p[1]) = Of(Y, p[1]) \ {p} /\ p \in Of(Y, p[1])
    BY <1>5
  <2>2. IsFiniteSet(Of(Y, p[1]))
    <3> HIDE DEF T, Of, Z, p
    <3> QED BY <1>2, <1>5
  <2>3. n \in Nat /\ Cardinality(Of(Y, p[1])) = n + 1
    <3> HIDE DEF T, Of, Z, p
    <3> QED BY <2>1, <2>2, OneMore
  <2>4. g[p[1]] \in Nat BY <1>5
  <2>5. \A a, m \in Nat : a * (m + 1) = a + a * m
    OBVIOUS
  <2> HIDE DEF T, Of, Z, p, n
  <2>7. H(Y)[p[1]] = g[p[1]] * Cardinality(Of(Y, p[1])) BY <1>5
  <2>8. H(Z)[p[1]] = g[p[1]] * n BY <1>5 DEF n
  <2> QED BY <2>3, <2>4, <2>5, <2>7, <2>8
<1>10. IsFiniteSet(D \ {p[1]}) BY FS_Subset
<1> HIDE DEF T, Of, H, p, Z
<1>11. Sum(H(Y), D) = H(Y)[p[1]] + Sum(H(Y), D \ {p[1]})
  BY <1>3, <1>5, SumRemove
<1>12. Sum(H(Z), D) = H(Z)[p[1]] + Sum(H(Z), D \ {p[1]})
  BY <1>3, <1>5, SumRemove
<1>13. Sum(H(Y), D \ {p[1]}) = Sum(H(Z), D \ {p[1]})
  BY <1>8, <1>10, SumSame
<1>14. Sum(H(Z), D \ {p[1]}) \in Nat BY <1>3, <1>5, <1>10, SumNat
<1>15. g[p[1]] \in Nat /\ H(Z)[p[1]] \in Nat BY <1>3, <1>5
<1>16. Sum(F, Y) = Sum(H(Y), D)
  BY <1>7, <1>9, <1>11, <1>12, <1>13, <1>14, <1>15
<1> QED BY <1>16 DEF T

(* The pods of finitely many Deployments.                                  *)
LEMMA FinitelyManyPods ==
    ASSUME NEW D, IsFiniteSet(D), NEW r, \A i \in D : r[i] \in Nat
    PROVE  IsFiniteSet(UNION {{i} \X (1 .. r[i]) : i \in D})
<1> DEFINE P(E) == UNION {{i} \X (1 .. r[i]) : i \in E}
           T == {E \in SUBSET D : ~IsFiniteSet(P(E))}
<1> SUFFICES ASSUME T # {} PROVE FALSE
  OBVIOUS
<1>1. PICK E \in T : \A Z \in SUBSET D : Z \subseteq E /\ Z # E => Z \notin T
  <2>1. T \subseteq SUBSET D OBVIOUS
  <2> HIDE DEF T
  <2> QED BY <2>1, Smallest
<1>2. CASE E = {}
  <2>1. P(E) = {} BY <1>2
  <2> QED BY <2>1, FS_EmptySet
<1>3. CASE E # {}
  <2> DEFINE i == Pick(E)
  <2>1. i \in E BY <1>3, PickIn
  <2>2. IsFiniteSet(P(E \ {i})) BY <1>1, <2>1
  <2>4. IsFiniteSet({i} \X (1 .. r[i]))
    <3>1. r[i] \in Nat BY <2>1
    <3> HIDE DEF i, T, P
    <3> QED BY <3>1, Row
  <2>5. P(E) = P(E \ {i}) \cup ({i} \X (1 .. r[i]))
    <3>1. E = (E \ {i}) \cup {i} BY <2>1
    <3> HIDE DEF i
    <3> QED BY <3>1
  <2> DEFINE A == P(E \ {i})
             B == {i} \X (1 .. r[i])
  <2>6. IsFiniteSet(A) /\ IsFiniteSet(B) /\ P(E) = A \cup B
    BY <2>2, <2>4, <2>5
  <2> HIDE DEF A, B, P
  <2>7. IsFiniteSet(A \cup B) BY <2>6, FS_Union
  <2> QED BY <2>6, <2>7
<1> QED BY <1>2, <1>3

LEMMA SumOverPods ==
    ASSUME NEW D, IsFiniteSet(D), NEW g \in [D -> Nat], NEW r, \A i \in D : r[i] \in Nat,
           NEW F, \A p \in UNION {{i} \X (1 .. r[i]) : i \in D} : F[p] = g[p[1]]
    PROVE  Sum(F, UNION {{i} \X (1 .. r[i]) : i \in D}) = Sum([i \in D |-> g[i] * r[i]], D)
<1> DEFINE Q == UNION {{i} \X (1 .. r[i]) : i \in D}
<1>1. IsFiniteSet(Q) BY FinitelyManyPods
<1>2. \A p \in Q : p[1] \in D OBVIOUS
<1>3. ASSUME NEW i \in D PROVE Cardinality({p \in Q : p[1] = i}) = r[i]
  <2>1. {p \in Q : p[1] = i} = {i} \X (1 .. r[i]) OBVIOUS
  <2>2. r[i] \in Nat OBVIOUS
  <2>3. Cardinality({i} \X (1 .. r[i])) = r[i]
    <3> HIDE DEF Q
    <3> QED BY <2>2, Row
  <2> HIDE DEF Q
  <2> QED BY <2>1, <2>3
<1>4. \A p \in Q : F[p] = g[p[1]] OBVIOUS
<1> HIDE DEF Q
<1>5. Sum(F, Q) = Sum([i \in D |-> g[i] * Cardinality({p \in Q : p[1] = i})], D)
  BY <1>1, <1>2, <1>4, SumOfPairs
<1>6. [i \in D |-> g[i] * Cardinality({p \in Q : p[1] = i})] = [i \in D |-> g[i] * r[i]]
  BY <1>3
<1> QED BY <1>5, <1>6 DEF Q

-----------------------------------------------------------------------------
(* The demand of a chart *)

LEMMA SumOfFunction == \A f : SumFunction(f) = Sum(f, DOMAIN f)
BY DEF SumFunction, Sum

LEMMA QuantityTypes ==
    ASSUME NEW q \in Quantity
    PROVE  CpuRendered(q) \in Nat /\ CpuDeclared(q) \in Nat /\ Bytes(q) \in Nat
<1>1. q.n \in Nat BY DEF Quantity
<1>2. \A u \in DOMAIN Units : q.n * Units[u] \in Nat BY <1>1 DEF Units
<1>3. q.n * 1000 \in Nat BY <1>1
<1>4. Bytes(q) \in Nat BY <1>2 DEF Bytes
<1>5. CpuRendered(q) \in {q.n, q.n * 1000, 0} /\ CpuDeclared(q) \in {q.n, 0}
  BY DEF CpuRendered, CpuDeclared
<1> QED BY <1>1, <1>3, <1>4, <1>5

LEMMA UpTo == ASSUME NEW n \in Nat PROVE IsFiniteSet(1 .. n) /\ (1 .. n = {} <=> n = 0)
<1>1. IsFiniteSet(1 .. n) BY FS_Interval
<1> QED BY <1>1

LEMMA ContainerTypes ==
    ASSUME NEW c \in Seq(Requests)
    PROVE  /\ IsFiniteSet(DOMAIN c) /\ (DOMAIN c = {} <=> c = <<>>)
           /\ \A i \in DOMAIN c : CpuRendered(c[i].cpu) \in Nat /\ Bytes(c[i].memory) \in Nat
           /\ Millicores(c) \in Nat /\ Memory(c) \in Nat
<1>1. Len(c) \in Nat /\ DOMAIN c = 1 .. Len(c) OBVIOUS
<1>2. IsFiniteSet(DOMAIN c) /\ (DOMAIN c = {} <=> c = <<>>)
  <2>1. Len(c) = 0 <=> c = <<>> OBVIOUS
  <2> QED BY <1>1, <2>1, UpTo
<1>3. ASSUME NEW i \in DOMAIN c
      PROVE  CpuRendered(c[i].cpu) \in Nat /\ Bytes(c[i].memory) \in Nat
  <2>1. c[i] \in Requests BY <1>1
  <2>2. c[i].cpu \in Quantity /\ c[i].memory \in Quantity BY <2>1 DEF Requests
  <2> QED BY <2>2, QuantityTypes
<1> DEFINE f == [i \in DOMAIN c |-> CpuRendered(c[i].cpu)]
           g == [i \in DOMAIN c |-> Bytes(c[i].memory)]
<1>4. Millicores(c) = Sum(f, DOMAIN c) /\ Memory(c) = Sum(g, DOMAIN c)
  BY SumOfFunction DEF Millicores, Memory
<1>5. \A i \in DOMAIN c : f[i] \in Nat /\ g[i] \in Nat BY <1>3
<1> HIDE DEF f, g
<1>6. Sum(f, DOMAIN c) \in Nat /\ Sum(g, DOMAIN c) \in Nat
  BY <1>2, <1>5, SumNat
<1> QED BY <1>2, <1>3, <1>4, <1>6

LEMMA ContainersCounted ==
    ASSUME NEW c \in Seq(Requests), c # <<>>,
           \A i \in DOMAIN c : CpuRendered(c[i].cpu) > 0 /\ Bytes(c[i].memory) > 0
    PROVE  /\ Millicores(c) \in Nat /\ Millicores(c) > 0
           /\ Memory(c) \in Nat /\ Memory(c) > 0
           /\ ContainerRequests(c) = [cpu |-> Millicores(c), mem |-> Memory(c)]
<1> DEFINE f == [i \in DOMAIN c |-> CpuRendered(c[i].cpu)]
           g == [i \in DOMAIN c |-> Bytes(c[i].memory)]
<1>1. Millicores(c) = Sum(f, DOMAIN c) /\ Memory(c) = Sum(g, DOMAIN c)
  BY SumOfFunction DEF Millicores, Memory
<1>2. \A i \in DOMAIN c : f[i] \in Nat /\ f[i] > 0 /\ g[i] \in Nat /\ g[i] > 0
  BY ContainerTypes
<1>3. IsFiniteSet(DOMAIN c) /\ DOMAIN c # {} BY ContainerTypes
<1> HIDE DEF f, g
<1>4. Sum(f, DOMAIN c) \in Nat /\ Sum(f, DOMAIN c) > 0 BY <1>2, <1>3, SumPositive
<1>5. Sum(g, DOMAIN c) \in Nat /\ Sum(g, DOMAIN c) > 0 BY <1>2, <1>3, SumPositive
<1> QED BY <1>1, <1>4, <1>5 DEF ContainerRequests

LEMMA ManifestTypes ==
    ASSUME NEW d \in Manifest
    PROVE  /\ d.initContainers \in Nat /\ d.replicas \in Int /\ d.containers \in Seq(Requests)
           /\ CpuRendered(d.overhead.cpu) \in Nat /\ Bytes(d.overhead.memory) \in Nat
<1>1. /\ d.initContainers \in Nat /\ d.replicas \in Int /\ d.containers \in Seq(Requests)
      /\ d.overhead \in Requests
  BY DEF Manifest
<1>2. d.overhead.cpu \in Quantity /\ d.overhead.memory \in Quantity
  BY <1>1 DEF Requests
<1> QED BY <1>1, <1>2, QuantityTypes

(* A Deployment that can be counted demands what its pods cost, and any    *)
(* other is refused.                                                       *)
LEMMA DeploymentCounted ==
    ASSUME NEW d \in Manifest, Counts(d)
    PROVE  /\ PodMillicores(d) \in Nat /\ PodMillicores(d) > 0
           /\ PodMemory(d) \in Nat /\ PodMemory(d) > 0
           /\ d.replicas \in Nat /\ d.replicas > 0
           /\ DeploymentDemand(d) = [cpu |-> PodMillicores(d) * d.replicas,
                                     mem |-> PodMemory(d) * d.replicas]
<1> DEFINE c == d.containers
<1>1. /\ Millicores(c) \in Nat /\ Millicores(c) > 0 /\ Memory(c) \in Nat /\ Memory(c) > 0
      /\ ContainerRequests(c) = [cpu |-> Millicores(c), mem |-> Memory(c)]
  <2>1. /\ c \in Seq(Requests) /\ c # <<>>
        /\ \A i \in DOMAIN c : CpuRendered(c[i].cpu) > 0 /\ Bytes(c[i].memory) > 0
    BY ManifestTypes DEF Counts
  <2> HIDE DEF c
  <2> QED BY <2>1, ContainersCounted
<1>2. d.replicas \in Nat /\ d.replicas > 0 BY ManifestTypes DEF Counts
<1>3. ContainerRequests(c) # NoDemand BY <1>1 DEF NoDemand
<1>4. CpuRendered(d.overhead.cpu) \in Nat /\ Bytes(d.overhead.memory) \in Nat
  BY ManifestTypes
<1>5. DeploymentDemand(d) =
        [cpu |-> (ContainerRequests(c).cpu + CpuRendered(d.overhead.cpu)) * d.replicas,
         mem |-> (ContainerRequests(c).mem + Bytes(d.overhead.memory)) * d.replicas]
  BY <1>2, <1>3, <1>4 DEF DeploymentDemand, Counts
<1> QED BY <1>1, <1>2, <1>4, <1>5 DEF PodMillicores, PodMemory

LEMMA DeploymentRefused ==
    ASSUME NEW d \in Manifest, ~Counts(d)
    PROVE  DeploymentDemand(d) = NoDemand
<1> DEFINE c == d.containers
<1>1. c \in Seq(Requests) BY ManifestTypes
<1>2. CASE c = <<>>
  <2>1. DOMAIN c = {} BY <1>2
  <2>2. Millicores(c) = 0 /\ Memory(c) = 0
    BY <2>1, SumOfFunction, SumNone DEF Millicores, Memory
  <2>3. ContainerRequests(c) = NoDemand
    BY <2>1, <2>2 DEF ContainerRequests, NoDemand
  <2> QED BY <2>3 DEF DeploymentDemand
<1>3. CASE \E j \in DOMAIN c : ~(CpuRendered(c[j].cpu) > 0 /\ Bytes(c[j].memory) > 0)
  <2>1. PICK j \in DOMAIN c : ~(CpuRendered(c[j].cpu) > 0 /\ Bytes(c[j].memory) > 0)
    BY <1>3
  <2>2. CpuRendered(c[j].cpu) = 0 \/ Bytes(c[j].memory) = 0
    <3> HIDE DEF c
    <3>1. CpuRendered(c[j].cpu) \in Nat /\ Bytes(c[j].memory) \in Nat
      BY <1>1, ContainerTypes
    <3> QED BY <3>1, <2>1
  <2>3. ContainerRequests(c) = NoDemand BY <2>2 DEF ContainerRequests
  <2> QED BY <2>3 DEF DeploymentDemand
<1>4. CASE \/ d.initContainers # 0 \/ ~(d.replicas > 0)
           \/ d.overhead.cpu.unit # "unset" /\ ~(CpuRendered(d.overhead.cpu) > 0)
           \/ d.overhead.memory.unit # "unset" /\ ~(Bytes(d.overhead.memory) > 0)
  <2>1. \/ d.initContainers > 0 \/ d.replicas <= 0
        \/ d.overhead.cpu.unit # "unset" /\ CpuRendered(d.overhead.cpu) = 0
        \/ d.overhead.memory.unit # "unset" /\ Bytes(d.overhead.memory) = 0
    BY <1>4, ManifestTypes
  <2> QED BY <2>1 DEF DeploymentDemand
<1> QED BY <1>2, <1>3, <1>4 DEF Counts

LEMMA DeploymentTypes ==
    ASSUME NEW role \in EXPECTED_ROLES, chart \in [EXPECTED_ROLES -> Rendering]
    PROVE  /\ IsFiniteSet(Deployments(role))
           /\ \A i \in Deployments(role) : chart[role].manifests[i] \in Manifest
<1> DEFINE M == chart[role].manifests
<1>1. M \in Seq(Manifest) BY DEF Rendering
<1> HIDE DEF M
<1>2. DOMAIN M = 1 .. Len(M) /\ Len(M) \in Nat /\ \A i \in DOMAIN M : M[i] \in Manifest
  BY <1>1
<1>3. IsFiniteSet(DOMAIN M) BY <1>2, UpTo
<1>4. Deployments(role) \in SUBSET DOMAIN M BY DEF Deployments, M
<1>5. IsFiniteSet(Deployments(role)) BY <1>3, <1>4, FS_Subset
<1> QED BY <1>2, <1>4, <1>5 DEF M

LEMMA ProductPositive ==
    ASSUME NEW a \in Nat, NEW b \in Nat, a > 0, b > 0
    PROVE  a * b \in Nat /\ a * b > 0
OBVIOUS

LEMMA RoleCounted ==
    ASSUME NEW role \in EXPECTED_ROLES, chart \in [EXPECTED_ROLES -> Rendering],
           Accounted(role)
    PROVE  /\ RoleDemand(role) = [cpu |-> CostMillicores(role), mem |-> CostMemory(role)]
           /\ CostMillicores(role) \in Nat /\ CostMillicores(role) > 0
           /\ CostMemory(role) \in Nat /\ CostMemory(role) > 0
<1> DEFINE D == Deployments(role)
           d(i) == chart[role].manifests[i]
           r == [i \in D |-> d(i).replicas]
           g == [i \in D |-> PodMillicores(d(i))]
           h == [i \in D |-> PodMemory(d(i))]
           F == [p \in Pods(role) |-> PodMillicores(d(p[1]))]
           H == [p \in Pods(role) |-> PodMemory(d(p[1]))]
<1>1. IsFiniteSet(D) /\ D # {} BY DeploymentTypes DEF Accounted
<1>2. ASSUME NEW i \in D
      PROVE  /\ r[i] \in Nat /\ r[i] > 0 /\ g[i] \in Nat /\ g[i] > 0
             /\ h[i] \in Nat /\ h[i] > 0
             /\ DeploymentDemand(d(i)) = [cpu |-> g[i] * r[i], mem |-> h[i] * r[i]]
  <2>1. d(i) \in Manifest /\ Counts(d(i)) BY DeploymentTypes DEF Accounted
  <2>2. r[i] = d(i).replicas /\ g[i] = PodMillicores(d(i)) /\ h[i] = PodMemory(d(i))
    OBVIOUS
  <2> HIDE DEF d, r, g, h
  <2> QED BY <2>1, <2>2, DeploymentCounted
<1>3. Pods(role) = UNION {{i} \X (1 .. r[i]) : i \in D} BY DEF Pods
<1>4. \A p \in Pods(role) : p[1] \in D
  <2> HIDE DEF D, r
  <2> QED BY <1>3
<1>5. \A p \in Pods(role) : F[p] = g[p[1]] /\ H[p] = h[p[1]]
  <2> HIDE DEF D, d
  <2> QED BY <1>4
<1>6. g \in [D -> Nat] /\ h \in [D -> Nat] /\ \A i \in D : r[i] \in Nat
  <2>1. \A i \in D : g[i] \in Nat /\ h[i] \in Nat /\ r[i] \in Nat BY <1>2
  <2> HIDE DEF D, d
  <2> QED BY <2>1
<1> DEFINE gr == [i \in D |-> g[i] * r[i]]
           hr == [i \in D |-> h[i] * r[i]]
<1>7. CostMillicores(role) = Sum(F, Pods(role)) /\ CostMemory(role) = Sum(H, Pods(role))
  BY SumOfFunction DEF CostMillicores, CostMemory
<1>8. CostMillicores(role) = Sum(gr, D)
  <2> HIDE DEF D, d, g, h, F, H, r
  <2> QED BY <1>1, <1>3, <1>5, <1>6, <1>7, SumOverPods
<1>9. CostMemory(role) = Sum(hr, D)
  <2> HIDE DEF D, d, g, h, F, H, r
  <2> QED BY <1>1, <1>3, <1>5, <1>6, <1>7, SumOverPods
<1>10. \A i \in D : gr[i] \in Nat /\ gr[i] > 0 /\ hr[i] \in Nat /\ hr[i] > 0
  <2> HIDE DEF D, d, g, h, r
  <2> QED BY <1>2, ProductPositive
<1>11. /\ Sum(gr, D) \in Nat /\ Sum(gr, D) > 0
       /\ Sum(hr, D) \in Nat /\ Sum(hr, D) > 0
  <2> HIDE DEF D, gr, hr
  <2> QED BY <1>1, <1>10, SumPositive
<1>12. RoleDemand(role) = [cpu |-> Sum(gr, D), mem |-> Sum(hr, D)]
  <2> DEFINE demand == [i \in D |-> DeploymentDemand(d(i))]
  <2>1. \A i \in D : demand[i].cpu = gr[i] /\ demand[i].mem = hr[i] /\ demand[i] # NoDemand
    <3> HIDE DEF D, d, g, h, r
    <3> QED BY <1>2, <1>10 DEF NoDemand
  <2>2. RoleDemand(role) = [cpu |-> SumFunction([i \in D |-> demand[i].cpu]),
                            mem |-> SumFunction([i \in D |-> demand[i].mem])]
    <3>1. chart[role].ok /\ D # {} BY DEF Accounted
    <3>2. ~ \E i \in D : demand[i] = NoDemand BY <2>1
    <3> QED BY <3>1, <3>2 DEF RoleDemand
  <2>3. [i \in D |-> demand[i].cpu] = gr /\ [i \in D |-> demand[i].mem] = hr
    <3> HIDE DEF D, d, demand, g, h, r
    <3> QED BY <2>1
  <2>4. DOMAIN gr = D /\ DOMAIN hr = D OBVIOUS
  <2> HIDE DEF D, d, demand, gr, hr
  <2> QED BY <2>2, <2>3, <2>4, SumOfFunction
<1> HIDE DEF gr, hr, D
<1> QED BY <1>8, <1>9, <1>11, <1>12

LEMMA RoleRefused ==
    ASSUME NEW role \in EXPECTED_ROLES, chart \in [EXPECTED_ROLES -> Rendering],
           ~Accounted(role)
    PROVE  RoleDemand(role) = NoDemand
<1>1. CASE ~chart[role].ok \/ Deployments(role) = {}
  BY <1>1 DEF RoleDemand
<1>2. CASE \E i \in Deployments(role) : ~Counts(chart[role].manifests[i])
  <2>1. PICK i \in Deployments(role) : ~Counts(chart[role].manifests[i]) BY <1>2
  <2>2. DeploymentDemand(chart[role].manifests[i]) = NoDemand
    BY <2>1, DeploymentTypes, DeploymentRefused
  <2> QED BY <2>2 DEF RoleDemand
<1> QED BY <1>1, <1>2 DEF Accounted

(* The comparison the gate makes is the one that is meant: an entry passes *)
(* it exactly if it declares, in millicores, what the pods of its role     *)
(* cost, and that can be told.                                             *)
THEOREM MatchesIffAccurate ==
    ASSUME NEW requests \in Requests, NEW role \in EXPECTED_ROLES,
           chart \in [EXPECTED_ROLES -> Rendering]
    PROVE  Matches(requests, role) <=> Accurate(requests, role)
<1>1. requests.cpu \in Quantity /\ requests.memory \in Quantity BY DEF Requests
<1>2. /\ CpuDeclared(requests.cpu) \in Nat /\ Bytes(requests.memory) \in Nat
      /\ requests.cpu.n \in Nat
  BY <1>1, QuantityTypes DEF Quantity
<1>3. Accurate(requests, role) <=>
        /\ Accounted(role) /\ requests.cpu.unit = "m"
        /\ requests.cpu.n = CostMillicores(role) /\ Bytes(requests.memory) = CostMemory(role)
  BY DEF Accurate
<1>4. CASE ~Accounted(role)
  BY <1>3, <1>4, RoleRefused DEF Matches
<1>5. CASE Accounted(role)
  <2>1. /\ RoleDemand(role) = [cpu |-> CostMillicores(role), mem |-> CostMemory(role)]
        /\ CostMillicores(role) > 0 /\ CostMemory(role) > 0
        /\ CostMillicores(role) \in Nat /\ CostMemory(role) \in Nat
    BY <1>5, RoleCounted
  <2>2. Matches(requests, role) <=>
          /\ CpuDeclared(requests.cpu) = CostMillicores(role)
          /\ Bytes(requests.memory) = CostMemory(role)
    BY <1>2, <2>1 DEF Matches, Declared, NoDemand
  <2>3. CpuDeclared(requests.cpu) = CostMillicores(role) <=>
          requests.cpu.unit = "m" /\ requests.cpu.n = CostMillicores(role)
    BY <1>2, <2>1 DEF CpuDeclared
  <2> QED BY <1>3, <1>5, <2>2, <2>3
<1> QED BY <1>4, <1>5

-----------------------------------------------------------------------------
(* What the loops of main have established                                 *)

CoveredSoFar ==
    {i \in Named : stage \in {"cover", "demand", "finished"} /\ (stage = "cover" => i < at)}
CheckedSoFar ==
    {i \in Named : stage \in {"demand", "finished"} /\ (stage = "demand" => i < at)}

Keyed(i) == catalog[i].topology.ref # "absent" /\ CoveredRoles(catalog[i]) # {}

DemandWrong(i) ==
    \/ catalog[i].role \notin EXPECTED_ROLES
    \/ Unset(catalog[i].declared) \/ ~Matches(catalog[i].declared, catalog[i].role)
WithTopology(i) ==
    /\ ~DemandWrong(i)
    /\ catalog[i].topology.ref # "absent" /\ catalog[i].key \in DOMAIN topology_by_key
ProfileRight(i) == Matches(topology_by_key[catalog[i].key].profile, "source")

Uncovered == {i \in CoveredSoFar : CoveredRoles(catalog[i]) = {}}
Miscounted == {i \in {0} : stage \in {"demand", "finished"} /\ ~CoverageHolds}
Unmatched == {i \in CheckedSoFar : DemandWrong(i)}
Unprofiled == {i \in CheckedSoFar : WithTopology(i) /\ ~ProfileRight(i)}
Aggregated == {i \in CheckedSoFar : WithTopology(i) /\ ProfileRight(i)}

CatalogType ==
    /\ catalog \in Catalogs /\ chart \in Charts
    /\ stage \in {"collect", "cover", "demand", "finished", "crashed"}
    /\ at \in 1 .. Len(catalog) + 1

(* entries are the documents that name the chart, as far as they are read, *)
(* and what is read is a document.  Only two kinds of document crash.      *)
Reading ==
    /\ stage # "crashed" =>
          /\ entries = {i \in Named : stage = "collect" => i < at}
          /\ \A i \in DOMAIN catalog :
                (stage = "collect" => i < at) => catalog[i].broken # "document"
    /\ stage = "crashed" =>
          \/ \E i \in DOMAIN catalog : catalog[i].broken = "document"
          \/ \E i \in Named : catalog[i].broken = "requests"

(* The first loop's two tables.                                            *)
Covering ==
    /\ stage # "crashed" =>
          /\ role_counts = [r \in EXPECTED_ROLES \cup {"other"} |->
                               {i \in CoveredSoFar : r \in CoveredRoles(catalog[i])}]
          /\ \A i \in CoveredSoFar : Keyed(i) => catalog[i].key \in DOMAIN topology_by_key
    /\ \A k \in DOMAIN topology_by_key :
          \E i \in Named : /\ Keyed(i) /\ catalog[i].key = k
                           /\ topology_by_key[k] = catalog[i].topology

(* What is reported, aggregated and returned.                              *)
Reporting ==
    /\ stage # "crashed" =>
          failures = ({"coverage"} \X Uncovered) \cup ({"roles"} \X Miscounted)
                     \cup ({"demand"} \X Unmatched) \cup ({"profile"} \X Unprofiled)
    /\ \A i \in CheckedSoFar :
          catalog[i].role \in EXPECTED_ROLES => catalog[i].broken = "nothing"
    /\ exit = CASE stage = "crashed" -> 1
                [] stage = "finished" -> (IF failures = {} THEN 0 ELSE 1)
                [] OTHER -> -1
Aggregating ==
    /\ stage # "crashed" => DOMAIN aggregates = Aggregated
    /\ \A i \in DOMAIN aggregates :
          /\ i \in Named /\ WithTopology(i) /\ ProfileRight(i)
          /\ aggregates[i] = Aggregate(catalog[i], topology_by_key[catalog[i].key])

CatalogInv == CatalogType /\ Reading /\ Covering /\ Reporting /\ Aggregating

LEMMA CatalogTypes ==
    ASSUME CatalogType
    PROVE  /\ chart \in [EXPECTED_ROLES -> Rendering]
           /\ Len(catalog) \in Nat /\ DOMAIN catalog = 1 .. Len(catalog)
           /\ \A i \in DOMAIN catalog : catalog[i] \in Document
           /\ Named \subseteq DOMAIN catalog
<1>1. catalog \in Seq(Document) /\ chart \in [EXPECTED_ROLES -> Rendering]
  BY CatalogAssumption DEF CatalogType
<1> QED BY <1>1 DEF Named

(* What depends on the files alone does not change.                        *)
LEMMA FilesStay ==
    ASSUME UNCHANGED <<catalog, chart>>
    PROVE  /\ Named' = Named
           /\ \A r : RoleDemand(r)' = RoleDemand(r)
           /\ \A i : (Keyed(i)' <=> Keyed(i)) /\ (DemandWrong(i)' <=> DemandWrong(i))
<1>1. Named' = Named BY DEF Named
<1>2. \A r : RoleDemand(r)' = RoleDemand(r) BY DEF RoleDemand, Deployments
<1>3. \A i : Keyed(i)' <=> Keyed(i) BY DEF Keyed
<1>4. \A i : DemandWrong(i)' <=> DemandWrong(i) BY <1>2 DEF DemandWrong, Matches
<1> QED BY <1>1, <1>2, <1>3, <1>4

LEMMA TopologiesStay ==
    ASSUME UNCHANGED <<catalog, chart, topology_by_key>>
    PROVE  \A i : (WithTopology(i)' <=> WithTopology(i)) /\ (ProfileRight(i)' <=> ProfileRight(i))
<1>1. \A i : WithTopology(i)' <=> WithTopology(i) BY FilesStay DEF WithTopology
<1>2. \A i : ProfileRight(i)' <=> ProfileRight(i)
  BY FilesStay DEF ProfileRight, Matches
<1> QED BY <1>1, <1>2

LEMMA CatalogInvInit == CatalogInit => CatalogInv
<1> SUFFICES ASSUME CatalogInit PROVE CatalogInv
  OBVIOUS
<1>1. catalog \in Seq(Document) BY CatalogAssumption DEF CatalogInit
<1>2. CatalogType BY <1>1 DEF CatalogInit, CatalogType
<1>3. CoveredSoFar = {} /\ CheckedSoFar = {}
  BY DEF CatalogInit, CoveredSoFar, CheckedSoFar
<1>4. Uncovered = {} /\ Miscounted = {} /\ Unmatched = {} /\ Unprofiled = {} /\ Aggregated = {}
  BY <1>3 DEF CatalogInit, Uncovered, Miscounted, Unmatched, Unprofiled, Aggregated
<1>5. Reading
  <2>1. DOMAIN catalog \subseteq Nat \ {0} BY <1>1
  <2> QED BY <2>1 DEF CatalogInit, Reading, Named
<1>6. Covering BY <1>3 DEF CatalogInit, Covering
<1>7. Reporting BY <1>3, <1>4 DEF CatalogInit, Reporting
<1>8. Aggregating BY <1>4 DEF CatalogInit, Aggregating
<1> QED BY <1>2, <1>5, <1>6, <1>7, <1>8 DEF CatalogInv

LEMMA CrashStep ==
    ASSUME CatalogInv, Crash, at \in DOMAIN catalog,
           \/ catalog[at].broken = "document"
           \/ at \in Named /\ catalog[at].broken = "requests"
    PROVE  CatalogInv'
<1> USE DEF CatalogInv
<1>1. CatalogType' BY DEF Crash, CatalogType
<1>2. CheckedSoFar' = {} BY DEF Crash, CheckedSoFar
<1>3. Reading' BY FilesStay DEF Crash, Reading
<1>4. Covering' BY FilesStay DEF Crash, Covering
<1>5. Reporting' BY <1>2 DEF Crash, Reporting
<1>6. Aggregating'
  <2>1. \A i : (WithTopology(i)' <=> WithTopology(i)) /\ (ProfileRight(i)' <=> ProfileRight(i))
    BY TopologiesStay DEF Crash
  <2> QED BY <2>1, FilesStay DEF Crash, Aggregating
<1> QED BY <1>1, <1>3, <1>4, <1>5, <1>6

(* The loop that reads: no table is touched.                               *)
LEMMA NothingCheckedYet ==
    ASSUME CatalogInv, UNCHANGED <<catalog, chart, role_counts, topology_by_key, failures,
                                   aggregates, exit>>,
           stage = "collect", stage' = "collect" \/ (stage' = "cover" /\ at' = 1)
    PROVE  Covering' /\ Reporting' /\ Aggregating'
<1> USE DEF CatalogInv
<1>1. CoveredSoFar = {} /\ CheckedSoFar = {} BY DEF CoveredSoFar, CheckedSoFar
<1>2. Named' = Named /\ \A i \in Named : i \in Nat \ {0}
  BY FilesStay, CatalogTypes
<1>3. CoveredSoFar' = {} /\ CheckedSoFar' = {} BY <1>2 DEF CoveredSoFar, CheckedSoFar
<1>4. /\ Uncovered = {} /\ Miscounted = {} /\ Unmatched = {} /\ Unprofiled = {}
      /\ Aggregated = {}
  BY <1>1 DEF Uncovered, Miscounted, Unmatched, Unprofiled, Aggregated
<1>5. /\ Uncovered' = {} /\ Miscounted' = {} /\ Unmatched' = {} /\ Unprofiled' = {}
      /\ Aggregated' = {}
  BY <1>3 DEF Uncovered, Miscounted, Unmatched, Unprofiled, Aggregated
<1>6. Covering' BY <1>1, <1>3, FilesStay DEF Covering
<1>7. Reporting' BY <1>3, <1>4, <1>5 DEF Reporting
<1>8. Aggregating' BY <1>4, <1>5 DEF Aggregating
<1> QED BY <1>6, <1>7, <1>8

LEMMA CollectStep ==
    ASSUME CatalogInv, CollectEntry \/ Collected PROVE CatalogInv'
<1> USE DEF CatalogInv
<1>1. CASE CollectEntry /\ catalog[at].broken = "document"
  <2>1. at \in DOMAIN catalog BY <1>1, CatalogTypes DEF CollectEntry, CatalogType
  <2> QED BY <1>1, <2>1, CrashStep DEF CollectEntry
<1>2. CASE CollectEntry /\ catalog[at].broken # "document"
  <2>1. at \in DOMAIN catalog /\ DOMAIN catalog \subseteq Nat /\ Named \subseteq DOMAIN catalog
    BY <1>2, CatalogTypes DEF CollectEntry, CatalogType
  <2>2. CatalogType' BY <1>2, CatalogTypes DEF CollectEntry, CatalogType
  <2>3. Covering' /\ Reporting' /\ Aggregating'
    <3>1. /\ UNCHANGED <<catalog, chart, role_counts, topology_by_key, failures, aggregates,
                         exit>>
          /\ stage = "collect" /\ stage' = "collect"
      BY <1>2 DEF CollectEntry
    <3> HIDE DEF CatalogInv
    <3> QED BY <3>1, NothingCheckedYet
  <2>4. Reading'
    <3>1. \A i \in Nat : i < at + 1 <=> i < at \/ i = at BY <2>1
    <3>2. entries' = {i \in Named : i < at + 1}
      BY <1>2, <2>1, <3>1 DEF CollectEntry, Reading, Named
    <3>3. \A i \in DOMAIN catalog : i < at + 1 => catalog[i].broken # "document"
      BY <1>2, <2>1, <3>1 DEF CollectEntry, Reading
    <3>4. Named' = Named BY <1>2, FilesStay DEF CollectEntry
    <3> QED BY <1>2, <3>2, <3>3, <3>4 DEF CollectEntry, Reading
  <2> QED BY <2>2, <2>3, <2>4
<1>3. CASE Collected
  <2>1. DOMAIN catalog = 1 .. Len(catalog) /\ Len(catalog) \in Nat /\ Named \subseteq DOMAIN catalog
    BY CatalogTypes
  <2>2. CatalogType' BY <1>3, <2>1 DEF Collected, Then, CatalogType
  <2>3. Covering' /\ Reporting' /\ Aggregating'
    BY <1>3, NothingCheckedYet DEF Collected, Then
  <2>4. \A i \in DOMAIN catalog : i < at BY <1>3, <2>1 DEF Collected, Then, CatalogType
  <2>5. Named' = Named BY <1>3, FilesStay DEF Collected, Then
  <2>6. Reading' BY <1>3, <2>1, <2>4, <2>5 DEF Collected, Then, Reading
  <2> QED BY <2>2, <2>3, <2>6
<1> QED BY <1>1, <1>2, <1>3

(* After the reading, the entries are the documents that name the chart.   *)
LEMMA ReadingDone ==
    ASSUME CatalogInv, stage \in {"cover", "demand"}
    PROVE  /\ entries = Named /\ Named \subseteq DOMAIN catalog
           /\ DOMAIN catalog = 1 .. Len(catalog) /\ Len(catalog) \in Nat
           /\ at \in 1 .. Len(catalog) + 1
BY CatalogTypes DEF CatalogInv, CatalogType, Reading

LEMMA ReadingKept ==
    ASSUME CatalogInv, stage \in {"cover", "demand"}, stage' \in {"cover", "demand", "finished"},
           UNCHANGED <<catalog, chart, entries>>
    PROVE  Reading'
<1>1. entries = Named /\ Named' = Named BY ReadingDone, FilesStay
<1>2. \A i \in DOMAIN catalog : catalog[i].broken # "document"
  BY DEF CatalogInv, Reading
<1> QED BY <1>1, <1>2 DEF Reading

(* A step that finds nothing out.                                          *)
LEMMA NothingFound ==
    ASSUME CatalogInv, stage \in {"cover", "demand"}, stage' \in {"cover", "demand", "finished"},
           UNCHANGED <<catalog, chart, role_counts, topology_by_key, failures, aggregates>>,
           exit' = CASE stage' = "finished" -> (IF failures = {} THEN 0 ELSE 1) [] OTHER -> -1,
           CoveredSoFar' = CoveredSoFar, CheckedSoFar' = CheckedSoFar,
           Miscounted' = Miscounted
    PROVE  Covering' /\ Reporting' /\ Aggregating'
<1>1. /\ \A i : (WithTopology(i)' <=> WithTopology(i)) /\ (ProfileRight(i)' <=> ProfileRight(i))
      /\ \A i : (Keyed(i)' <=> Keyed(i)) /\ (DemandWrong(i)' <=> DemandWrong(i))
      /\ Named' = Named
  BY FilesStay, TopologiesStay
<1>2. /\ Uncovered' = Uncovered /\ Unmatched' = Unmatched /\ Unprofiled' = Unprofiled
      /\ Aggregated' = Aggregated
  BY <1>1 DEF Uncovered, Unmatched, Unprofiled, Aggregated
<1>3. Covering' BY <1>1 DEF CatalogInv, Covering
<1>4. Reporting' BY <1>2 DEF CatalogInv, Reporting
<1>5. Aggregating' BY <1>1, <1>2 DEF CatalogInv, Aggregating
<1> QED BY <1>3, <1>4, <1>5

LEMMA SkipStep ==
    ASSUME CatalogInv, Skip("cover") \/ Skip("demand") PROVE CatalogInv'
<1>1. /\ stage \in {"cover", "demand"} /\ stage' = stage /\ at' = at + 1
      /\ at <= Len(catalog) /\ at \notin entries
      /\ UNCHANGED <<catalog, chart, entries, role_counts, topology_by_key, failures,
                     aggregates, exit>>
  BY DEF Skip
<1>2. /\ entries = Named /\ Named \subseteq DOMAIN catalog /\ at \in Nat
      /\ DOMAIN catalog \subseteq Nat /\ Len(catalog) \in Nat
  BY <1>1, ReadingDone
<1>3. Named' = Named BY <1>1, FilesStay
<1>4. \A i \in Named : i < at + 1 <=> i < at
  <2>1. \A i \in Named : i \in Nat /\ i # at BY <1>1, <1>2
  <2> QED BY <1>2, <2>1
<1>5. CoveredSoFar' = CoveredSoFar /\ CheckedSoFar' = CheckedSoFar
  BY <1>1, <1>3, <1>4 DEF CoveredSoFar, CheckedSoFar
<1>6. Miscounted' = Miscounted BY <1>1 DEF Miscounted, CoverageHolds
<1>7. exit = -1 BY <1>1 DEF CatalogInv, Reporting
<1>8. Covering' /\ Reporting' /\ Aggregating'
  BY <1>1, <1>5, <1>6, <1>7, NothingFound
<1>9. Reading' BY <1>1, ReadingKept
<1>10. CatalogType' BY <1>1, <1>2 DEF CatalogInv, CatalogType
<1> QED BY <1>8, <1>9, <1>10 DEF CatalogInv

LEMMA FinishStep == ASSUME CatalogInv, Finish PROVE CatalogInv'
<1>1. /\ stage = "demand" /\ stage' = "finished" /\ at' = at /\ at > Len(catalog)
      /\ exit' = (IF failures = {} THEN 0 ELSE 1)
      /\ UNCHANGED <<catalog, chart, entries, role_counts, topology_by_key, failures,
                     aggregates>>
  BY DEF Finish
<1>2. Named \subseteq 1 .. Len(catalog) /\ at \in Nat /\ Len(catalog) \in Nat
  BY <1>1, ReadingDone
<1>3. Named' = Named BY <1>1, FilesStay
<1>4. \A i \in Named : i < at BY <1>1, <1>2
<1>5. CoveredSoFar' = CoveredSoFar /\ CheckedSoFar' = CheckedSoFar
  BY <1>1, <1>3, <1>4 DEF CoveredSoFar, CheckedSoFar
<1>6. Miscounted' = Miscounted BY <1>1 DEF Miscounted, CoverageHolds
<1>7. Covering' /\ Reporting' /\ Aggregating'
  BY <1>1, <1>5, <1>6, NothingFound
<1>8. Reading' BY <1>1, ReadingKept
<1>9. CatalogType' BY <1>1 DEF CatalogInv, CatalogType
<1> QED BY <1>7, <1>8, <1>9 DEF CatalogInv

LEMMA CheckCoverageStep == ASSUME CatalogInv, CheckCoverage PROVE CatalogInv'
<1>1. /\ stage = "cover" /\ stage' = "demand" /\ at' = 1 /\ at > Len(catalog)
      /\ UNCHANGED <<catalog, chart, entries, role_counts, topology_by_key, aggregates, exit>>
      /\ failures' = IF CoverageHolds THEN failures ELSE failures \cup {<<"roles", 0>>}
  BY DEF CheckCoverage, Then, Failed
<1>2. Named \subseteq 1 .. Len(catalog) /\ at \in Nat /\ Len(catalog) \in Nat
  BY <1>1, ReadingDone
<1>3. Named' = Named BY <1>1, FilesStay
<1>4. \A i \in Named : i < at /\ ~(i < 1) BY <1>1, <1>2
<1>5. CoveredSoFar' = CoveredSoFar /\ CheckedSoFar' = {} /\ CheckedSoFar = {}
  BY <1>1, <1>3, <1>4 DEF CoveredSoFar, CheckedSoFar
<1>6. Miscounted = {} /\ Miscounted' = (IF CoverageHolds THEN {} ELSE {0})
  BY <1>1 DEF Miscounted, CoverageHolds
<1>7. /\ Unmatched = {} /\ Unprofiled = {} /\ Aggregated = {}
      /\ Unmatched' = {} /\ Unprofiled' = {} /\ Aggregated' = {} /\ Uncovered' = Uncovered
  BY <1>1, <1>5 DEF Unmatched, Unprofiled, Aggregated, Uncovered
<1>8. Covering' BY <1>1, <1>3, <1>5, FilesStay DEF CatalogInv, Covering
<1>9. Reporting'
  <2>1. failures = {"coverage"} \X Uncovered BY <1>1, <1>6, <1>7 DEF CatalogInv, Reporting
  <2>2. failures' = ({"coverage"} \X Uncovered') \cup ({"roles"} \X Miscounted')
    BY <1>1, <1>6, <1>7, <2>1
  <2>3. exit = -1 BY <1>1 DEF CatalogInv, Reporting
  <2> QED BY <1>1, <1>5, <1>7, <2>2, <2>3 DEF Reporting
<1>10. Aggregating' BY <1>1, <1>7 DEF CatalogInv, Aggregating
<1>11. Reading' BY <1>1, ReadingKept
<1>12. CatalogType' BY <1>1, <1>2 DEF CatalogInv, CatalogType
<1> QED BY <1>8, <1>9, <1>10, <1>11, <1>12 DEF CatalogInv

LEMMA CoverStep == ASSUME CatalogInv, CoverEntry PROVE CatalogInv'
<1> DEFINE covered == CoveredRoles(catalog[at])
           e == catalog[at]
<1>1. /\ stage = "cover" /\ stage' = "cover" /\ at' = at + 1 /\ at \in entries
      /\ UNCHANGED <<catalog, chart, entries, aggregates, exit>>
      /\ role_counts' = [r \in DOMAIN role_counts |->
            IF r \in covered THEN role_counts[r] \cup {at} ELSE role_counts[r]]
      /\ topology_by_key' =
            IF e.topology.ref = "absent" \/ covered = {} THEN topology_by_key
            ELSE [k \in DOMAIN topology_by_key \cup {e.key} |->
                     IF k = e.key THEN e.topology ELSE topology_by_key[k]]
      /\ failures' = IF covered = {} THEN failures \cup {<<"coverage", at>>} ELSE failures
  BY DEF CoverEntry, Failed
<1>2. /\ entries = Named /\ Named \subseteq 1 .. Len(catalog) /\ at \in Named
      /\ at \in Nat /\ Len(catalog) \in Nat
  BY <1>1, ReadingDone
<1>3. Named' = Named /\ \A i : Keyed(i)' <=> Keyed(i) BY <1>1, FilesStay
<1>4. \A i \in Named : i < at + 1 <=> i < at \/ i = at BY <1>2
<1>5. CoveredSoFar' = CoveredSoFar \cup {at}
  BY <1>1, <1>2, <1>3, <1>4 DEF CoveredSoFar
<1>6. CheckedSoFar = {} /\ CheckedSoFar' = {} BY <1>1 DEF CheckedSoFar
<1>7. /\ Unmatched = {} /\ Unprofiled = {} /\ Aggregated = {} /\ Miscounted = {}
      /\ Unmatched' = {} /\ Unprofiled' = {} /\ Aggregated' = {} /\ Miscounted' = {}
  BY <1>1, <1>6 DEF Unmatched, Unprofiled, Aggregated, Miscounted
<1>8. Uncovered' = IF covered = {} THEN Uncovered \cup {at} ELSE Uncovered
  BY <1>1, <1>5 DEF Uncovered
<1>9. Covering'
  <2>1. role_counts = [r \in EXPECTED_ROLES \cup {"other"} |->
                         {i \in CoveredSoFar : r \in CoveredRoles(catalog[i])}]
    BY <1>1 DEF CatalogInv, Covering
  <2>2. \A r : {i \in CoveredSoFar' : r \in CoveredRoles(catalog'[i])} =
                 IF r \in covered
                 THEN {i \in CoveredSoFar : r \in CoveredRoles(catalog[i])} \cup {at}
                 ELSE {i \in CoveredSoFar : r \in CoveredRoles(catalog[i])}
    BY <1>1, <1>5
  <2>3. role_counts' = [r \in EXPECTED_ROLES \cup {"other"} |->
                          {i \in CoveredSoFar' : r \in CoveredRoles(catalog'[i])}]
    <3> DEFINE by(r) == {i \in CoveredSoFar : r \in CoveredRoles(catalog[i])}
    <3>1. role_counts' = [r \in EXPECTED_ROLES \cup {"other"} |->
                            IF r \in covered THEN by(r) \cup {at} ELSE by(r)]
      <4>1. \A r \in EXPECTED_ROLES \cup {"other"} : role_counts[r] = by(r) BY <2>1
      <4>2. DOMAIN role_counts = EXPECTED_ROLES \cup {"other"} BY <2>1
      <4>3. role_counts' = [r \in EXPECTED_ROLES \cup {"other"} |->
              IF r \in covered THEN role_counts[r] \cup {at} ELSE role_counts[r]]
        BY <1>1, <4>2
      <4> HIDE DEF covered, by
      <4> QED BY <4>1, <4>3
    <3> DEFINE now(r) == {i \in CoveredSoFar' : r \in CoveredRoles(catalog'[i])}
    <3>2. \A r : now(r) = IF r \in covered THEN by(r) \cup {at} ELSE by(r)
      BY <2>2
    <3>3. role_counts' = [r \in EXPECTED_ROLES \cup {"other"} |-> now(r)]
      <4> HIDE DEF covered, by, now
      <4> QED BY <3>1, <3>2
    <3> QED BY <3>3
  <2>4. \A i \in CoveredSoFar' : Keyed(i) => catalog[i].key \in DOMAIN topology_by_key'
    BY <1>1, <1>5 DEF CatalogInv, Covering, Keyed
  <2>5. ASSUME NEW k \in DOMAIN topology_by_key'
        PROVE  \E i \in Named : /\ Keyed(i) /\ catalog[i].key = k
                                /\ topology_by_key'[k] = catalog[i].topology
    <3>1. CASE Keyed(at) /\ k = e.key
      <4>1. topology_by_key'[k] = e.topology BY <1>1, <3>1 DEF Keyed
      <4> QED BY <1>2, <3>1, <4>1
    <3>2. CASE ~(Keyed(at) /\ k = e.key)
      <4>1. k \in DOMAIN topology_by_key /\ topology_by_key'[k] = topology_by_key[k]
        BY <1>1, <3>2 DEF Keyed
      <4> QED BY <4>1 DEF CatalogInv, Covering
    <3> QED BY <3>1, <3>2
  <2> HIDE DEF covered, e
  <2>6. catalog' = catalog BY <1>1
  <2>7. \A i \in CoveredSoFar' : Keyed(i)' => catalog'[i].key \in DOMAIN topology_by_key'
    BY <2>6, <1>3, <2>4
  <2>8. \A k \in DOMAIN topology_by_key' :
          \E i \in Named' : /\ Keyed(i)' /\ catalog'[i].key = k
                            /\ topology_by_key'[k] = catalog'[i].topology
    BY <2>6, <1>3, <2>5
  <2> QED BY <2>3, <2>7, <2>8 DEF Covering
<1>10. Reporting'
  <2>1. failures = {"coverage"} \X Uncovered BY <1>1, <1>7 DEF CatalogInv, Reporting
  <2>2. failures' = {"coverage"} \X Uncovered'
    <3> HIDE DEF covered
    <3> QED BY <1>1, <1>8, <2>1
  <2>3. exit = -1 BY <1>1 DEF CatalogInv, Reporting
  <2> QED BY <1>1, <1>6, <1>7, <2>2, <2>3 DEF Reporting
<1>11. Aggregating' BY <1>1, <1>7 DEF CatalogInv, Aggregating
<1>12. Reading' BY <1>1, ReadingKept
<1>13. CatalogType' BY <1>1, <1>2 DEF CatalogInv, CatalogType
<1> QED BY <1>9, <1>10, <1>11, <1>12, <1>13 DEF CatalogInv

(* One entry more is checked.                                              *)
LEMMA OneMoreChecked ==
    ASSUME CatalogInv, Checking, Done
    PROVE  /\ at \in Named /\ stage = "demand" /\ stage' = "demand" /\ exit' = -1
           /\ CheckedSoFar' = CheckedSoFar \cup {at}
           /\ Uncovered' = Uncovered /\ Miscounted' = Miscounted
           /\ Unmatched' = Unmatched \cup {i \in {at} : DemandWrong(i)}
           /\ Unprofiled' = Unprofiled \cup {i \in {at} : WithTopology(i) /\ ~ProfileRight(i)}
           /\ Aggregated' = Aggregated \cup {i \in {at} : WithTopology(i) /\ ProfileRight(i)}
           /\ CatalogType' /\ Reading' /\ Covering'
<1>1. /\ stage = "demand" /\ stage' = "demand" /\ at' = at + 1 /\ at \in entries
      /\ UNCHANGED <<catalog, chart, entries, role_counts, topology_by_key, exit>>
  BY DEF Checking, Done
<1>2. /\ entries = Named /\ Named \subseteq 1 .. Len(catalog) /\ at \in Named
      /\ at \in Nat /\ Len(catalog) \in Nat
  BY <1>1, ReadingDone
<1>3. /\ Named' = Named
      /\ \A i : (Keyed(i)' <=> Keyed(i)) /\ (DemandWrong(i)' <=> DemandWrong(i))
      /\ \A i : (WithTopology(i)' <=> WithTopology(i)) /\ (ProfileRight(i)' <=> ProfileRight(i))
  BY <1>1, FilesStay, TopologiesStay
<1>4. \A i \in Named : i < at + 1 <=> i < at \/ i = at BY <1>2
<1>5. CheckedSoFar' = CheckedSoFar \cup {at}
  BY <1>1, <1>2, <1>3, <1>4 DEF CheckedSoFar
<1>6. CoveredSoFar' = CoveredSoFar BY <1>1, <1>3 DEF CoveredSoFar
<1>7. Uncovered' = Uncovered BY <1>1, <1>6 DEF Uncovered
<1>8. Miscounted' = Miscounted BY <1>1 DEF Miscounted, CoverageHolds
<1>9. Unmatched' = Unmatched \cup {i \in {at} : DemandWrong(i)}
  BY <1>3, <1>5 DEF Unmatched
<1>10. Unprofiled' = Unprofiled \cup {i \in {at} : WithTopology(i) /\ ~ProfileRight(i)}
  BY <1>3, <1>5 DEF Unprofiled
<1>11. Aggregated' = Aggregated \cup {i \in {at} : WithTopology(i) /\ ProfileRight(i)}
  BY <1>3, <1>5 DEF Aggregated
<1>12. CatalogType' BY <1>1, <1>2 DEF CatalogInv, CatalogType
<1>13. Reading' BY <1>1, ReadingKept
<1>14. Covering' BY <1>1, <1>3, <1>6 DEF CatalogInv, Covering
<1>15. exit' = -1 BY <1>1 DEF CatalogInv, Reporting
<1> QED BY <1>1, <1>2, <1>5, <1>7, <1>8, <1>9, <1>10, <1>11, <1>12, <1>13, <1>14, <1>15

(* The aggregates that are there stay as they are.                         *)
LEMMA AggregatesKept ==
    ASSUME CatalogInv, UNCHANGED <<catalog, chart, topology_by_key, aggregates>>,
           stage = "demand", stage' = "demand", Aggregated' = Aggregated
    PROVE  Aggregating'
BY FilesStay, TopologiesStay DEF CatalogInv, Aggregating

LEMMA EntryFailsStep == ASSUME CatalogInv, EntryFails PROVE CatalogInv'
<1>1. Checking /\ Done /\ UNCHANGED <<catalog, chart, topology_by_key, aggregates>>
  BY DEF EntryFails, Done
<1>2. /\ failures' = failures \cup {<<"demand", at>>} /\ DemandWrong(at)
      /\ catalog[at].role \in EXPECTED_ROLES => catalog[at].broken = "nothing"
  BY DEF EntryFails, Failed, DemandWrong
<1>3. ~WithTopology(at) BY <1>2 DEF WithTopology
<1>4. /\ at \in Named /\ stage = "demand" /\ stage' = "demand" /\ exit' = -1
      /\ CheckedSoFar' = CheckedSoFar \cup {at}
      /\ Uncovered' = Uncovered /\ Miscounted' = Miscounted
      /\ Unmatched' = Unmatched \cup {at} /\ Unprofiled' = Unprofiled
      /\ Aggregated' = Aggregated
      /\ CatalogType' /\ Reading' /\ Covering'
  BY <1>1, <1>2, <1>3, OneMoreChecked
<1>5. Reporting' BY <1>1, <1>2, <1>4 DEF CatalogInv, Reporting, Done
<1>6. Aggregating' BY <1>1, <1>4, AggregatesKept
<1> QED BY <1>4, <1>5, <1>6 DEF CatalogInv

LEMMA EntryPassesStep == ASSUME CatalogInv, EntryPasses PROVE CatalogInv'
<1>1. /\ Checking /\ Done
      /\ UNCHANGED <<catalog, chart, topology_by_key, aggregates, failures>>
  BY DEF EntryPasses, EntryMatches, Done
<1>2. ~DemandWrong(at) /\ ~WithTopology(at) /\ catalog[at].broken = "nothing"
  BY DEF EntryPasses, EntryMatches, DemandWrong, WithTopology
<1>3. /\ at \in Named /\ stage = "demand" /\ stage' = "demand" /\ exit' = -1
      /\ CheckedSoFar' = CheckedSoFar \cup {at}
      /\ Uncovered' = Uncovered /\ Miscounted' = Miscounted
      /\ Unmatched' = Unmatched /\ Unprofiled' = Unprofiled
      /\ Aggregated' = Aggregated
      /\ CatalogType' /\ Reading' /\ Covering'
  BY <1>1, <1>2, OneMoreChecked
<1>4. Reporting' BY <1>1, <1>2, <1>3 DEF CatalogInv, Reporting, Done
<1>5. Aggregating' BY <1>1, <1>3, AggregatesKept
<1> QED BY <1>3, <1>4, <1>5 DEF CatalogInv

LEMMA ProfileFailsStep == ASSUME CatalogInv, ProfileFails PROVE CatalogInv'
<1>1. Checking /\ Done /\ UNCHANGED <<catalog, chart, topology_by_key, aggregates>>
  BY DEF ProfileFails, EntryMatches, Done
<1>2. /\ failures' = failures \cup {<<"profile", at>>}
      /\ ~DemandWrong(at) /\ WithTopology(at) /\ ~ProfileRight(at)
      /\ catalog[at].broken = "nothing"
  BY DEF ProfileFails, EntryMatches, Failed, DemandWrong, WithTopology, ProfileRight
<1>3. /\ at \in Named /\ stage = "demand" /\ stage' = "demand" /\ exit' = -1
      /\ CheckedSoFar' = CheckedSoFar \cup {at}
      /\ Uncovered' = Uncovered /\ Miscounted' = Miscounted
      /\ Unmatched' = Unmatched /\ Unprofiled' = Unprofiled \cup {at}
      /\ Aggregated' = Aggregated
      /\ CatalogType' /\ Reading' /\ Covering'
  BY <1>1, <1>2, OneMoreChecked
<1>4. Reporting' BY <1>1, <1>2, <1>3 DEF CatalogInv, Reporting, Done
<1>5. Aggregating' BY <1>1, <1>3, AggregatesKept
<1> QED BY <1>3, <1>4, <1>5 DEF CatalogInv

LEMMA PrintAggregateStep == ASSUME CatalogInv, PrintAggregate PROVE CatalogInv'
<1> DEFINE value == Aggregate(catalog[at], topology_by_key[catalog[at].key])
<1>1. /\ Checking /\ Done /\ UNCHANGED <<catalog, chart, topology_by_key, failures>>
      /\ aggregates' = [i \in DOMAIN aggregates \cup {at} |->
                          IF i = at THEN value ELSE aggregates[i]]
  BY DEF PrintAggregate, EntryMatches, Done
<1>2. /\ ~DemandWrong(at) /\ WithTopology(at) /\ ProfileRight(at)
      /\ catalog[at].broken = "nothing"
  BY DEF PrintAggregate, EntryMatches, DemandWrong, WithTopology, ProfileRight
<1>3. /\ at \in Named /\ stage = "demand" /\ stage' = "demand" /\ exit' = -1
      /\ CheckedSoFar' = CheckedSoFar \cup {at}
      /\ Uncovered' = Uncovered /\ Miscounted' = Miscounted
      /\ Unmatched' = Unmatched /\ Unprofiled' = Unprofiled
      /\ Aggregated' = Aggregated \cup {at}
      /\ CatalogType' /\ Reading' /\ Covering'
  BY <1>1, <1>2, OneMoreChecked
<1>4. Reporting' BY <1>1, <1>2, <1>3 DEF CatalogInv, Reporting, Done
<1>5. Aggregating'
  <2>1. DOMAIN aggregates' = Aggregated' BY <1>1, <1>3 DEF CatalogInv, Aggregating
  <2>2. /\ Named' = Named
        /\ \A i : (WithTopology(i)' <=> WithTopology(i)) /\ (ProfileRight(i)' <=> ProfileRight(i))
    BY <1>1, FilesStay, TopologiesStay
  <2>3. ASSUME NEW i \in DOMAIN aggregates'
        PROVE  /\ i \in Named /\ WithTopology(i) /\ ProfileRight(i)
               /\ aggregates'[i] = Aggregate(catalog[i], topology_by_key[catalog[i].key])
    <3>1. CASE i = at
      <4>1. aggregates'[i] = value BY <1>1, <3>1
      <4> QED BY <1>2, <1>3, <3>1, <4>1
    <3>2. CASE i # at
      <4>1. i \in DOMAIN aggregates /\ aggregates'[i] = aggregates[i] BY <1>1, <3>2
      <4> QED BY <4>1 DEF CatalogInv, Aggregating
    <3> QED BY <3>1, <3>2
  <2> QED BY <1>1, <1>3, <2>1, <2>2, <2>3 DEF Aggregating
<1> QED BY <1>3, <1>4, <1>5 DEF CatalogInv

LEMMA RequestsBrokenStep == ASSUME CatalogInv, RequestsBroken PROVE CatalogInv'
<1>1. stage = "demand" /\ at \in entries /\ catalog[at].broken = "requests" /\ Crash
  BY DEF RequestsBroken, Checking
<1>2. at \in Named /\ at \in DOMAIN catalog BY <1>1, ReadingDone
<1> QED BY <1>1, <1>2, CrashStep

LEMMA CatalogInvStep ==
    ASSUME CatalogInv, [CatalogNext]_catalogVars PROVE CatalogInv'
<1>1. CASE UNCHANGED catalogVars
  <2>1. /\ UNCHANGED <<catalog, chart, topology_by_key>>
        /\ UNCHANGED <<stage, at, entries, role_counts, failures, aggregates, exit>>
    BY <1>1 DEF catalogVars
  <2>2. /\ Named' = Named
        /\ \A i : (Keyed(i)' <=> Keyed(i)) /\ (DemandWrong(i)' <=> DemandWrong(i))
        /\ \A i : (WithTopology(i)' <=> WithTopology(i)) /\ (ProfileRight(i)' <=> ProfileRight(i))
    BY <2>1, FilesStay, TopologiesStay
  <2>3. CoveredSoFar' = CoveredSoFar /\ CheckedSoFar' = CheckedSoFar
    BY <2>1, <2>2 DEF CoveredSoFar, CheckedSoFar
  <2>4. /\ Uncovered' = Uncovered /\ Miscounted' = Miscounted /\ Unmatched' = Unmatched
        /\ Unprofiled' = Unprofiled /\ Aggregated' = Aggregated
    BY <2>1, <2>2, <2>3
    DEF Uncovered, Miscounted, Unmatched, Unprofiled, Aggregated, CoverageHolds
  <2>5. CatalogType' /\ Reading' BY <2>1, <2>2 DEF CatalogInv, CatalogType, Reading
  <2>6. Covering' BY <2>1, <2>2, <2>3 DEF CatalogInv, Covering
  <2>7. Reporting' BY <2>1, <2>3, <2>4 DEF CatalogInv, Reporting
  <2>8. Aggregating' BY <2>1, <2>2, <2>4 DEF CatalogInv, Aggregating
  <2> QED BY <2>5, <2>6, <2>7, <2>8 DEF CatalogInv
<1>2. CASE CollectEntry \/ Collected BY <1>2, CollectStep
<1>3. CASE Skip("cover") \/ Skip("demand") BY <1>3, SkipStep
<1>4. CASE CoverEntry BY <1>4, CoverStep
<1>5. CASE CheckCoverage BY <1>5, CheckCoverageStep
<1>6. CASE RequestsBroken BY <1>6, RequestsBrokenStep
<1>7. CASE EntryFails BY <1>7, EntryFailsStep
<1>8. CASE EntryPasses BY <1>8, EntryPassesStep
<1>9. CASE ProfileFails BY <1>9, ProfileFailsStep
<1>10. CASE PrintAggregate BY <1>10, PrintAggregateStep
<1>11. CASE Finish BY <1>11, FinishStep
<1> QED
  BY <1>1, <1>2, <1>3, <1>4, <1>5, <1>6, <1>7, <1>8, <1>9, <1>10, <1>11 DEF CatalogNext

LEMMA CatalogInvHolds == CatalogSpec => []CatalogInv
BY CatalogInvInit, CatalogInvStep, PTL DEF CatalogSpec

-----------------------------------------------------------------------------
(* The verdict *)

LEMMA MatchesSays ==
    ASSUME NEW requests, NEW role, Matches(requests, role)
    PROVE  ~Unset(requests) /\ Declared(requests) = RoleDemand(role)
<1>1. Declared(requests) # NoDemand /\ Declared(requests) = RoleDemand(role)
  BY DEF Matches
<1>2. CpuDeclared(requests.cpu) # 0 /\ Bytes(requests.memory) # 0 BY <1>1 DEF Declared
<1>3. requests.cpu.unit # "unset" BY <1>2 DEF CpuDeclared
<1>4. requests.memory.unit # "unset" BY <1>2 DEF Bytes, Units
<1> QED BY <1>1, <1>3, <1>4 DEF Unset

(* An entry that covers a role has no topology, or is a view entry whose   *)
(* topology loads.                                                         *)
LEMMA CoversMeans ==
    ASSUME NEW e
    PROVE  CoveredRoles(e) # {} <=> (e.topology.ref # "absent" => e.role = "view" /\ Loads(e.topology))
BY DEF CoveredRoles

LEMMA EntryTypes ==
    ASSUME CatalogInv, NEW i \in Named
    PROVE  /\ catalog[i].declared \in Requests /\ catalog[i].topology.profile \in Requests
           /\ catalog[i].broken \in {"nothing", "document", "requests"}
           /\ i \in Nat /\ i # 0
           /\ chart \in [EXPECTED_ROLES -> Rendering]
<1>1. i \in DOMAIN catalog /\ DOMAIN catalog = 1 .. Len(catalog) /\ Len(catalog) \in Nat
  BY CatalogTypes DEF CatalogInv
<1>2. catalog[i] \in Document BY <1>1, CatalogTypes DEF CatalogInv
<1>3. catalog[i].topology \in Topology /\ catalog[i].declared \in Requests
      /\ catalog[i].broken \in {"nothing", "document", "requests"}
  BY <1>2 DEF Document
<1>4. catalog[i].topology.profile \in Requests BY <1>3 DEF Topology
<1> QED BY <1>1, <1>3, <1>4, CatalogTypes DEF CatalogInv

(* An entry that is right, in the gate's own terms.                        *)
LEMMA RightMeans ==
    ASSUME CatalogInv, NEW i \in Named
    PROVE  EntryRight(catalog[i]) <=>
             /\ catalog[i].broken = "nothing" /\ ~DemandWrong(i)
             /\ CoveredRoles(catalog[i]) # {}
             /\ catalog[i].topology.ref # "absent" =>
                   Matches(catalog[i].topology.profile, "source")
<1> DEFINE e == catalog[i]
<1>1. e.declared \in Requests /\ e.topology.profile \in Requests
      /\ chart \in [EXPECTED_ROLES -> Rendering]
  BY EntryTypes
<1>2. e.role \in EXPECTED_ROLES => (Accurate(e.declared, e.role) <=> Matches(e.declared, e.role))
  BY <1>1, MatchesIffAccurate
<1>3. Accurate(e.topology.profile, "source") <=> Matches(e.topology.profile, "source")
  BY <1>1, MatchesIffAccurate DEF EXPECTED_ROLES
<1>4. Matches(e.declared, e.role) => ~Unset(e.declared) BY MatchesSays
<1>5. ~DemandWrong(i) <=> e.role \in EXPECTED_ROLES /\ Matches(e.declared, e.role)
  BY <1>4 DEF DemandWrong
<1>6. CoveredRoles(e) # {} <=> (e.topology.ref # "absent" => e.role = "view" /\ Loads(e.topology))
  BY CoversMeans
<1> QED BY <1>2, <1>3, <1>5, <1>6 DEF EntryRight

(* No other entry has put its topology under the key of entry i.           *)
OwnKey(i) ==
    catalog[i].topology.ref # "absent" =>
        \A j \in Named : Keyed(j) /\ catalog[j].key = catalog[i].key => j = i

LEMMA OwnTopology ==
    ASSUME CatalogInv, NEW i \in Named, OwnKey(i), WithTopology(i)
    PROVE  topology_by_key[catalog[i].key] = catalog[i].topology /\ Keyed(i)
BY DEF CatalogInv, Covering, WithTopology, OwnKey

(* Nothing is said of an entry exactly if it is right.                     *)
LEMMA VerdictOnEntry ==
    ASSUME CatalogInv, stage = "finished", NEW i \in Named, OwnKey(i)
    PROVE  EntryRight(catalog[i]) <=>
             i \notin Uncovered /\ i \notin Unmatched /\ i \notin Unprofiled
<1>1. CoveredSoFar = Named /\ CheckedSoFar = Named BY DEF CoveredSoFar, CheckedSoFar
<1>2. /\ i \in Uncovered <=> CoveredRoles(catalog[i]) = {}
      /\ i \in Unmatched <=> DemandWrong(i)
      /\ i \in Unprofiled <=> WithTopology(i) /\ ~ProfileRight(i)
  BY <1>1 DEF Uncovered, Unmatched, Unprofiled
<1>3. ~DemandWrong(i) => catalog[i].broken = "nothing"
  BY <1>1 DEF CatalogInv, Reporting, DemandWrong
<1>4. CASE catalog[i].topology.ref = "absent"
  BY <1>2, <1>3, <1>4, RightMeans DEF WithTopology
<1>5. CASE catalog[i].topology.ref # "absent" /\ (DemandWrong(i) \/ CoveredRoles(catalog[i]) = {})
  BY <1>2, <1>5, RightMeans
<1>6. CASE /\ catalog[i].topology.ref # "absent"
           /\ ~DemandWrong(i) /\ CoveredRoles(catalog[i]) # {}
  <2>1. Keyed(i) BY <1>6 DEF Keyed
  <2>2. WithTopology(i) BY <1>1, <1>6, <2>1 DEF CatalogInv, Covering, WithTopology
  <2>3. ProfileRight(i) <=> Matches(catalog[i].topology.profile, "source")
    BY <2>2, OwnTopology DEF ProfileRight
  <2> QED BY <1>2, <1>3, <1>6, <2>2, <2>3, RightMeans
<1> QED BY <1>4, <1>5, <1>6

LEMMA OnlyMember ==
    ASSUME NEW S, IsFiniteSet(S), Cardinality(S) = 1, NEW a \in S, NEW b \in S PROVE a = b
<1>1. PICK x : S = {x} BY FS_Singleton
<1> QED BY <1>1

LEMMA FinitelyManyEntries ==
    ASSUME CatalogInv, NEW S, S \subseteq Named PROVE IsFiniteSet(S)
<1>1. IsFiniteSet(1 .. Len(catalog)) /\ Named \subseteq 1 .. Len(catalog)
  BY CatalogTypes, UpTo DEF CatalogInv
<1> QED BY <1>1, FS_Subset

(* Keys do not collide where only one entry is a view.                     *)
LEMMA OneViewOwnsItsKey ==
    ASSUME CatalogInv, NEW S, S \subseteq Named, Cardinality(S) = 1,
           \A j \in Named : Keyed(j) => j \in S,
           NEW i \in Named, CoveredRoles(catalog[i]) # {}
    PROVE  OwnKey(i)
<1>1. IsFiniteSet(S) BY FinitelyManyEntries
<1>2. ASSUME catalog[i].topology.ref # "absent", NEW j \in Named, Keyed(j) PROVE j = i
  BY <1>1, <1>2, OnlyMember DEF Keyed
<1> QED BY <1>2 DEF OwnKey

LEMMA NoFailure ==
    ASSUME CatalogInv, stage = "finished"
    PROVE  failures = {} <=> /\ Uncovered = {} /\ Unmatched = {} /\ Unprofiled = {}
                             /\ CoverageHolds
<1>1. failures = ({"coverage"} \X Uncovered) \cup ({"roles"} \X Miscounted)
                  \cup ({"demand"} \X Unmatched) \cup ({"profile"} \X Unprofiled)
  BY DEF CatalogInv, Reporting
<1>2. Miscounted = {} <=> CoverageHolds BY DEF Miscounted
<1>3. ASSUME NEW c, NEW S PROVE {c} \X S = {} <=> S = {}
  <2>1. ASSUME NEW x \in S PROVE {c} \X S # {}
    <3>1. <<c, x>> \in {c} \X S OBVIOUS
    <3> QED BY <3>1
  <2> QED BY <2>1
<1>4. failures = {} <=> /\ {"coverage"} \X Uncovered = {} /\ {"roles"} \X Miscounted = {}
                        /\ {"demand"} \X Unmatched = {} /\ {"profile"} \X Unprofiled = {}
  BY <1>1
<1> QED BY <1>2, <1>3, <1>4

(* The first loop's table of roles is who provides them, if every entry    *)
(* covers something.                                                       *)
LEMMA TableOfRoles ==
    ASSUME CatalogInv, stage = "finished", \A i \in Named : CoveredRoles(catalog[i]) # {},
           NEW r \in EXPECTED_ROLES
    PROVE  role_counts[r] = Providing(r)
<1>1. CoveredSoFar = Named BY DEF CoveredSoFar
<1>2. role_counts[r] = {i \in Named : r \in CoveredRoles(catalog[i])}
  BY <1>1 DEF CatalogInv, Covering
<1>3. ASSUME NEW i \in Named
      PROVE  r \in CoveredRoles(catalog[i]) <=>
               catalog[i].role = r \/ (r = "source" /\ catalog[i].topology.ref # "absent")
  BY CoversMeans DEF CoveredRoles, EXPECTED_ROLES
<1> QED BY <1>2, <1>3 DEF Providing

LEMMA GreenRun ==
    ASSUME CatalogInv, exit = 0
    PROVE  /\ stage = "finished" /\ CoverageHolds
           /\ Uncovered = {} /\ Unmatched = {} /\ Unprofiled = {}
           /\ \A i \in Named : CoveredRoles(catalog[i]) # {} /\ OwnKey(i)
<1>1. stage = "finished" /\ failures = {} BY DEF CatalogInv, CatalogType, Reporting
<1>2. Uncovered = {} /\ Unmatched = {} /\ Unprofiled = {} /\ CoverageHolds
  BY <1>1, NoFailure
<1>3. \A i \in Named : CoveredRoles(catalog[i]) # {}
  BY <1>1, <1>2 DEF Uncovered, CoveredSoFar
<1>4. role_counts["view"] = Providing("view") BY <1>1, <1>3, TableOfRoles DEF EXPECTED_ROLES
<1>5. Cardinality(Providing("view")) = 1
  <2>1. "view" \in DOMAIN role_counts
    <3>1. DOMAIN role_counts = EXPECTED_ROLES \cup {"other"} BY <1>1 DEF CatalogInv, Covering
    <3> QED BY <3>1 DEF EXPECTED_ROLES
  <2> QED BY <1>2, <1>4, <2>1 DEF CoverageHolds, EXPECTED_ROLES
<1>6. Providing("view") \subseteq Named /\ \A j \in Named : Keyed(j) => j \in Providing("view")
  BY CoversMeans DEF Providing, Keyed
<1>7. \A i \in Named : OwnKey(i) BY <1>3, <1>5, <1>6, OneViewOwnsItsKey
<1> QED BY <1>1, <1>2, <1>3, <1>7

LEMMA RightCatalog ==
    ASSUME CatalogInv, stage = "finished",
           \A i \in Named : EntryRight(catalog[i]),
           \A r \in EXPECTED_ROLES : Cardinality(Providing(r)) = 1
    PROVE  failures = {}
<1>1. \A i \in Named : CoveredRoles(catalog[i]) # {} BY RightMeans
<1>2. Providing("view") \subseteq Named /\ \A j \in Named : Keyed(j) => j \in Providing("view")
  BY CoversMeans DEF Providing, Keyed
<1>3. Cardinality(Providing("view")) = 1 BY DEF EXPECTED_ROLES
<1>4. \A i \in Named : OwnKey(i) BY <1>1, <1>2, <1>3, OneViewOwnsItsKey
<1>5. \A i \in Named : i \notin Uncovered /\ i \notin Unmatched /\ i \notin Unprofiled
  BY <1>4, VerdictOnEntry
<1>6. Uncovered = {} /\ Unmatched = {} /\ Unprofiled = {}
  BY <1>5 DEF Uncovered, Unmatched, Unprofiled, CoveredSoFar, CheckedSoFar
<1>7. CoverageHolds
  <2>1. ASSUME NEW r \in EXPECTED_ROLES PROVE Cardinality(role_counts[r]) = 1
    BY <1>1, TableOfRoles
  <2>2. role_counts["other"] = {i \in CoveredSoFar : "other" \in CoveredRoles(catalog[i])}
    BY DEF CatalogInv, Covering
  <2>3. \A i \in Named : catalog[i].role \in EXPECTED_ROLES BY DEF EntryRight
  <2>4. \A i \in Named : "other" \notin CoveredRoles(catalog[i])
    BY <2>3 DEF CoveredRoles, EXPECTED_ROLES
  <2>5. role_counts["other"] = {} BY <2>2, <2>4 DEF CoveredSoFar
  <2>6. Cardinality(role_counts["other"]) = 0 BY <2>5, FS_EmptySet
  <2>7. DOMAIN role_counts = EXPECTED_ROLES \cup {"other"} BY DEF CatalogInv, Covering
  <2>8. "other" \notin EXPECTED_ROLES BY DEF EXPECTED_ROLES
  <2> QED BY <2>1, <2>6, <2>7, <2>8 DEF CoverageHolds
<1> QED BY <1>6, <1>7, NoFailure

(* The gate is green exactly for the catalogs that tell what the chart     *)
(* costs, pod by pod, with each role provided once: for every catalog and  *)
(* every chart.                                                            *)
THEOREM GreenIffRightHolds == CatalogSpec => []GreenIffRight
<1>1. ASSUME CatalogInv PROVE GreenIffRight
  <2> USE <1>1
  <2>1. CASE stage = "crashed"
    <3>1. exit # 0 BY <2>1 DEF CatalogInv, Reporting
    <3>2. \/ \E i \in DOMAIN catalog : catalog[i].broken = "document"
          \/ \E i \in Named : catalog[i].broken = "requests"
      BY <2>1 DEF CatalogInv, Reading
    <3> QED BY <3>1, <3>2 DEF GreenIffRight, EntryRight
  <2>2. CASE stage = "finished"
    <3>1. exit = 0 <=> failures = {} BY <2>2 DEF CatalogInv, Reporting
    <3>2. \A i \in DOMAIN catalog : catalog[i].broken # "document"
      BY <2>2 DEF CatalogInv, Reading
    <3>3. ASSUME exit = 0
          PROVE  /\ \A i \in Named : EntryRight(catalog[i])
                 /\ \A r \in EXPECTED_ROLES : Cardinality(Providing(r)) = 1
      <4>1. \A i \in Named : EntryRight(catalog[i]) BY <2>2, <3>3, GreenRun, VerdictOnEntry
      <4>2. ASSUME NEW r \in EXPECTED_ROLES PROVE Cardinality(Providing(r)) = 1
        <5>1. r \in DOMAIN role_counts BY <2>2 DEF CatalogInv, Covering
        <5>2. Cardinality(role_counts[r]) = 1
          BY <3>3, <5>1, GreenRun DEF CoverageHolds
        <5>3. role_counts[r] = Providing(r) BY <2>2, <3>3, GreenRun, TableOfRoles
        <5> QED BY <5>2, <5>3
      <4> QED BY <4>1, <4>2
    <3>4. ASSUME \A i \in Named : EntryRight(catalog[i]),
                 \A r \in EXPECTED_ROLES : Cardinality(Providing(r)) = 1
          PROVE  exit = 0
      BY <2>2, <3>1, <3>4, RightCatalog
    <3> QED BY <3>2, <3>3, <3>4 DEF GreenIffRight
  <2> QED BY <2>1, <2>2 DEF GreenIffRight
<1> QED BY <1>1, CatalogInvHolds, PTL

(* A gate that runs to its end names exactly the wrong entries, if no two  *)
(* share a key: for every catalog and every chart.                         *)
THEOREM EachFaultNamedHolds == CatalogSpec => []EachFaultNamed
<1>1. ASSUME CatalogInv PROVE EachFaultNamed
  <2> USE <1>1
  <2> SUFFICES ASSUME stage = "finished", DistinctKeys, NEW i \in Named
               PROVE  EntryRight(catalog[i]) <=> \A f \in failures : f[2] # i
    BY DEF EachFaultNamed
  <2>1. OwnKey(i) BY DEF OwnKey, DistinctKeys
  <2>2. i # 0 BY EntryTypes
  <2>3. failures = ({"coverage"} \X Uncovered) \cup ({"roles"} \X Miscounted)
                    \cup ({"demand"} \X Unmatched) \cup ({"profile"} \X Unprofiled)
    BY DEF CatalogInv, Reporting
  <2>4. i \notin Miscounted BY <2>2 DEF Miscounted
  <2>5. (\A f \in failures : f[2] # i) <=>
          i \notin Uncovered /\ i \notin Unmatched /\ i \notin Unprofiled
    <3>1. ASSUME i \in Uncovered PROVE ~ \A f \in failures : f[2] # i
      <4>1. <<"coverage", i>> \in failures BY <2>3, <3>1
      <4> QED BY <4>1
    <3>2. ASSUME i \in Unmatched PROVE ~ \A f \in failures : f[2] # i
      <4>1. <<"demand", i>> \in failures BY <2>3, <3>2
      <4> QED BY <4>1
    <3>3. ASSUME i \in Unprofiled PROVE ~ \A f \in failures : f[2] # i
      <4>1. <<"profile", i>> \in failures BY <2>3, <3>3
      <4> QED BY <4>1
    <3>4. ASSUME NEW f \in failures, f[2] = i
          PROVE  i \in Uncovered \/ i \in Unmatched \/ i \in Unprofiled
      BY <2>3, <2>4, <3>4
    <3> QED BY <3>1, <3>2, <3>3, <3>4
  <2> QED BY <2>1, <2>5, VerdictOnEntry
<1> QED BY <1>1, CatalogInvHolds, PTL

(* An aggregate that is printed is what its viewer and its sources demand, *)
(* and a green run prints every one: for every catalog and every chart.    *)
THEOREM AggregateRightHolds == CatalogSpec => []AggregateRight
<1>1. ASSUME CatalogInv PROVE AggregateRight
  <2> USE <1>1
  <2>1. ASSUME DistinctKeys \/ exit = 0, NEW i \in DOMAIN aggregates
        PROVE  LET n == catalog[i].topology.sources IN
               /\ aggregates[i].cpu = RoleDemand("view").cpu + n * RoleDemand("source").cpu
               /\ aggregates[i].mem = RoleDemand("view").mem + n * RoleDemand("source").mem
    <3>1. /\ i \in Named /\ WithTopology(i) /\ ProfileRight(i)
          /\ aggregates[i] = Aggregate(catalog[i], topology_by_key[catalog[i].key])
      BY DEF CatalogInv, Aggregating
    <3>2. OwnKey(i) BY <2>1, <3>1, GreenRun DEF OwnKey, DistinctKeys
    <3>3. topology_by_key[catalog[i].key] = catalog[i].topology /\ Keyed(i)
      BY <3>1, <3>2, OwnTopology
    <3>4. catalog[i].role = "view" BY <3>3, CoversMeans DEF Keyed
    <3>5. Declared(catalog[i].declared) = RoleDemand("view")
      BY <3>1, <3>4, MatchesSays DEF WithTopology, DemandWrong
    <3>6. Declared(catalog[i].topology.profile) = RoleDemand("source")
      BY <3>1, <3>3, MatchesSays DEF ProfileRight
    <3> QED BY <3>1, <3>3, <3>5, <3>6 DEF Aggregate
  <2>2. ASSUME exit = 0
        PROVE  DOMAIN aggregates = {i \in Named : catalog[i].topology.ref # "absent"}
    <3>1. /\ stage = "finished" /\ Unmatched = {} /\ Unprofiled = {}
          /\ \A i \in Named : CoveredRoles(catalog[i]) # {}
      BY <2>2, GreenRun
    <3>2. CheckedSoFar = Named /\ CoveredSoFar = Named
      BY <3>1 DEF CheckedSoFar, CoveredSoFar
    <3>3. DOMAIN aggregates = Aggregated BY <3>1 DEF CatalogInv, Aggregating
    <3>4. ASSUME NEW i \in Named, catalog[i].topology.ref # "absent" PROVE i \in Aggregated
      <4>1. Keyed(i) BY <3>1, <3>4 DEF Keyed
      <4>2. catalog[i].key \in DOMAIN topology_by_key
        BY <3>1, <3>2, <4>1 DEF CatalogInv, Covering
      <4>3. WithTopology(i) BY <3>1, <3>2, <3>4, <4>2 DEF WithTopology, Unmatched
      <4> QED BY <3>1, <3>2, <4>3 DEF Unprofiled, Aggregated
    <3>5. \A i \in Aggregated : i \in Named /\ catalog[i].topology.ref # "absent"
      BY <3>2 DEF Aggregated, WithTopology
    <3> QED BY <3>3, <3>4, <3>5
  <2> QED BY <2>1, <2>2 DEF AggregateRight
<1> QED BY <1>1, CatalogInvHolds, PTL
=============================================================================
