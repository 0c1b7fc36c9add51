------------------------------ MODULE OrderLemmas ------------------------------
(***************************************************************************)
(* Lemmas that hold of any system.                                         *)
(*                                                                         *)
(* Least and greatest elements of sets of naturals, and Min and Max of     *)
(* FiniteSetsExt: the task scheduler's proofs need the shallowest and the  *)
(* deepest task among some, the supervisor's the latest record of a        *)
(* process, the profiles' the last result of the command.                  *)
(*                                                                         *)
(* Functions defined by recursion on a well-founded relation, and folds    *)
(* over a finite set: the proofs about the decomposition need that its     *)
(* depth-first search is defined and takes the keys one after the other.   *)
(***************************************************************************)
EXTENDS FiniteSetsExt, FiniteSetTheorems, TLAPS

(* A nonempty set of naturals has a least element: the intervals up to its *)
(* elements are finite sets, and strict inclusion is well-founded on those.*)
LEMMA LeastElement ==
  ASSUME NEW T \in SUBSET Nat, T # {}
  PROVE  \E m \in T : \A k \in T : m <= k
<1> DEFINE R == StrictSubsetOrdering(Nat)
           D == {1 .. m : m \in T}
<1>1. IsWellFoundedOn(R, FiniteSubsetsOf(Nat))
  BY FS_StrictSubsetOrderingWellFounded
<1>2. D \subseteq FiniteSubsetsOf(Nat)
  <2> SUFFICES ASSUME NEW m \in T PROVE 1 .. m \in FiniteSubsetsOf(Nat)
    OBVIOUS
  <2>1. IsFiniteSet(1 .. m)
    BY FS_Interval
  <2>2. QED BY <2>1 DEF FiniteSubsetsOf
<1>3. D # {}
  OBVIOUS
<1> HIDE DEF R
<1>4. PICK I \in D : \A J \in D : <<J, I>> \notin R
  <2> HIDE DEF D
  <2> QED BY <1>1, <1>2, <1>3, WFMin
<1>5. PICK m \in T : I = 1 .. m
  OBVIOUS
<1>6. ASSUME NEW k \in T, k < m PROVE FALSE
  <2>1. 1 .. k \in D
    OBVIOUS
  <2>2. 1 .. k \subseteq 1 .. m /\ m \in (1 .. m) \ (1 .. k)
    BY <1>6
  <2>3. <<1 .. k, 1 .. m>> \in R
    BY <2>2 DEF R, StrictSubsetOrdering
  <2>4. QED BY <1>4, <1>5, <2>1, <2>3
<1>7. QED BY <1>6

(* Min and Max are what CHOOSE gives: an element, when there is one.        *)
LEMMA LeastIsMin ==
  ASSUME NEW S \in SUBSET Nat, S # {}
  PROVE  Min(S) \in S
<1>1. PICK m \in S : \A k \in S : m <= k
  BY LeastElement
<1>2. QED BY <1>1 DEF Min

LEMMA GreatestIsMax ==
  ASSUME NEW S \in SUBSET Nat, NEW bound \in Nat, \A k \in S : k <= bound, S # {}
  PROVE  Max(S) \in S /\ \A k \in S : k <= Max(S)
<1> DEFINE T == {bound - k : k \in S}
<1>1. T \in SUBSET Nat /\ T # {}
  <2>1. \A k \in S : bound - k \in Nat
    OBVIOUS
  <2>2. QED BY <2>1
<1>2. PICK d \in T : \A e \in T : d <= e
  <2> HIDE DEF T
  <2> QED BY <1>1, LeastElement
<1>3. PICK m \in S : d = bound - m
  OBVIOUS
<1>4. ASSUME NEW k \in S PROVE m >= k
  <2>1. d <= bound - k
    BY <1>2
  <2>2. QED BY <1>3, <2>1
<1>5. \E m_1 \in S : \A k \in S : m_1 >= k
  BY <1>4
<1>6. Max(S) \in S /\ \A k \in S : Max(S) >= k
  BY <1>5 DEF Max
<1>7. QED BY <1>6

(* G gives the value at x from a function whose values below x, along a    *)
(* transitive well-founded relation, are the only ones it looks at.        *)
RecursionOn(S, R, B, G) ==
  /\ IsWellFoundedOn(R, S)
  /\ \A x, y, z \in S : <<x, y>> \in R /\ <<y, z>> \in R => <<x, z>> \in R
  /\ B # {}
  /\ \A x \in S : \A f \in [S -> B] : G[x][f] \in B
  /\ \A x \in S : \A f \in [S -> B] : \A g \in [S -> B] :
        (\A y \in S : <<y, x>> \in R => f[y] = g[y]) => G[x][f] = G[x][g]

IsSolution(f, S, B, G) == f \in [S -> B] /\ \A x \in S : f[x] = G[x][f]

(* Such a recursion has a solution.                                        *)
LEMMA RecursionHasSolution ==
  ASSUME NEW S, NEW R, NEW B, NEW G, RecursionOn(S, R, B, G)
  PROVE  \E f : IsSolution(f, S, B, G)
<1> USE DEF RecursionOn, IsSolution
<1> DEFINE Upto(x) == {y \in S : y = x \/ <<y, x>> \in R}
           Solves(f, x) == \A y \in Upto(x) : f[y] = G[y][f]
<1>0. ASSUME NEW x \in S PROVE <<x, x>> \notin R
  BY WellFoundedIsIrreflexive
<1>a. ASSUME NEW x \in S, NEW f \in [S -> B], NEW g \in [S -> B],
             \A y \in S : <<y, x>> \in R => f[y] = g[y]
      PROVE  G[x][f] = G[x][g]
  BY <1>a
<1>1. ASSUME NEW x \in S, NEW z \in Upto(x) PROVE Upto(z) \subseteq Upto(x)
  OBVIOUS
\* two solutions agree
<1>2. ASSUME NEW x \in S, NEW f \in [S -> B], NEW g \in [S -> B],
             Solves(f, x), Solves(g, x), NEW z \in Upto(x)
      PROVE  f[z] = g[z]
  <2> DEFINE T == {y \in Upto(x) : f[y] # g[y]}
  <2> SUFFICES ASSUME T # {} PROVE FALSE
    OBVIOUS
  <2>1. T \subseteq S
    OBVIOUS
  <2>2. PICK m \in T : \A y \in T : <<y, m>> \notin R
    <3> HIDE DEF T
    <3> QED BY ONLY <2>1, T # {}, WFMin, RecursionOn(S, R, B, G) DEF RecursionOn
  <2>3. m \in S /\ \A y \in S : <<y, m>> \in R => f[y] = g[y]
    <3> SUFFICES ASSUME NEW y \in S, <<y, m>> \in R PROVE f[y] = g[y]
      OBVIOUS
    <3>1. y \in Upto(x)
      OBVIOUS
    <3> QED BY <2>2, <3>1
  <2>4. G[m][f] = G[m][g]
    BY ONLY <1>a, <2>3, f \in [S -> B], g \in [S -> B]
  <2>5. f[m] = G[m][f] /\ g[m] = G[m][g]
    BY <1>2
  <2> QED BY <2>4, <2>5
\* the values that solutions have
<1> DEFINE Solvable(x) == \E f \in [S -> B] : Solves(f, x)
           Value(x) == CHOOSE b \in B : \E f \in [S -> B] : Solves(f, x) /\ b = f[x]
<1>3. ASSUME NEW x \in S, NEW f \in [S -> B], Solves(f, x)
      PROVE  Value(x) = f[x]
  <2>1. f[x] \in B /\ x \in Upto(x)
    OBVIOUS
  <2>2. \A g \in [S -> B] : Solves(g, x) => g[x] = f[x]
    <3> HIDE DEF Solves, Upto
    <3> QED BY ONLY <1>2, <1>3, <2>1, x \in S, f \in [S -> B]
  <2> HIDE DEF Solves
  <2>3. \E b \in B : \E g \in [S -> B] : Solves(g, x) /\ b = g[x]
    BY <1>3, <2>1
  <2>4. \E g \in [S -> B] : Solves(g, x) /\ Value(x) = g[x]
    BY <2>3
  <2> QED BY <2>2, <2>4
<1>4. PICK default \in B : TRUE
  OBVIOUS
<1> DEFINE F == [x \in S |-> IF Solvable(x) THEN Value(x) ELSE default]
<1>5. F \in [S -> B]
  <2> SUFFICES ASSUME NEW x \in S, Solvable(x) PROVE Value(x) \in B
    BY <1>4
  <2>1. PICK f \in [S -> B] : Solves(f, x)
    OBVIOUS
  <2> HIDE DEF Solves, Value
  <2> QED BY <1>3, <2>1
<1>6. ASSUME NEW x \in S, Solvable(x) PROVE F[x] = G[x][F]
  <2>1. PICK f \in [S -> B] : Solves(f, x)
    BY <1>6
  <2>2. ASSUME NEW y \in Upto(x) PROVE F[y] = f[y]
    <3>1. y \in S /\ Solves(f, y)
      BY <1>1, <2>1
    <3>2. Solvable(y)
      BY <3>1
    <3> HIDE DEF Solves, Value, Solvable
    <3> QED BY <1>3, <3>1, <3>2
  <2> HIDE DEF F
  <2>3. \A y \in S : <<y, x>> \in R => F[y] = f[y]
    BY <2>2
  <2>4. G[x][F] = G[x][f]
    BY <1>5, <2>3
  <2>5. F[x] = f[x] /\ f[x] = G[x][f]
    BY <2>1, <2>2
  <2> QED BY <2>4, <2>5
<1>7. ASSUME NEW x \in S, \A y \in S : <<y, x>> \in R => Solvable(y)
      PROVE  Solvable(x)
  <2> DEFINE H == [F EXCEPT ![x] = G[x][F]]
  <2>1. \A y \in S : <<y, x>> \in R => F[y] = G[y][F]
    <3> HIDE DEF Solvable, F
    <3> QED BY <1>6, <1>7
  <2> HIDE DEF F, Solvable
  <2>2. H \in [S -> B]
    BY <1>5
  <2>3. H[x] = G[x][F] /\ \A y \in S : y # x => H[y] = F[y]
    BY <1>5
  <2> HIDE DEF H
  <2>4. G[x][H] = G[x][F]
    <3>1. \A y \in S : <<y, x>> \in R => H[y] = F[y]
      BY <1>0, <2>3
    <3> QED BY ONLY <1>a, <1>5, <2>2, <3>1, x \in S
  <2>5. ASSUME NEW y \in S, <<y, x>> \in R PROVE H[y] = G[y][H]
    <3>1. \A z \in S : <<z, y>> \in R => z # x
      <4> SUFFICES ASSUME NEW z \in S, <<z, y>> \in R, z = x PROVE FALSE
        OBVIOUS
      <4>1. <<x, x>> \in R
        BY <2>5
      <4> QED BY <1>0, <4>1
    <3>2. G[y][H] = G[y][F]
      BY <1>5, <2>2, <2>3, <3>1
    <3>3. H[y] = F[y]
      BY <1>0, <2>3, <2>5
    <3> QED BY <2>1, <2>5, <3>2, <3>3
  <2>6. Solves(H, x)
    BY <2>3, <2>4, <2>5
  <2> QED BY <2>2, <2>6 DEF Solvable
<1>8. ASSUME NEW x \in S PROVE Solvable(x)
  <2> DEFINE T == {y \in S : ~ Solvable(y)}
  <2> SUFFICES ASSUME T # {} PROVE FALSE
    OBVIOUS
  <2> HIDE DEF Solvable
  <2>1. T \subseteq S
    OBVIOUS
  <2>2. PICK m \in T : \A y \in T : <<y, m>> \notin R
    <3> HIDE DEF T
    <3> QED BY ONLY <2>1, T # {}, WFMin, RecursionOn(S, R, B, G) DEF RecursionOn
  <2> QED BY <1>7, <2>2
<1> HIDE DEF F, Solvable
<1> QED BY <1>5, <1>6, <1>8

Folded(h, base, D) == FoldSet(LAMBDA k, a : h[k][a], base, D)

FoldOver(K, A, h, base, D) ==
  h \in [K -> [A -> A]] /\ base \in A /\ D \in SUBSET K /\ IsFiniteSet(D)

\* what the fold over each part of the set is
IsFold(iter, A, h, base, D) ==
  /\ iter \in [SUBSET D -> A]
  /\ Folded(h, base, D) = iter[D]
  /\ iter[{}] = base
  /\ \A s \in SUBSET D : s # {} => \E k \in s : iter[s] = h[k][iter[s \ {k}]]

(* A fold over a finite set takes one element after the other.             *)
LEMMA FoldSetIterates ==
  ASSUME NEW K, NEW A, NEW h, NEW base, NEW D, FoldOver(K, A, h, base, D)
  PROVE  \E iter : IsFold(iter, A, h, base, D)
<1> USE DEF FoldOver
<1> DEFINE Pick(s) == CHOOSE k \in s : TRUE
           After(s, f) == IF s = {} THEN base ELSE h[Pick(s)][f[s \ {Pick(s)}]]
           Step(f) == [s \in SUBSET D |-> After(s, f)]
           iter == CHOOSE f : f = Step(f)
           R == StrictSubsetOrdering(D)
           G == [s \in SUBSET D |-> [f \in [SUBSET D -> A] |-> After(s, f)]]
<1>1. Folded(h, base, D) = iter[D]
  BY DEF Folded, FoldSet, MapThenFoldSet
<1>2. ASSUME NEW s \in SUBSET D, s # {}
      PROVE  /\ Pick(s) \in s /\ Pick(s) \in K /\ s \ {Pick(s)} \in SUBSET D
             /\ <<s \ {Pick(s)}, s>> \in R
  <2>1. Pick(s) \in s
    BY <1>2
  <2> HIDE DEF Pick
  <2> QED BY <2>1 DEF StrictSubsetOrdering
<1> HIDE DEF Pick, iter
<1>3. ASSUME NEW s \in SUBSET D, NEW f \in [SUBSET D -> A] PROVE After(s, f) \in A
  <2>1. CASE s # {}
    <3>1. Pick(s) \in K /\ f[s \ {Pick(s)}] \in A
      BY <1>2, <2>1
    <3> QED BY <2>1, <3>1
  <2> QED BY <2>1
<1>4. ASSUME NEW s \in SUBSET D, NEW f \in [SUBSET D -> A], NEW g \in [SUBSET D -> A],
             \A t \in SUBSET D : <<t, s>> \in R => f[t] = g[t]
      PROVE  After(s, f) = After(s, g)
  <2> HIDE DEF R
  <2> QED BY <1>2, <1>4
<1>5. IsWellFoundedOn(R, SUBSET D)
  <2>1. FiniteSubsetsOf(D) = SUBSET D
    BY FS_FiniteSubsetsOfFinite, FS_Subset DEF FiniteSubsetsOf
  <2> QED BY <2>1, FS_StrictSubsetOrderingWellFounded
<1>6. \A x, y, z \in SUBSET D : <<x, y>> \in R /\ <<y, z>> \in R => <<x, z>> \in R
  BY DEF StrictSubsetOrdering
<1> HIDE DEF After, R
<1>8. \A s \in SUBSET D : \A f \in [SUBSET D -> A] : G[s][f] = After(s, f)
  OBVIOUS
<1> HIDE DEF G
<1>9. ASSUME NEW s \in SUBSET D, NEW f \in [SUBSET D -> A], NEW g \in [SUBSET D -> A],
             \A t \in SUBSET D : <<t, s>> \in R => f[t] = g[t]
      PROVE  G[s][f] = G[s][g]
  <2>1. After(s, f) = After(s, g)
    BY <1>4, <1>9
  <2>2. \A e \in [SUBSET D -> A] : G[s][e] = After(s, e)
    BY ONLY <1>8, s \in SUBSET D
  <2>3. G[s][f] = After(s, f) /\ G[s][g] = After(s, g)
    BY ONLY <2>2, f \in [SUBSET D -> A], g \in [SUBSET D -> A]
  <2> QED BY ONLY <2>1, <2>3
<1>10. PICK F \in [SUBSET D -> A] : \A s \in SUBSET D : F[s] = G[s][F]
  <2>1. A # {} /\ \A s \in SUBSET D : \A f \in [SUBSET D -> A] : G[s][f] \in A
    <3>1. \A s \in SUBSET D : \A f \in [SUBSET D -> A] : After(s, f) \in A
      BY ONLY <1>3
    <3>2. QED BY <1>8, <3>1
  <2>2. RecursionOn(SUBSET D, R, A, G)
    <3>1. \A s \in SUBSET D : \A f, g \in [SUBSET D -> A] :
            (\A t \in SUBSET D : <<t, s>> \in R => f[t] = g[t]) => G[s][f] = G[s][g]
      BY ONLY <1>9
    <3>2. QED BY ONLY <1>5, <1>6, <2>1, <3>1 DEF RecursionOn
  <2>3. \E f : IsSolution(f, SUBSET D, A, G)
    BY ONLY <2>2, RecursionHasSolution
  <2> QED BY <2>3 DEF IsSolution
<1>11. F = Step(F)
  BY <1>8, <1>10
<1>12. iter = Step(iter)
  <2> HIDE DEF Step
  <2> QED BY <1>11 DEF iter
<1>13. \A s \in SUBSET D : iter[s] = After(s, iter)
  BY <1>12
<1>14. \A s \in SUBSET D : iter[s] = IF s = {} THEN base ELSE h[Pick(s)][iter[s \ {Pick(s)}]]
  BY <1>13 DEF After
<1>15. \A s \in SUBSET D : iter[s] \in A
  <2> DEFINE T == {s \in SUBSET D : iter[s] \notin A}
  <2> SUFFICES ASSUME T # {} PROVE FALSE
    OBVIOUS
  <2>1. T \subseteq SUBSET D
    OBVIOUS
  <2>2. PICK m \in T : \A s \in T : <<s, m>> \notin R
    <3> HIDE DEF T
    <3> QED BY ONLY <2>1, T # {}, WFMin, <1>5
  <2>3. m # {}
    BY <1>14
  <2>4. iter[m \ {Pick(m)}] \in A /\ Pick(m) \in K
    BY <1>2, <2>2, <2>3
  <2> QED BY <1>14, <2>3, <2>4
<1>16. iter \in [SUBSET D -> A]
  <2>1. iter = [s \in SUBSET D |-> iter[s]]
    BY <1>12
  <2> QED BY <1>15, <2>1
<1>17. iter[{}] = base /\ \A s \in SUBSET D : s # {} => \E k \in s : iter[s] = h[k][iter[s \ {k}]]
  BY <1>2, <1>14
<1> HIDE DEF Step
<1> QED BY <1>1, <1>16, <1>17 DEF IsFold

==============================================================================
