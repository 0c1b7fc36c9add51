------------------------ MODULE TaskDecompositionProofs ------------------------
(***************************************************************************)
(* Theorems about module TaskDecomposition, for every set of proposals and *)
(* cases and every value of the limits.                                    *)
(*                                                                         *)
(* First the depth-first search of both validations: its recursion has a   *)
(* solution, since each call has one key more among the visiting, and in a *)
(* list it raises no cycle for, some key of any group depends on none of   *)
(* the group.  Then the graph the decisions build, and the replay of its   *)
(* trace.                                                                  *)
(***************************************************************************)
EXTENDS TaskDecomposition, OrderLemmas, SequenceTheorems, FunctionTheorems

ChildType == [key : Seq(STRING), depends_on : SUBSET Seq(STRING)]

\* a list whose dependencies are on keys of the list
Closed(children) ==
  /\ children \in Seq(ChildType)
  /\ \A i \in DOMAIN children : children[i].depends_on \subseteq KeysOf(children)

LEMMA KeysAreFinite ==
  ASSUME NEW children \in Seq(ChildType)
  PROVE  IsFiniteSet(KeysOf(children))
<1> DEFINE keyOf == [i \in DOMAIN children |-> children[i].key]
<1>1. PICK n \in Nat : n = Len(children) /\ DOMAIN children = 1 .. n
  BY LenProperties
<1>2. IsFiniteSet(DOMAIN children)
  BY <1>1, FS_Interval
<1>3. keyOf \in Surjection(DOMAIN children, KeysOf(children))
  BY DEF Surjection, KeysOf
<1> QED BY <1>2, <1>3, FS_Surjection

LEMMA DependenciesAreKeys ==
  ASSUME NEW children, Closed(children), NEW key
  PROVE  DependsOn(children, key) \in SUBSET KeysOf(children)
BY DEF Closed, DependsOn

---------------------------------------------------------------------------
\* what visits with some keys among the visiting are
Visits(K) == [K -> [Seen(K) -> Seen(K)]]

LEMMA VisitAllIsAFold ==
  ASSUME NEW visit, NEW seen, NEW keys
  PROVE  VisitAll(visit, seen, keys) = Folded(visit, seen, keys)
BY DEF VisitAll, Folded

LEMMA VisitAllIterates ==
  ASSUME NEW K, IsFiniteSet(K), NEW visit \in Visits(K), NEW seen \in Seen(K),
         NEW keys \in SUBSET K
  PROVE  /\ \E iter : IsFold(iter, Seen(K), visit, seen, keys)
         /\ VisitAll(visit, seen, keys) \in Seen(K)
<1>1. IsFiniteSet(keys)
  BY FS_Subset
<1>2. FoldOver(K, Seen(K), visit, seen, keys)
  BY <1>1 DEF FoldOver, Visits
<1>3. PICK iter : IsFold(iter, Seen(K), visit, seen, keys)
  BY ONLY <1>2, FoldSetIterates
<1>4. iter[keys] \in Seen(K) /\ Folded(visit, seen, keys) = iter[keys]
  BY ONLY <1>3 DEF IsFold
<1> QED BY <1>3, <1>4, VisitAllIsAFold

LEMMA VisitType ==
  ASSUME NEW children, Closed(children), NEW below \in Visits(KeysOf(children)),
         NEW visiting, NEW key \in KeysOf(children), NEW seen \in Seen(KeysOf(children))
  PROVE  Visit(children, below, visiting, key, seen) \in Seen(KeysOf(children))
<1> DEFINE K == KeysOf(children)
           after == VisitAll(below, seen, DependsOn(children, key))
<1>1. IsFiniteSet(K)
  BY KeysAreFinite DEF Closed
<1>2. DependsOn(children, key) \in SUBSET K
  BY DependenciesAreKeys
<1>3. after \in Seen(K)
  BY <1>1, <1>2, VisitAllIterates
<1> HIDE DEF K, after
<1>4. [after EXCEPT !.keys = @ \cup {key}] \in Seen(K)
  BY <1>3 DEF Seen, K
<1>5. seen \in Seen(K) /\ [seen EXCEPT !.cycle = TRUE] \in Seen(K)
  BY DEF Seen, K
<1> QED BY <1>4, <1>5 DEF Visit, K, after

\* the order of the recursion: one more key is among the visiting
More(K) == {p \in (SUBSET K) \X (SUBSET K) : p[2] \subseteq p[1] /\ p[2] # p[1]}

LEMMA MoreIsWellFounded ==
  ASSUME NEW K, IsFiniteSet(K)
  PROVE  IsWellFoundedOn(More(K), SUBSET K)
<1> DEFINE R == StrictSubsetOrdering(K)
<1>1. IsWellFoundedOn(R, SUBSET K)
  <2>1. FiniteSubsetsOf(K) = SUBSET K
    BY FS_FiniteSubsetsOfFinite, FS_Subset DEF FiniteSubsetsOf
  <2> QED BY <2>1, FS_StrictSubsetOrderingWellFounded
<1>2. ASSUME NEW f \in [Nat -> SUBSET K], \A n \in Nat : <<f[n + 1], f[n]>> \in More(K)
      PROVE  FALSE
  <2> DEFINE g == [n \in Nat |-> K \ f[n]]
  <2>1. g \in [Nat -> SUBSET K]
    OBVIOUS
  <2>2. ASSUME NEW n \in Nat PROVE <<g[n + 1], g[n]>> \in R
    <3>1. f[n] \in SUBSET K /\ f[n + 1] \in SUBSET K /\ f[n] \subseteq f[n + 1] /\ f[n] # f[n + 1]
      BY <1>2 DEF More
    <3>2. g[n] = K \ f[n] /\ g[n + 1] = K \ f[n + 1]
      OBVIOUS
    <3>3. K \ f[n + 1] \subseteq K \ f[n] /\ K \ f[n + 1] # K \ f[n]
      BY <3>1
    <3> QED BY <3>2, <3>3 DEF StrictSubsetOrdering
  <2> HIDE DEF g, R
  <2> QED BY ONLY <1>1, <2>1, <2>2 DEF IsWellFoundedOn
<1> QED BY <1>2 DEF IsWellFoundedOn

IsSearch(search, children) ==
  /\ search \in [SUBSET KeysOf(children) -> Visits(KeysOf(children))]
  /\ \A visiting \in SUBSET KeysOf(children) :
        search[visiting] =
          [key \in KeysOf(children) |-> [seen \in Seen(KeysOf(children)) |->
              Visit(children, search[visiting \cup {key}], visiting, key, seen)]]

LEMMA SearchIsDefined ==
  ASSUME NEW children, Closed(children)
  PROVE  IsSearch(Search(children), children)
<1> DEFINE K == KeysOf(children)
           S == SUBSET K
           B == Visits(K)
           R == More(K)
           At(x, f) == [key \in K |-> [seen \in Seen(K) |->
                          Visit(children, f[x \cup {key}], x, key, seen)]]
           Stepped(f) == [x \in S |-> At(x, f)]
           search == CHOOSE f : f = Stepped(f)
           G == [x \in S |-> [f \in [S -> B] |-> At(x, f)]]
<1>1. Search(children) = search
  BY DEF Search
<1>2. IsFiniteSet(K)
  BY KeysAreFinite DEF Closed
<1> HIDE DEF search, K
<1>3. IsWellFoundedOn(R, S)
  BY <1>2, MoreIsWellFounded
<1>4. \A x, y, z \in S : <<x, y>> \in R /\ <<y, z>> \in R => <<x, z>> \in R
  BY DEF More
<1>5. ASSUME NEW x \in S, NEW f \in [S -> B] PROVE At(x, f) \in B
  <2> SUFFICES ASSUME NEW key \in K, NEW seen \in Seen(K)
               PROVE  Visit(children, f[x \cup {key}], x, key, seen) \in Seen(K)
    BY DEF Visits
  <2>1. x \cup {key} \in S
    OBVIOUS
  <2>2. f[x \cup {key}] \in B
    BY <2>1
  <2> QED BY <2>2, VisitType DEF K
<1>6. ASSUME NEW x \in S, NEW f \in [S -> B], NEW g \in [S -> B],
             \A y \in S : <<y, x>> \in R => f[y] = g[y]
      PROVE  At(x, f) = At(x, g)
  <2> SUFFICES ASSUME NEW key \in K, NEW seen \in Seen(K)
               PROVE  Visit(children, f[x \cup {key}], x, key, seen)
                        = Visit(children, g[x \cup {key}], x, key, seen)
    BY Zenon
  <2>1. CASE key \in x
    BY <2>1 DEF Visit
  <2>2. CASE key \notin x
    <3>1. x \cup {key} \in S /\ <<x \cup {key}, x>> \in R
      BY <2>2 DEF More
    <3>2. f[x \cup {key}] = g[x \cup {key}]
      BY <1>6, <3>1
    <3> QED BY <3>2
  <2> QED BY <2>1, <2>2
<1> HIDE DEF At, R, B
<1>7. \A x \in S : \A f \in [S -> B] : G[x][f] = At(x, f)
  OBVIOUS
<1> HIDE DEF G
<1>8. \A x \in S : \A f \in [S -> B] : G[x][f] \in B
  BY <1>5, <1>7
<1>9. ASSUME NEW x \in S, NEW f \in [S -> B], NEW g \in [S -> B],
             \A y \in S : <<y, x>> \in R => f[y] = g[y]
      PROVE  G[x][f] = G[x][g]
  <2>1. At(x, f) = At(x, g)
    BY <1>6, <1>9
  <2> QED BY ONLY <1>7, <2>1, x \in S, f \in [S -> B], g \in [S -> B]
<1>10. PICK F \in [S -> B] : \A x \in S : F[x] = G[x][F]
  <2>1. B # {}
    <3>1. [key \in K |-> [seen \in Seen(K) |-> seen]] \in B
      BY DEF B, Visits
    <3> QED BY <3>1
  <2>2. RecursionOn(S, R, B, G)
    BY <1>3, <1>4, <1>8, <1>9, <2>1 DEF RecursionOn
  <2>3. \E f : IsSolution(f, S, B, G)
    BY ONLY <2>2, RecursionHasSolution
  <2> QED BY <2>3 DEF IsSolution
<1>11. F = Stepped(F)
  BY <1>7, <1>10
<1>12. search = Stepped(search)
  <2> HIDE DEF Stepped
  <2> QED BY <1>11 DEF search
<1>13. \A x \in S : search[x] = At(x, search)
  BY <1>12
<1>14. \A x \in S : search[x] \in B
  <2> DEFINE T == {x \in S : search[x] \notin B}
  <2> SUFFICES ASSUME T # {} PROVE FALSE
    OBVIOUS
  <2>1. T \subseteq S
    OBVIOUS
  <2>2. PICK m \in T : \A x \in T : <<x, m>> \notin R
    <3> HIDE DEF T
    <3> QED BY ONLY <2>1, T # {}, WFMin, <1>3
  <2>3. m \in S /\ \A x \in S : <<x, m>> \in R => search[x] \in B
    BY <2>2
  \* a function with these values of the search, which suffice at m
  <2> DEFINE f == [x \in S |-> IF <<x, m>> \in R THEN search[x] ELSE F[x]]
  <2>4. f \in [S -> B] /\ \A x \in S : <<x, m>> \in R => f[x] = search[x]
    BY <2>3
  <2> HIDE DEF f, T
  <2>5. At(m, search) = At(m, f)
    <3> SUFFICES ASSUME NEW key \in K, NEW seen \in Seen(K)
                 PROVE  Visit(children, search[m \cup {key}], m, key, seen)
                          = Visit(children, f[m \cup {key}], m, key, seen)
      BY Zenon DEF At
    <3>1. CASE key \in m
      BY <3>1 DEF Visit
    <3>2. CASE key \notin m
      <4>1. m \cup {key} \in S /\ <<m \cup {key}, m>> \in R
        BY <2>3, <3>2 DEF More, R
      <4>2. f[m \cup {key}] = search[m \cup {key}]
        BY <2>4, <4>1
      <4> QED BY <4>2
    <3> QED BY <3>1, <3>2
  <2>6. At(m, f) \in B
    BY <1>5, <2>3, <2>4
  <2>7. search[m] \in B
    BY ONLY <1>13, <2>3, <2>5, <2>6
  <2> QED BY ONLY <2>2, <2>7 DEF T
<1>15. search = [x \in S |-> search[x]]
  BY <1>12
<1>16. search \in [S -> B]
  BY ONLY <1>14, <1>15
<1> QED BY <1>1, <1>13, <1>16 DEF IsSearch, At, K, B

---------------------------------------------------------------------------
\* of any group of these keys, some key depends on none of the group
CanStart(children, keys) ==
  \A group \in SUBSET keys :
    group # {} => \E first \in group : DependsOn(children, first) \cap group = {}

\* what the search has come to is sound, unless it raised
SoundlySeen(children, seen) ==
  \/ seen.cycle
  \/ /\ \A key \in seen.keys : DependsOn(children, key) \subseteq seen.keys
     /\ CanStart(children, seen.keys)

\* from seen, the keys were visited, unless the search raised
Reaches(seen, after, keys) ==
  /\ seen.cycle => after.cycle
  /\ after.cycle \/ (seen.keys \subseteq after.keys /\ keys \subseteq after.keys)

VisitsWell(children, visit) ==
  \A key \in KeysOf(children) : \A seen \in Seen(KeysOf(children)) :
    SoundlySeen(children, seen) =>
      SoundlySeen(children, visit[key][seen]) /\ Reaches(seen, visit[key][seen], {key})

LEMMA VisitAllVisitsWell ==
  ASSUME NEW children, Closed(children), NEW visit \in Visits(KeysOf(children)),
         VisitsWell(children, visit), NEW seen \in Seen(KeysOf(children)),
         SoundlySeen(children, seen), NEW keys \in SUBSET KeysOf(children)
  PROVE  /\ SoundlySeen(children, VisitAll(visit, seen, keys))
         /\ Reaches(seen, VisitAll(visit, seen, keys), keys)
<1> DEFINE K == KeysOf(children)
<1>1. IsFiniteSet(K) /\ IsFiniteSet(keys)
  BY KeysAreFinite, FS_Subset DEF Closed
<1>2. PICK iter : IsFold(iter, Seen(K), visit, seen, keys)
  BY <1>1, VisitAllIterates
<1>3. /\ VisitAll(visit, seen, keys) = iter[keys]
      /\ iter \in [SUBSET keys -> Seen(K)] /\ iter[{}] = seen
      /\ \A s \in SUBSET keys : s # {} => \E k \in s : iter[s] = visit[k][iter[s \ {k}]]
  BY <1>2, VisitAllIsAFold DEF IsFold
<1> DEFINE Well(s) == SoundlySeen(children, iter[s]) /\ Reaches(seen, iter[s], s)
           T == {s \in SUBSET keys : ~ Well(s)}
           R == StrictSubsetOrdering(keys)
<1>4. IsWellFoundedOn(R, SUBSET keys)
  <2>1. FiniteSubsetsOf(keys) = SUBSET keys
    BY <1>1, FS_FiniteSubsetsOfFinite, FS_Subset DEF FiniteSubsetsOf
  <2> QED BY <2>1, FS_StrictSubsetOrderingWellFounded
<1>5. T = {}
  <2> SUFFICES ASSUME T # {} PROVE FALSE
    OBVIOUS
  <2>1. T \subseteq SUBSET keys
    OBVIOUS
  <2>2. PICK m \in T : \A s \in T : <<s, m>> \notin R
    <3> HIDE DEF T, R
    <3> QED BY ONLY <2>1, T # {}, WFMin, <1>4
  <2>3. m \in SUBSET keys /\ ~ Well(m) /\ \A s \in SUBSET keys : <<s, m>> \in R => Well(s)
    <3> HIDE DEF Well, R
    <3> QED BY <2>2
  <2>4. m # {}
    <3> SUFFICES ASSUME m = {} PROVE Well(m)
      BY <2>3
    <3> QED BY <1>3 DEF Reaches
  <2>5. PICK k \in m : iter[m] = visit[k][iter[m \ {k}]]
    BY <1>3, <2>3, <2>4
  <2>6. m \ {k} \in SUBSET keys /\ <<m \ {k}, m>> \in R
    BY <2>3 DEF StrictSubsetOrdering
  <2>7. PICK before \in Seen(K) : before = iter[m \ {k}]
    BY <1>3, <2>6
  <2>8. SoundlySeen(children, before) /\ Reaches(seen, before, m \ {k})
    <3> HIDE DEF R
    <3> QED BY <2>3, <2>6, <2>7
  <2>9. SoundlySeen(children, iter[m]) /\ Reaches(before, iter[m], {k})
    <3>1. k \in K
      BY <2>3
    <3> QED BY <2>5, <2>7, <2>8, <3>1 DEF VisitsWell
  <2>10. Reaches(seen, iter[m], m)
    BY <2>8, <2>9 DEF Reaches
  <2> QED BY <2>3, <2>9, <2>10
<1> HIDE DEF Well
<1>6. Well(keys)
  BY <1>5
<1> QED BY <1>3, <1>6 DEF Well

\* with a key whose dependencies are all seen, what is seen stays sound
LEMMA OneMoreKeySeen ==
  ASSUME NEW children, NEW keys, NEW key, CanStart(children, keys),
         \A k \in keys : DependsOn(children, k) \subseteq keys,
         DependsOn(children, key) \subseteq keys
  PROVE  CanStart(children, keys \cup {key})
<1> SUFFICES ASSUME NEW group \in SUBSET (keys \cup {key}), group # {}, key \notin keys
             PROVE  \E first \in group : DependsOn(children, first) \cap group = {}
  BY DEF CanStart
<1>1. CASE group \cap keys = {}
  <2>1. group = {key}
    BY <1>1
  <2>2. DependsOn(children, key) \cap group = {}
    BY <2>1
  <2> QED BY <2>1, <2>2
<1>2. CASE group \cap keys # {}
  <2>1. PICK first \in group \cap keys :
          DependsOn(children, first) \cap (group \cap keys) = {}
    BY <1>2 DEF CanStart
  <2>2. DependsOn(children, first) \subseteq keys
    BY <2>1
  <2>3. DependsOn(children, first) \cap group = {}
    BY <2>1, <2>2
  <2> QED BY <2>1, <2>3
<1> QED BY <1>1, <1>2

LEMMA VisitVisitsWell ==
  ASSUME NEW children, Closed(children), NEW below \in Visits(KeysOf(children)),
         NEW visiting, NEW key \in KeysOf(children), NEW seen \in Seen(KeysOf(children)),
         SoundlySeen(children, seen), key \in visiting \/ VisitsWell(children, below)
  PROVE  /\ SoundlySeen(children, Visit(children, below, visiting, key, seen))
         /\ Reaches(seen, Visit(children, below, visiting, key, seen), {key})
<1> DEFINE K == KeysOf(children)
           result == Visit(children, below, visiting, key, seen)
<1>0. PICK keys, cycle : keys \in SUBSET K /\ cycle \in BOOLEAN /\ seen.keys = keys /\ seen.cycle = cycle
  BY DEF Seen
<1>1. CASE seen.cycle \/ key \in visiting
  <2>1. result = [seen EXCEPT !.cycle = TRUE]
    BY <1>1 DEF Visit
  <2>2. result.cycle
    BY <2>1 DEF Seen
  <2> QED BY <2>2 DEF SoundlySeen, Reaches
<1>2. CASE ~ (seen.cycle \/ key \in visiting) /\ key \in seen.keys
  <2>1. result = seen
    BY <1>2 DEF Visit
  <2> QED BY <1>2, <2>1 DEF Reaches
<1>3. CASE ~ (seen.cycle \/ key \in visiting) /\ key \notin seen.keys
  <2> DEFINE depends == DependsOn(children, key)
  <2>1. depends \in SUBSET K
    BY DependenciesAreKeys
  <2>2. PICK after \in Seen(K) : after = VisitAll(below, seen, depends)
    <3>1. IsFiniteSet(K)
      BY KeysAreFinite DEF Closed
    <3> QED BY <2>1, <3>1, VisitAllIterates
  <2>3. SoundlySeen(children, after) /\ Reaches(seen, after, depends)
    <3>1. VisitsWell(children, below)
      BY <1>3
    <3> QED BY <2>1, <2>2, <3>1, VisitAllVisitsWell
  <2>4. result = [after EXCEPT !.keys = @ \cup {key}]
    BY <1>3, <2>2 DEF Visit
  <2>5. result.cycle = after.cycle /\ result.keys = after.keys \cup {key}
    BY <2>4 DEF Seen
  <2>6. CASE after.cycle
    BY <2>5, <2>6 DEF SoundlySeen, Reaches
  <2>7. CASE ~ after.cycle
    <3>1. depends \subseteq after.keys /\ seen.keys \subseteq after.keys
      BY <2>3, <2>7 DEF Reaches
    <3>2. /\ \A k \in after.keys : DependsOn(children, k) \subseteq after.keys
          /\ CanStart(children, after.keys)
      BY <2>3, <2>7 DEF SoundlySeen
    <3>3. CanStart(children, result.keys)
      BY ONLY <2>5, <3>1, <3>2, OneMoreKeySeen
    <3>4. \A k \in result.keys : DependsOn(children, k) \subseteq result.keys
      BY <2>5, <3>1, <3>2
    <3>5. ~ seen.cycle
      BY <1>3
    <3> QED BY <2>5, <3>1, <3>3, <3>4, <3>5 DEF SoundlySeen, Reaches
  <2> QED BY <2>6, <2>7
<1> QED BY <1>1, <1>2, <1>3

LEMMA SearchVisitsWell ==
  ASSUME NEW children, Closed(children), NEW visiting \in SUBSET KeysOf(children)
  PROVE  VisitsWell(children, Search(children)[visiting])
<1> DEFINE K == KeysOf(children)
           S == SUBSET K
           R == More(K)
<1>1. PICK search : search = Search(children) /\ IsSearch(search, children)
  BY SearchIsDefined
<1>2. search \in [S -> Visits(K)]
  BY <1>1 DEF IsSearch
<1>3. IsWellFoundedOn(R, S)
  <2>1. IsFiniteSet(K)
    BY KeysAreFinite DEF Closed
  <2> QED BY <2>1, MoreIsWellFounded
<1> DEFINE T == {x \in S : ~ VisitsWell(children, search[x])}
<1>4. T = {}
  <2> SUFFICES ASSUME T # {} PROVE FALSE
    OBVIOUS
  <2>1. T \subseteq S
    OBVIOUS
  <2>2. PICK m \in T : \A x \in T : <<x, m>> \notin R
    <3> HIDE DEF T, R
    <3> QED BY ONLY <2>1, T # {}, WFMin, <1>3
  <2>3. /\ m \in S /\ ~ VisitsWell(children, search[m])
        /\ \A x \in S : <<x, m>> \in R => VisitsWell(children, search[x])
    BY <2>2
  <2>4. ASSUME NEW key \in K, NEW seen \in Seen(K), SoundlySeen(children, seen)
        PROVE  SoundlySeen(children, search[m][key][seen]) /\ Reaches(seen, search[m][key][seen], {key})
    <3>1. m \cup {key} \in S
      BY <2>3
    <3>2. PICK below \in Visits(K) : below = search[m \cup {key}]
      BY <1>2, <3>1
    <3>3. key \in m \/ VisitsWell(children, below)
      <4> SUFFICES ASSUME key \notin m PROVE VisitsWell(children, below)
        OBVIOUS
      <4>1. <<m \cup {key}, m>> \in R
        BY <2>3 DEF More
      <4> QED BY <2>3, <3>1, <3>2, <4>1
    <3>4. search[m][key][seen] = Visit(children, below, m, key, seen)
      <4>1. search[m] = [k \in K |-> [s \in Seen(K) |->
                          Visit(children, search[m \cup {k}], m, k, s)]]
        BY <1>1, <2>3 DEF IsSearch
      <4> HIDE DEF K
      <4>2. search[m][key][seen] = Visit(children, search[m \cup {key}], m, key, seen)
        BY ONLY <4>1, key \in K, seen \in Seen(K)
      <4> QED BY <3>2, <4>2
    <3>5. /\ SoundlySeen(children, Visit(children, below, m, key, seen))
          /\ Reaches(seen, Visit(children, below, m, key, seen), {key})
      BY <2>4, <3>3, VisitVisitsWell
    <3> QED BY <3>4, <3>5
  <2> QED BY <2>3, <2>4 DEF VisitsWell
<1> QED BY <1>1, <1>4

\* a list the search raises no cycle for
LEMMA WellFormedCanStart ==
  ASSUME NEW children \in Seq(ChildType), WellFormed(children)
  PROVE  CanStart(children, KeysOf(children))
<1> DEFINE K == KeysOf(children)
<1>1. Closed(children)
  BY DEF Closed, WellFormed
<1>2. PICK visit \in Visits(K) : visit = Search(children)[{}]
  <2>1. {} \in SUBSET K
    OBVIOUS
  <2>2. Search(children) \in [SUBSET K -> Visits(K)]
    BY <1>1, SearchIsDefined DEF IsSearch
  <2> QED BY <2>1, <2>2
<1>3. VisitsWell(children, visit)
  <2>1. {} \in SUBSET K
    OBVIOUS
  <2> QED BY <1>1, <1>2, <2>1, SearchVisitsWell
<1>4. PICK start \in Seen(K) : start = [keys |-> {}, cycle |-> FALSE]
  BY DEF Seen
<1>5. SoundlySeen(children, start)
  BY <1>4 DEF SoundlySeen, CanStart
<1>6. PICK end : end = VisitAll(visit, start, K)
  OBVIOUS
<1>7. SoundlySeen(children, end) /\ Reaches(start, end, K)
  <2>1. K \in SUBSET KeysOf(children)
    OBVIOUS
  <2> QED BY <1>1, <1>3, <1>5, <1>6, <2>1, VisitAllVisitsWell
<1>8. ~ end.cycle
  BY <1>2, <1>4, <1>6 DEF WellFormed, Cyclic
<1>9. end \in Seen(K)
  <2>1. IsFiniteSet(K)
    BY KeysAreFinite
  <2>2. K \in SUBSET K
    OBVIOUS
  <2> QED BY <1>6, <2>1, <2>2, VisitAllIterates
<1>10. K \subseteq end.keys /\ CanStart(children, end.keys)
  BY <1>7, <1>8 DEF SoundlySeen, Reaches
<1> QED BY <1>10 DEF CanStart

---------------------------------------------------------------------------
\* the identifiers of nodes; the name of the root is none of a model's strings
Name == STRING \cup {"root"}
Ids == Seq(Name)

NodeType ==
  [status : {"pending", "ready", "waiting", "completed", "failed", "blocked"},
   goal : {c.goal : c \in Cases} \cup {"child"}, dependencies : SUBSET Ids, depth : Nat,
   children : Seq(Ids),
   was : {"unassessed", "ready", "waiting", "failed", "blocked", "refused"}]

Decisions == {Atomic} \cup {Into(c) : c \in {d \in Proposals : ValidChildren(d)}}

OneName(key) == key \in Ids /\ Len(key) = 1

\* the identifier is that of the parent and one name
Under(child, id) == \E key \in Ids : Len(key) = 1 /\ child = id \o key

NodesInv ==
  /\ case \in Cases
  /\ DOMAIN nodes \in SUBSET Ids /\ IsFiniteSet(DOMAIN nodes) /\ Root \in DOMAIN nodes
  /\ \A id \in DOMAIN nodes :
        /\ nodes[id] \in NodeType /\ Len(id) > 0
        /\ nodes[id].status = "pending" => nodes[id].children = <<>>
        /\ \A child \in ChildIds(id) : Under(child, id)

DecisionsInv == \A id \in DOMAIN trace : trace[id].decision \in Decisions

GraphInv == NodesInv /\ DecisionsInv /\ AcceptedChildrenAreSound

LEMMA RootIsAnId == Root \in Ids /\ Len(Root) = 1
<1>1. "root" \in Name
  BY DEF Name
<1> HIDE DEF Name
<1> QED BY <1>1 DEF Root, Ids

LEMMA KeysAreIds ==
  ASSUME NEW key \in Seq(STRING)
  PROVE  key \in Ids
BY DEF Ids, Name

LEMMA NameAdded ==
  ASSUME NEW id \in Ids, NEW key, OneName(key)
  PROVE  /\ id \o key \in Ids /\ Len(id \o key) = Len(id) + 1 /\ Len(id) \in Nat
         /\ \A i \in 1 .. Len(id) : (id \o key)[i] = id[i]
         /\ (id \o key)[Len(id) + 1] = key[1]
<1>1. id \in Seq(Name) /\ key \in Seq(Name) /\ Len(key) = 1
  BY DEF Ids, OneName
<1>2. PICK n \in Nat : n = Len(id)
  BY <1>1, LenProperties
<1>3. PICK s : s = id \o key
  OBVIOUS
<1>4. /\ s \in Seq(Name) /\ Len(s) = n + 1
      /\ \A i \in 1 .. n + 1 : s[i] = IF i <= n THEN id[i] ELSE key[i - n]
  <2>1. /\ id \o key \in Seq(Name) /\ Len(id \o key) = Len(id) + Len(key)
        /\ \A i \in 1 .. Len(id) + Len(key) :
             (id \o key)[i] = IF i <= Len(id) THEN id[i] ELSE key[i - Len(id)]
    BY ONLY <1>1, ConcatProperties, Zenon
  <2> QED BY ONLY <1>1, <1>2, <1>3, <2>1
<1>5. n + 1 - n = 1 /\ n + 1 \in 1 .. n + 1 /\ ~ (n + 1 <= n)
      /\ \A i \in 1 .. n : i <= n /\ i \in 1 .. n + 1
  BY <1>2
<1>6. s[n + 1] = key[1] /\ \A i \in 1 .. n : s[i] = id[i]
  BY ONLY <1>4, <1>5
<1> QED BY ONLY <1>2, <1>3, <1>4, <1>6 DEF Ids

\* an identifier with one name more tells the name and what it was added to
LEMMA OneMoreName ==
  ASSUME NEW id \in Ids, NEW other \in Ids, NEW key, NEW last, OneName(key), OneName(last),
         id \o key = other \o last
  PROVE  id = other /\ key = last
<1>1. PICK s, n, m : s = id \o key /\ n = Len(id) /\ m = Len(other)
  OBVIOUS
<1>2. /\ n \in Nat /\ Len(s) = n + 1 /\ \A i \in 1 .. n : s[i] = id[i]
      /\ s[n + 1] = key[1]
  BY <1>1, NameAdded
<1>3. /\ m \in Nat /\ Len(s) = m + 1 /\ \A i \in 1 .. m : s[i] = other[i]
      /\ s[m + 1] = last[1]
  <2>1. s = other \o last
    BY <1>1
  <2>2. /\ Len(other) \in Nat /\ Len(other \o last) = Len(other) + 1
        /\ \A i \in 1 .. Len(other) : (other \o last)[i] = other[i]
        /\ (other \o last)[Len(other) + 1] = last[1]
    BY ONLY other \in Ids, OneName(last), NameAdded
  <2> QED BY ONLY <1>1, <2>1, <2>2
<1>4. n = m /\ key[1] = last[1] /\ \A i \in 1 .. n : id[i] = other[i]
  BY ONLY <1>2, <1>3
<1>5. id = other
  <2>1. Len(id) = Len(other) /\ \A i \in 1 .. Len(id) : id[i] = other[i]
    BY ONLY <1>1, <1>4
  <2>2. id \in Seq(Name) /\ other \in Seq(Name)
    BY DEF Ids
  <2> QED BY ONLY <2>1, <2>2, SeqEqual
<1>6. key = last
  <2>1. key \in Seq(Name) /\ last \in Seq(Name) /\ Len(key) = 1 /\ Len(last) = 1
    BY DEF Ids, OneName
  <2>2. \A i \in 1 .. Len(key) : key[i] = last[i]
    BY <1>4, <2>1
  <2> QED BY ONLY <2>1, <2>2, SeqEqual
<1> QED BY <1>5, <1>6

---------------------------------------------------------------------------
\* a list that the validator accepts
LEMMA ValidLists ==
  ASSUME NEW children, children \in Proposals, ValidChildren(children)
  PROVE  /\ children \in Seq(ChildType) /\ WellFormed(children) /\ Closed(children)
         /\ Len(children) \in Nat /\ DOMAIN children = 1 .. Len(children)
         /\ \A i \in DOMAIN children : children[i] \in ChildType /\ OneName(children[i].key)
<1>1. children \in Seq(ChildType)
  BY DecompositionAssumption DEF ChildType
<1>2. PICK n \in Nat : n = Len(children) /\ DOMAIN children = 1 .. n
  BY <1>1, LenProperties
<1>3. \A i \in DOMAIN children : children[i] \in ChildType
  BY <1>1, <1>2, ElementOfSeq
<1>4. WellFormed(children) /\ \A i \in DOMAIN children : Len(children[i].key) = 1
  BY DEF ValidChildren, ValidKey
<1>5. \A i \in DOMAIN children : children[i].key \in Ids
  BY <1>3, KeysAreIds DEF ChildType
<1> QED BY <1>1, <1>2, <1>3, <1>4, <1>5 DEF OneName, Closed, WellFormed

NewIds(id, children) == ToSet(ListedIds(id, children))

\* the identifiers of the new nodes, one for each key
LEMMA OneIdForEachKey ==
  ASSUME NEW id \in Ids, Len(id) > 0, NEW children, children \in Proposals,
         ValidChildren(children)
  PROVE  /\ ListedIds(id, children) \in Seq(Ids)
         /\ NewIds(id, children) = {id \o key : key \in KeysOf(children)}
         /\ \A key \in KeysOf(children) : OneName(key)
         /\ \A child \in NewIds(id, children) : child \in Ids /\ Len(child) > 1 /\ Under(child, id)
         /\ IsFiniteSet(NewIds(id, children))
         /\ Cardinality(NewIds(id, children)) = Len(children)
<1> DEFINE K == KeysOf(children)
           ids == ListedIds(id, children)
           N == NewIds(id, children)
           idOf == [key \in K |-> id \o key]
<1>1. /\ children \in Seq(ChildType) /\ WellFormed(children)
      /\ Len(children) \in Nat /\ DOMAIN children = 1 .. Len(children)
      /\ \A i \in DOMAIN children : OneName(children[i].key)
  BY ValidLists
<1>2. \A key \in K : OneName(key)
  BY <1>1 DEF KeysOf
<1>3. \A key \in K : id \o key \in Ids /\ Len(id \o key) = Len(id) + 1
  BY <1>2, NameAdded
<1>4. ids = [i \in 1 .. Len(children) |-> id \o children[i].key]
  BY <1>1 DEF ListedIds
<1>5. \A i \in 1 .. Len(children) : children[i].key \in K
  BY <1>1 DEF KeysOf
<1>6. ids \in Seq(Ids)
  <2>1. \A i \in 1 .. Len(children) : id \o children[i].key \in Ids
    BY <1>3, <1>5
  <2> QED BY ONLY <1>1, <1>4, <2>1
<1>7. N = {id \o key : key \in K}
  BY DEF NewIds, ToSet, ListedIds, KeysOf
<1>8. \A child \in N : child \in Ids /\ Len(child) > 1 /\ Under(child, id)
  <2> SUFFICES ASSUME NEW key \in K
               PROVE  id \o key \in Ids /\ Len(id \o key) > 1 /\ Under(id \o key, id)
    BY <1>7
  <2>1. key \in Ids /\ Len(key) = 1
    BY <1>2 DEF OneName
  <2>2. Under(id \o key, id)
    BY <2>1 DEF Under
  <2>3. Len(id) > 0 /\ Len(id) \in Nat
    BY NameAdded, <1>2
  <2>4. Len(id \o key) > 1
    BY ONLY <1>3, <2>3, key \in K
  <2> QED BY <1>3, <2>2, <2>4
<1>9. IsFiniteSet(K)
  BY <1>1, KeysAreFinite
<1>10. idOf \in Bijection(K, N)
  <2>1. idOf \in [K -> N] /\ \A child \in N : \E key \in K : idOf[key] = child
    BY ONLY <1>7
  <2>2. ASSUME NEW a \in K, NEW b \in K, idOf[a] = idOf[b] PROVE a = b
    <3>1. id \o a = id \o b
      BY <2>2
    <3> QED BY ONLY <1>2, <3>1, a \in K, b \in K, id \in Ids, OneMoreName
  <2> HIDE DEF idOf, K, N
  <2> QED BY ONLY <2>1, <2>2, Fun_IsBij
<1>11. IsFiniteSet(N) /\ Cardinality(N) = Cardinality(K)
  <2>1. ExistsBijection(K, N)
    BY <1>10 DEF ExistsBijection
  <2> QED BY ONLY <1>9, <2>1, FS_Bijection
<1>12. Cardinality(K) = Len(children)
  BY <1>1 DEF WellFormed
<1> QED BY <1>2, <1>6, <1>7, <1>8, <1>11, <1>12

---------------------------------------------------------------------------
\* the tree and the steps that leave it alone

LEMMA FreshGraphIsSound ==
  case \in Cases /\ nodes = Fresh(case) => NodesInv /\ AcceptedChildrenAreSound
<1> SUFFICES ASSUME case \in Cases, nodes = Fresh(case)
             PROVE  NodesInv /\ AcceptedChildrenAreSound
  OBVIOUS
<1> DEFINE r == [status |-> "pending", goal |-> case.goal, dependencies |-> {}, depth |-> 0,
                 children |-> <<>>, was |-> "unassessed"]
<1>1. DOMAIN nodes = {Root} /\ nodes[Root] = r
  BY DEF Fresh, Node
<1>2. <<>> \in Seq(Ids) /\ Len(<<>>) = 0
  BY EmptySeq
<1>3. r \in NodeType
  <2>1. case.goal \in {c.goal : c \in Cases} \cup {"child"}
    OBVIOUS
  <2> QED BY <1>2, <2>1 DEF NodeType
<1>4. r.children = <<>> /\ r.dependencies = {}
  OBVIOUS
<1> HIDE DEF r
<1>5. ChildIds(Root) = {}
  BY <1>1, <1>2, <1>4 DEF ChildIds, ToSet
<1>6. IsFiniteSet(DOMAIN nodes) /\ Cardinality(DOMAIN nodes) = 1
  BY <1>1, FS_Singleton
<1>7. NodesInv
  <2>1. Root \in Ids /\ Len(Root) > 0
    BY RootIsAnId
  <2> QED BY <1>1, <1>3, <1>4, <1>5, <1>6, <2>1 DEF NodesInv
<1>8. ListedOnce
  <2>1. Cardinality({}) = 0
    BY FS_EmptySet
  <2>2. Cardinality(ChildIds(Root)) = Len(nodes[Root].children)
    BY <1>1, <1>2, <1>4, <1>5, <2>1
  <2> QED BY ONLY <1>1, <1>5, <2>2 DEF ListedOnce
<1>9. WithinBudgets
  <2>1. case.max_nodes \in Nat \ {0}
    BY DecompositionAssumption
  <2>2. Cardinality(DOMAIN nodes) <= case.max_nodes
    BY <1>6, <2>1
  <2> QED BY ONLY <1>1, <1>5, <2>2 DEF WithinBudgets
<1>10. SiblingsInOrder
  BY ONLY <1>1, <1>5 DEF SiblingsInOrder
<1> QED BY <1>7, <1>8, <1>9, <1>10 DEF AcceptedChildrenAreSound

\* the step changes at most statuses
KeepsTree ==
  /\ case' = case
  /\ DOMAIN nodes' = DOMAIN nodes
  /\ \A n \in DOMAIN nodes :
        /\ nodes'[n] \in NodeType
        /\ nodes'[n].children = nodes[n].children
        /\ nodes'[n].dependencies = nodes[n].dependencies
        /\ nodes'[n].depth = nodes[n].depth
        /\ nodes'[n].goal = nodes[n].goal
        /\ nodes'[n].status = "pending" => nodes[n].status = "pending"

LEMMA SameTreeIsSound ==
  ASSUME NodesInv, AcceptedChildrenAreSound, KeepsTree
  PROVE  NodesInv' /\ AcceptedChildrenAreSound'
<1>1. \A n \in DOMAIN nodes : ChildIds(n)' = ChildIds(n)
  BY DEF ChildIds, KeepsTree
<1>2. DOMAIN nodes' = DOMAIN nodes /\ case' = case
  BY DEF KeepsTree
<1>3. \A n \in DOMAIN nodes : ChildIds(n) \subseteq DOMAIN nodes
  BY DEF AcceptedChildrenAreSound, ListedOnce
<1>4. NodesInv'
  BY <1>1, <1>2 DEF NodesInv, KeepsTree
<1>5. ListedOnce'
  <2>1. \A n \in DOMAIN nodes : nodes'[n].children = nodes[n].children
    BY DEF KeepsTree
  <2>2. ListedOnce
    BY DEF AcceptedChildrenAreSound
  <2> QED BY ONLY <1>1, <1>2, <2>1, <2>2 DEF ListedOnce
<1>6. WithinBudgets'
  <2>1. \A n \in DOMAIN nodes : nodes'[n].depth = nodes[n].depth
    BY DEF KeepsTree
  <2>2. WithinBudgets
    BY DEF AcceptedChildrenAreSound
  <2> QED BY ONLY <1>1, <1>2, <1>3, <2>1, <2>2 DEF WithinBudgets
<1>7. SiblingsInOrder'
  <2>1. \A n \in DOMAIN nodes : nodes'[n].dependencies = nodes[n].dependencies
    BY DEF KeepsTree
  <2>2. SiblingsInOrder
    BY DEF AcceptedChildrenAreSound
  <2>3. ASSUME NEW id \in DOMAIN nodes
        PROVE  /\ \A child \in ChildIds(id) : nodes'[child].dependencies \subseteq ChildIds(id)
               /\ \A group \in SUBSET ChildIds(id) : group # {} =>
                     \E first \in group : nodes'[first].dependencies \cap group = {}
    <3>1. /\ \A child \in ChildIds(id) : nodes[child].dependencies \subseteq ChildIds(id)
          /\ \A group \in SUBSET ChildIds(id) : group # {} =>
                \E first \in group : nodes[first].dependencies \cap group = {}
      BY ONLY <2>2, id \in DOMAIN nodes DEF SiblingsInOrder
    <3>2. \A child \in ChildIds(id) : nodes'[child].dependencies = nodes[child].dependencies
      BY ONLY <1>3, <2>1, id \in DOMAIN nodes
    <3>3. ASSUME NEW group \in SUBSET ChildIds(id), group # {}
          PROVE  \E first \in group : nodes'[first].dependencies \cap group = {}
      <4>1. PICK first \in group : nodes[first].dependencies \cap group = {}
        BY <3>1, <3>3
      <4>2. nodes'[first].dependencies = nodes[first].dependencies
        BY <3>2
      <4> QED BY <4>1, <4>2
    <3>4. \A child \in ChildIds(id) : nodes'[child].dependencies \subseteq ChildIds(id)
      BY ONLY <3>1, <3>2
    <3> QED BY <3>3, <3>4
  <2> QED BY <1>1, <1>2, <2>3 DEF SiblingsInOrder
<1> QED BY <1>4, <1>5, <1>6, <1>7 DEF AcceptedChildrenAreSound

\* the node gets these, and nothing else changes
Relabelled(id, status, was) ==
  /\ case' = case
  /\ DOMAIN nodes' = DOMAIN nodes
  /\ \A n \in DOMAIN nodes : n # id => nodes'[n] = nodes[n]
  /\ nodes'[id] = [nodes[id] EXCEPT !.status = status, !.was = was]

LEMMA RelabellingKeepsTree ==
  ASSUME NodesInv, NEW id \in DOMAIN nodes,
         NEW status \in {"ready", "completed", "failed", "blocked"},
         NEW was \in {"unassessed", "ready", "waiting", "failed", "blocked", "refused"},
         Relabelled(id, status, was)
  PROVE  /\ KeepsTree
         /\ nodes'[id].status = status /\ nodes'[id].was = was
         /\ nodes'[id].children = nodes[id].children
<1>1. PICK r : r \in NodeType /\ r = nodes[id]
  BY DEF NodesInv
<1>2. PICK t : t = nodes'[id]
  OBVIOUS
<1>3. t = [r EXCEPT !.status = status, !.was = was]
  BY <1>1, <1>2 DEF Relabelled
<1>4. /\ t \in NodeType /\ t.children = r.children /\ t.dependencies = r.dependencies
      /\ t.depth = r.depth /\ t.goal = r.goal /\ t.status = status /\ t.was = was
  BY ONLY <1>1, <1>3, status \in {"ready", "completed", "failed", "blocked"},
          was \in {"unassessed", "ready", "waiting", "failed", "blocked", "refused"}
     DEF NodeType
<1>5. status # "pending"
  OBVIOUS
<1>6. \A n \in DOMAIN nodes : n # id => nodes'[n] = nodes[n] /\ nodes[n] \in NodeType
  BY DEF Relabelled, NodesInv
<1> QED BY <1>1, <1>2, <1>4, <1>5, <1>6 DEF KeepsTree, Relabelled

\* the statuses that the steps give
LEMMA StatusStepsRelabel ==
  ASSUME NodesInv, NEW id \in DOMAIN nodes, case' = case
  PROVE  /\ \A status : Settled(id, status) => Relabelled(id, status, status)
         /\ RefuseNode(id) => Relabelled(id, "failed", "refused")
         /\ \A status : nodes' = [nodes EXCEPT ![id].status = status]
                          => Relabelled(id, status, nodes[id].was)
<1>1. PICK r : r \in NodeType /\ r = nodes[id]
  BY DEF NodesInv
<1>2. ASSUME NEW status, Settled(id, status) PROVE Relabelled(id, status, status)
  BY <1>2 DEF Settled, Relabelled
<1>3. ASSUME RefuseNode(id) PROVE Relabelled(id, "failed", "refused")
  BY <1>3 DEF RefuseNode, Relabelled
<1>4. ASSUME NEW status, nodes' = [nodes EXCEPT ![id].status = status]
      PROVE  Relabelled(id, status, nodes[id].was)
  <2>1. nodes'[id] = [nodes[id] EXCEPT !.status = status]
    BY <1>4
  <2>2. [r EXCEPT !.status = status] = [r EXCEPT !.status = status, !.was = r.was]
    BY <1>1 DEF NodeType
  <2>3. DOMAIN nodes' = DOMAIN nodes /\ \A n \in DOMAIN nodes : n # id => nodes'[n] = nodes[n]
    BY <1>4
  <2> QED BY ONLY <1>1, <2>1, <2>2, <2>3, case' = case DEF Relabelled
<1> QED BY <1>2, <1>3, <1>4

---------------------------------------------------------------------------
\* the step that adds children

\* the identifiers are of no node yet: only their parent, which has no
\* children, could have listed them
LEMMA NewIdsAreNew ==
  ASSUME NodesInv, AcceptedChildrenAreSound, NEW id \in DOMAIN nodes,
         nodes[id].status = "pending",
         NEW children, children \in Proposals, ValidChildren(children)
  PROVE  NewIds(id, children) \cap DOMAIN nodes = {}
<1> SUFFICES ASSUME NEW child \in NewIds(id, children), child \in DOMAIN nodes PROVE FALSE
  OBVIOUS
<1>1. id \in Ids /\ Len(id) > 0
  BY DEF NodesInv
<1>2. Len(child) > 1 /\ Under(child, id)
  BY <1>1, OneIdForEachKey
<1>3. child # Root
  <2>1. Len(Root) = 1
    BY RootIsAnId
  <2>2. Len(child) \in Nat
    BY <1>1, OneIdForEachKey, LenProperties DEF Ids
  <2>3. \A n \in Nat : n > 1 => n # 1
    OBVIOUS
  <2> QED BY ONLY <1>2, <2>1, <2>2, <2>3
<1>4. PICK parent \in DOMAIN nodes : child \in ChildIds(parent)
  BY <1>3 DEF AcceptedChildrenAreSound, ListedOnce
<1>5. Under(child, parent) /\ parent \in Ids
  BY <1>4 DEF NodesInv
<1>6. parent = id
  <2>1. PICK key : OneName(key) /\ child = id \o key
    BY <1>2 DEF Under, OneName
  <2>2. PICK last : OneName(last) /\ child = parent \o last
    BY <1>5 DEF Under, OneName
  <2> QED BY ONLY <1>1, <1>5, <2>1, <2>2, OneMoreName
<1>7. ChildIds(id) = {}
  <2>1. nodes[id].children = <<>>
    BY DEF NodesInv
  <2> QED BY <2>1 DEF ChildIds, ToSet
<1> QED BY <1>4, <1>6, <1>7

\* what the step makes of the nodes
Splits(id, children) ==
  LET added == NewIds(id, children) IN
  /\ case' = case
  /\ DOMAIN nodes' = DOMAIN nodes \cup added
  /\ added \cap DOMAIN nodes = {}
  /\ \A n \in DOMAIN nodes : n # id => nodes'[n] = nodes[n]
  /\ nodes'[id].status = "waiting" /\ nodes'[id].was = "waiting"
  /\ nodes'[id].children = ListedIds(id, children)
  /\ nodes'[id].dependencies = nodes[id].dependencies
  /\ nodes'[id].depth = nodes[id].depth /\ nodes'[id].goal = nodes[id].goal
  /\ \A n \in DOMAIN nodes' : nodes'[n] \in NodeType
  /\ \A key \in KeysOf(children) :
        /\ nodes'[id \o key].children = <<>> /\ nodes'[id \o key].was = "unassessed"
        /\ nodes'[id \o key].status = "pending"
        /\ nodes'[id \o key].depth = nodes[id].depth + 1
        /\ \E names \in SUBSET KeysOf(children) :
              /\ names \subseteq DependsOn(children, key)
              /\ nodes'[id \o key].dependencies = {id \o name : name \in names}

LEMMA ChildrenSplit ==
  ASSUME NodesInv, AcceptedChildrenAreSound, NEW id \in DOMAIN nodes,
         nodes[id].status = "pending", case' = case,
         NEW children, children \in Proposals, ValidChildren(children),
         nodes' = WithChildren(id, children)
  PROVE  Splits(id, children)
<1> DEFINE added == NewIds(id, children)
           K == KeysOf(children)
<1>1. id \in Ids /\ Len(id) > 0 /\ nodes[id].children = <<>>
  BY DEF NodesInv
<1>2. added \cap DOMAIN nodes = {}
  BY NewIdsAreNew
<1>3. /\ ListedIds(id, children) \in Seq(Ids) /\ added = {id \o key : key \in K}
      /\ \A key \in K : OneName(key)
      /\ \A child \in added : child \in Ids
  BY <1>1, OneIdForEachKey
<1>4. /\ DOMAIN nodes' = DOMAIN nodes \cup added
      /\ \A n \in added : nodes'[n] = NewNode(id, children, n)
      /\ \A n \in DOMAIN nodes : n # id => nodes'[n] = nodes[n]
      /\ nodes'[id] = SplitParent(id, children)
  BY <1>2 DEF WithChildren, NewIds
<1>5. PICK r : r \in NodeType /\ r = nodes[id]
  BY DEF NodesInv
<1>6. PICK t : t = nodes'[id]
  OBVIOUS
<1>7. t = [r EXCEPT !.status = "waiting", !.was = "waiting", !.children = ListedIds(id, children)]
  <2>1. t = [r EXCEPT !.status = "waiting", !.was = "waiting",
                      !.children = @ \o ListedIds(id, children)]
    BY <1>4, <1>5, <1>6 DEF SplitParent
  <2>2. r.children = <<>>
    BY <1>1, <1>5
  <2>3. <<>> \o ListedIds(id, children) = ListedIds(id, children)
    BY <1>3, ConcatEmptySeq
  <2> QED BY ONLY <2>1, <2>2, <2>3, <1>5 DEF NodeType
<1>8. /\ t \in NodeType /\ t.status = "waiting" /\ t.was = "waiting"
      /\ t.children = ListedIds(id, children) /\ t.dependencies = r.dependencies
      /\ t.depth = r.depth /\ t.goal = r.goal
  BY ONLY <1>3, <1>5, <1>7 DEF NodeType
<1>9. r.depth \in Nat
  BY <1>5 DEF NodeType
<1>10. ASSUME NEW key \in K
       PROVE  /\ id \o key \in added
              /\ nodes'[id \o key] \in NodeType
              /\ nodes'[id \o key].children = <<>> /\ nodes'[id \o key].was = "unassessed"
              /\ nodes'[id \o key].status = "pending"
              /\ nodes'[id \o key].depth = r.depth + 1
              /\ \E names \in SUBSET K :
                    /\ names \subseteq DependsOn(children, key)
                    /\ nodes'[id \o key].dependencies = {id \o name : name \in names}
  <2> DEFINE child == id \o key
             i == CHOOSE j \in DOMAIN children : id \o children[j].key = child
             names == children[i].depends_on
             depends == {id \o name : name \in names}
  <2>1. child \in added
    <3>1. child \in {id \o k : k \in K}
      BY ONLY <1>10
    <3>2. added = {id \o k : k \in K}
      BY <1>3
    <3> HIDE DEF added, child, K
    <3> QED BY ONLY <3>1, <3>2
  <2>2. i \in DOMAIN children /\ id \o children[i].key = child
    <3>1. \E j \in DOMAIN children : id \o children[j].key = child
      BY DEF KeysOf
    <3> QED BY ONLY <3>1
  <2> HIDE DEF i
  <2>3. children[i].key = key
    <3>1. OneName(children[i].key) /\ OneName(key)
      BY <1>3, <2>2 DEF KeysOf
    <3>2. PICK last : last = children[i].key
      OBVIOUS
    <3>3. OneName(last) /\ id \o last = id \o key
      BY ONLY <2>2, <3>1, <3>2
    <3>4. last = key
      BY ONLY <1>1, <3>1, <3>3, OneMoreName
    <3> QED BY ONLY <3>2, <3>4
  <2>4. names \in SUBSET K
    <3>1. Closed(children)
      BY ValidLists
    <3>2. \A j \in DOMAIN children : children[j].depends_on \in SUBSET K
      BY ONLY <3>1 DEF Closed
    <3> HIDE DEF K
    <3> QED BY ONLY <2>2, <3>2
  <2>5. names \subseteq DependsOn(children, key)
    BY <2>2, <2>3 DEF DependsOn
  <2>6. depends \in SUBSET Ids
    <3>1. \A name \in names : id \o name \in added
      BY ONLY <1>3, <2>4
    <3> QED BY ONLY <1>3, <3>1
  <2> HIDE DEF names
  <2>7. nodes'[child] = Node("child", depends, r.depth + 1)
    BY <1>4, <1>5, <2>1 DEF NewNode, i, names
  <2>8. <<>> \in Seq(Ids)
    BY EmptySeq
  <2> HIDE DEF depends, child
  <2>9. PICK new : new = nodes'[child]
    OBVIOUS
  <2>10. new = [status |-> "pending", goal |-> "child", dependencies |-> depends,
                depth |-> r.depth + 1, children |-> <<>>, was |-> "unassessed"]
    BY <2>7, <2>9 DEF Node
  <2>11. /\ new \in NodeType /\ new.children = <<>> /\ new.was = "unassessed"
         /\ new.status = "pending" /\ new.depth = r.depth + 1 /\ new.dependencies = depends
    BY ONLY <1>9, <2>6, <2>8, <2>10 DEF NodeType
  <2> QED BY <2>1, <2>4, <2>5, <2>9, <2>11 DEF child, depends
<1>11. ASSUME NEW n \in DOMAIN nodes' PROVE nodes'[n] \in NodeType
  <2>1. CASE n \in added
    <3>1. PICK key \in K : n = id \o key
      BY <1>3, <2>1
    <3> QED BY <1>10, <3>1
  <2>2. CASE n = id
    BY <1>6, <1>8, <2>2
  <2>3. CASE n \notin added /\ n # id
    BY <1>4, <2>3 DEF NodesInv
  <2> QED BY <2>1, <2>2, <2>3
<1> HIDE DEF K
<1>12. \A key \in K :
        /\ nodes'[id \o key].children = <<>> /\ nodes'[id \o key].was = "unassessed"
        /\ nodes'[id \o key].status = "pending"
        /\ nodes'[id \o key].depth = nodes[id].depth + 1
        /\ \E names \in SUBSET K :
              /\ names \subseteq DependsOn(children, key)
              /\ nodes'[id \o key].dependencies = {id \o name : name \in names}
  BY ONLY <1>5, <1>10
<1>13. /\ nodes'[id].status = "waiting" /\ nodes'[id].was = "waiting"
       /\ nodes'[id].children = ListedIds(id, children)
       /\ nodes'[id].dependencies = nodes[id].dependencies
       /\ nodes'[id].depth = nodes[id].depth /\ nodes'[id].goal = nodes[id].goal
  BY ONLY <1>5, <1>6, <1>8
<1>14. /\ DOMAIN nodes' = DOMAIN nodes \cup added /\ added \cap DOMAIN nodes = {}
       /\ \A n \in DOMAIN nodes : n # id => nodes'[n] = nodes[n]
       /\ \A n \in DOMAIN nodes' : nodes'[n] \in NodeType
  BY <1>2, <1>4, <1>11
<1> QED BY ONLY <1>12, <1>13, <1>14, case' = case DEF Splits, K

\* the new siblings: their dependencies follow the keys'
LEMMA NewSiblingsInOrder ==
  ASSUME NodesInv, NEW id \in DOMAIN nodes, Len(id) > 0,
         NEW children, children \in Proposals, ValidChildren(children),
         Splits(id, children)
  PROVE  /\ \A child \in NewIds(id, children) :
              nodes'[child].dependencies \subseteq NewIds(id, children)
         /\ \A group \in SUBSET NewIds(id, children) : group # {} =>
              \E first \in group : nodes'[first].dependencies \cap group = {}
<1> DEFINE K == KeysOf(children)
           added == NewIds(id, children)
<1>1. id \in Ids
  BY DEF NodesInv
<1>2. added = {id \o key : key \in K} /\ \A key \in K : OneName(key)
  BY <1>1, OneIdForEachKey
<1>3. \A key \in K : \E names \in SUBSET K :
        /\ names \subseteq DependsOn(children, key)
        /\ nodes'[id \o key].dependencies = {id \o name : name \in names}
  BY DEF Splits
<1>4. CanStart(children, K)
  BY ValidLists, WellFormedCanStart
<1> HIDE DEF K, added
<1>5. ASSUME NEW child \in added PROVE nodes'[child].dependencies \subseteq added
  <2>1. PICK key \in K : child = id \o key
    BY <1>2
  <2>2. PICK names \in SUBSET K : nodes'[child].dependencies = {id \o name : name \in names}
    BY <1>3, <2>1
  <2> QED BY ONLY <1>2, <2>2
<1>6. ASSUME NEW group \in SUBSET added, group # {}
      PROVE  \E first \in group : nodes'[first].dependencies \cap group = {}
  <2> DEFINE keys == {key \in K : id \o key \in group}
  <2>1. keys \in SUBSET K /\ keys # {}
    <3>1. PICK child \in group : TRUE
      BY <1>6
    <3>2. PICK key \in K : child = id \o key
      BY <1>2
    <3> QED BY <3>1, <3>2
  <2>2. PICK first \in keys : DependsOn(children, first) \cap keys = {}
    <3> HIDE DEF keys
    <3> QED BY ONLY <1>4, <2>1 DEF CanStart
  <2>3. first \in K /\ id \o first \in group
    OBVIOUS
  <2>4. PICK names \in SUBSET K :
          /\ names \subseteq DependsOn(children, first)
          /\ nodes'[id \o first].dependencies = {id \o name : name \in names}
    BY <1>3, <2>3
  <2>5. nodes'[id \o first].dependencies \cap group = {}
    <3> SUFFICES ASSUME NEW name \in names, id \o name \in group PROVE FALSE
      BY <2>4
    <3>1. name \in keys
      OBVIOUS
    <3> QED BY <2>2, <2>4, <3>1
  <2> QED BY <2>3, <2>5
<1> QED BY <1>5, <1>6 DEF added

LEMMA SplitIsSound ==
  ASSUME NodesInv, AcceptedChildrenAreSound, NEW id \in DOMAIN nodes,
         nodes[id].status = "pending",
         NEW children, children \in Proposals, ValidChildren(children),
         ~ (nodes[id].depth >= case.max_depth),
         ~ (Cardinality(DOMAIN nodes) + Len(children) > case.max_nodes),
         Splits(id, children)
  PROVE  NodesInv' /\ AcceptedChildrenAreSound'
<1> DEFINE K == KeysOf(children)
           added == NewIds(id, children)
<1>1. id \in Ids /\ Len(id) > 0 /\ nodes[id].children = <<>> /\ case \in Cases
  BY DEF NodesInv
<1>2. /\ ListedIds(id, children) \in Seq(Ids) /\ added = {id \o key : key \in K}
      /\ \A child \in added : child \in Ids /\ Len(child) > 1 /\ Under(child, id)
      /\ IsFiniteSet(added) /\ Cardinality(added) = Len(children)
  BY <1>1, OneIdForEachKey
<1>3. Len(children) \in Nat
  BY ValidLists
<1>4. /\ case' = case /\ DOMAIN nodes' = DOMAIN nodes \cup added /\ added \cap DOMAIN nodes = {}
      /\ \A n \in DOMAIN nodes : n # id => nodes'[n] = nodes[n]
      /\ nodes'[id].status = "waiting"
      /\ nodes'[id].children = ListedIds(id, children)
      /\ nodes'[id].dependencies = nodes[id].dependencies
      /\ nodes'[id].depth = nodes[id].depth
      /\ \A n \in DOMAIN nodes' : nodes'[n] \in NodeType
  BY DEF Splits
<1>5. \A n \in added : /\ nodes'[n].children = <<>> /\ nodes'[n].status = "pending"
                       /\ nodes'[n].depth = nodes[id].depth + 1
  <2>1. \A key \in K : /\ nodes'[id \o key].children = <<>>
                      /\ nodes'[id \o key].status = "pending"
                      /\ nodes'[id \o key].depth = nodes[id].depth + 1
    BY DEF Splits
  <2> QED BY ONLY <1>2, <2>1
<1>6. /\ ChildIds(id) = {} /\ ChildIds(id)' = added
      /\ \A n \in added : ChildIds(n)' = {}
      /\ \A n \in DOMAIN nodes : n # id => ChildIds(n)' = ChildIds(n)
  <2>1. ToSet(<<>>) = {}
    BY DEF ToSet
  <2>2. ToSet(ListedIds(id, children)) = added
    BY DEF NewIds
  <2> HIDE DEF added
  <2> QED BY <1>1, <1>4, <1>5, <2>1, <2>2 DEF ChildIds
<1>7. UNION {ChildIds(n) : n \in DOMAIN nodes} = DOMAIN nodes \ {Root}
  BY DEF AcceptedChildrenAreSound, ListedOnce
<1>8. \A n \in DOMAIN nodes : \A child \in ChildIds(n) : child \in DOMAIN nodes /\ child # Root
  BY <1>7
<1>9. IsFiniteSet(DOMAIN nodes) /\ Root \in DOMAIN nodes /\ DOMAIN nodes \in SUBSET Ids
  BY DEF NodesInv
<1> HIDE DEF K, added
<1>10. NodesInv'
  <2>1. IsFiniteSet(DOMAIN nodes \cup added)
    BY <1>2, <1>9, FS_Union
  <2>2. DOMAIN nodes' \in SUBSET Ids /\ IsFiniteSet(DOMAIN nodes') /\ Root \in DOMAIN nodes'
    BY <1>2, <1>4, <1>9, <2>1
  <2>3. ASSUME NEW n \in DOMAIN nodes'
        PROVE  /\ nodes'[n] \in NodeType /\ Len(n) > 0
               /\ nodes'[n].status = "pending" => nodes'[n].children = <<>>
               /\ \A child \in ChildIds(n)' : Under(child, n)
    <3>1. nodes'[n] \in NodeType
      BY <1>4
    <3>2. CASE n \in added
      <4>1. Len(n) > 1 /\ Len(n) \in Nat
        BY <1>2, <3>2, LenProperties DEF Ids
      <4>2. \A m \in Nat : m > 1 => m > 0
        OBVIOUS
      <4> QED BY <1>5, <1>6, <3>1, <3>2, <4>1, <4>2
    <3>3. CASE n = id
      BY <1>1, <1>2, <1>4, <1>6, <3>1, <3>3
    <3>4. CASE n \in DOMAIN nodes /\ n # id
      <4>1. /\ Len(n) > 0
            /\ nodes[n].status = "pending" => nodes[n].children = <<>>
            /\ \A child \in ChildIds(n) : Under(child, n)
        BY <3>4 DEF NodesInv
      <4>2. nodes'[n] = nodes[n] /\ ChildIds(n)' = ChildIds(n)
        BY <1>4, <1>6, <3>4
      <4> QED BY <3>1, <4>1, <4>2
    <3> QED BY <1>4, <3>2, <3>3, <3>4
  <2> QED BY <1>1, <1>4, <2>2, <2>3 DEF NodesInv
<1>11. ListedOnce'
  <2>1. UNION {ChildIds(n)' : n \in DOMAIN nodes'} = DOMAIN nodes' \ {Root}
    <3>1. ASSUME NEW n \in DOMAIN nodes', NEW child \in ChildIds(n)'
          PROVE  child \in DOMAIN nodes' \ {Root}
      <4>1. CASE n \in added
        BY <1>6, <4>1
      <4>2. CASE n = id
        <5>1. child \in added
          BY <1>6, <4>2
        <5> QED BY <1>4, <1>9, <5>1
      <4>3. CASE n \in DOMAIN nodes /\ n # id
        <5>1. child \in ChildIds(n)
          BY <1>6, <4>3
        <5> QED BY <1>4, <1>8, <4>3, <5>1
      <4> QED BY <1>4, <4>1, <4>2, <4>3
    <3>2. ASSUME NEW child \in DOMAIN nodes' \ {Root}
          PROVE  \E n \in DOMAIN nodes' : child \in ChildIds(n)'
      <4>1. CASE child \in added
        BY <1>4, <1>6, <4>1
      <4>2. CASE child \in DOMAIN nodes
        <5>1. PICK n \in DOMAIN nodes : child \in ChildIds(n)
          BY <1>7, <3>2, <4>2
        <5>2. n # id
          BY <1>6, <5>1
        <5> QED BY <1>4, <1>6, <5>1, <5>2
      <4> QED BY <1>4, <4>1, <4>2
    <3> QED BY <3>1, <3>2
  <2>2. ASSUME NEW n \in DOMAIN nodes'
        PROVE  Cardinality(ChildIds(n)') = Len(nodes'[n].children)
    <3>1. CASE n \in added
      <4>1. Cardinality({}) = 0 /\ Len(<<>>) = 0
        BY FS_EmptySet, EmptySeq
      <4> QED BY <1>5, <1>6, <3>1, <4>1
    <3>2. CASE n = id
      <4>1. Len(ListedIds(id, children)) = Len(children)
        <5>1. DOMAIN children = 1 .. Len(children)
          BY ValidLists
        <5> QED BY <1>3, <5>1 DEF ListedIds
      <4> QED BY <1>2, <1>4, <1>6, <3>2, <4>1
    <3>3. CASE n \in DOMAIN nodes /\ n # id
      <4>1. Cardinality(ChildIds(n)) = Len(nodes[n].children)
        BY <3>3 DEF AcceptedChildrenAreSound, ListedOnce
      <4> QED BY <1>4, <1>6, <3>3, <4>1
    <3> QED BY <1>4, <3>1, <3>2, <3>3
  <2>3. ASSUME NEW n \in DOMAIN nodes', NEW other \in DOMAIN nodes', n # other
        PROVE  ChildIds(n)' \cap ChildIds(other)' = {}
    <3>1. ASSUME NEW m \in DOMAIN nodes' PROVE m # id => ChildIds(m)' \subseteq DOMAIN nodes
      BY <1>4, <1>6, <1>8, <3>1
    <3>2. CASE n = id
      BY <1>4, <1>6, <2>3, <3>1, <3>2
    <3>3. CASE other = id
      BY <1>4, <1>6, <2>3, <3>1, <3>3
    <3>4. CASE n \in added \/ other \in added
      BY <1>6, <3>4
    <3>5. CASE n \in DOMAIN nodes \ {id} /\ other \in DOMAIN nodes \ {id}
      <4>1. ChildIds(n) \cap ChildIds(other) = {}
        BY <2>3, <3>5 DEF AcceptedChildrenAreSound, ListedOnce
      <4> QED BY <1>6, <3>5, <4>1
    <3> QED BY <1>4, <3>2, <3>3, <3>4, <3>5
  <2> QED BY <2>1, <2>2, <2>3 DEF ListedOnce
<1>12. WithinBudgets'
  <2>1. case.max_nodes \in Nat /\ case.max_depth \in Nat /\ nodes[id].depth \in Nat
    BY <1>1, DecompositionAssumption DEF NodesInv, NodeType
  <2>2. Cardinality(DOMAIN nodes') <= case.max_nodes
    <3>1. /\ Cardinality(DOMAIN nodes) \in Nat
          /\ Cardinality(DOMAIN nodes \cup added)
               = Cardinality(DOMAIN nodes) + Cardinality(added) - Cardinality(DOMAIN nodes \cap added)
      BY <1>2, <1>9, FS_Union, FS_CardinalityType
    <3>2. Cardinality(DOMAIN nodes \cap added) = 0
      <4>1. DOMAIN nodes \cap added = {}
        BY <1>4
      <4> QED BY <4>1, FS_EmptySet
    <3>3. PICK c \in Nat, l \in Nat : c = Cardinality(DOMAIN nodes) /\ l = Len(children)
      BY <1>3, <3>1
    <3>4. Cardinality(DOMAIN nodes') = c + l
      BY ONLY <1>2, <1>4, <3>1, <3>2, <3>3
    <3>5. ~ (c + l > case.max_nodes)
      BY <3>3
    <3> QED BY ONLY <2>1, <3>3, <3>4, <3>5
  <2>3. ASSUME NEW n \in DOMAIN nodes', NEW child \in ChildIds(n)'
        PROVE  nodes'[child].depth = nodes'[n].depth + 1 /\ nodes'[child].depth <= case.max_depth
    <3>1. CASE n \in added
      BY <1>6, <3>1
    <3>2. CASE n = id
      <4>1. nodes'[child].depth = nodes[id].depth + 1
        BY <1>5, <1>6, <3>2
      <4>2. PICK d \in Nat, m \in Nat : d = nodes[id].depth /\ m = case.max_depth
        BY <2>1
      <4>3. ~ (d >= m)
        BY <4>2
      <4>4. d + 1 <= m
        BY <4>2, <4>3
      <4> QED BY <1>4, <3>2, <4>1, <4>2, <4>4
    <3>3. CASE n \in DOMAIN nodes /\ n # id
      <4>1. child \in ChildIds(n) /\ child \in DOMAIN nodes
        BY <1>6, <1>8, <3>3
      <4>2. nodes[child].depth = nodes[n].depth + 1 /\ nodes[child].depth <= case.max_depth
        BY <3>3, <4>1 DEF AcceptedChildrenAreSound, WithinBudgets
      <4>3. nodes'[child].depth = nodes[child].depth /\ nodes'[n] = nodes[n]
        BY <1>4, <3>3, <4>1
      <4> QED BY <4>2, <4>3
    <3> QED BY <1>4, <3>1, <3>2, <3>3
  <2> QED BY <1>4, <2>2, <2>3 DEF WithinBudgets
<1>13. SiblingsInOrder'
  <2>1. ASSUME NEW n \in DOMAIN nodes'
        PROVE  /\ \A child \in ChildIds(n)' : nodes'[child].dependencies \subseteq ChildIds(n)'
               /\ \A group \in SUBSET ChildIds(n)' : group # {} =>
                     \E first \in group : nodes'[first].dependencies \cap group = {}
    <3>1. CASE n \in added
      BY <1>6, <3>1
    <3>2. CASE n = id
      <4>1. /\ \A child \in added : nodes'[child].dependencies \subseteq added
            /\ \A group \in SUBSET added : group # {} =>
                  \E first \in group : nodes'[first].dependencies \cap group = {}
        BY <1>1, NewSiblingsInOrder DEF added
      <4> QED BY <1>6, <3>2, <4>1
    <3>3. CASE n \in DOMAIN nodes /\ n # id
      <4>1. /\ \A child \in ChildIds(n) : nodes[child].dependencies \subseteq ChildIds(n)
            /\ \A group \in SUBSET ChildIds(n) : group # {} =>
                  \E first \in group : nodes[first].dependencies \cap group = {}
        BY <3>3 DEF AcceptedChildrenAreSound, SiblingsInOrder
      <4>2. \A child \in ChildIds(n) : nodes'[child].dependencies = nodes[child].dependencies
        BY <1>4, <1>8, <3>3
      <4>3. ChildIds(n)' = ChildIds(n)
        BY <1>6, <3>3
      <4>4. ASSUME NEW group \in SUBSET ChildIds(n), group # {}
            PROVE  \E first \in group : nodes'[first].dependencies \cap group = {}
        <5>1. PICK first \in group : nodes[first].dependencies \cap group = {}
          BY <4>1, <4>4
        <5>2. nodes'[first].dependencies = nodes[first].dependencies
          BY <4>2
        <5> QED BY <5>1, <5>2
      <4>5. \A child \in ChildIds(n) : nodes'[child].dependencies \subseteq ChildIds(n)
        BY ONLY <4>1, <4>2
      <4> QED BY <4>3, <4>4, <4>5
    <3> QED BY <1>4, <3>1, <3>2, <3>3
  <2> QED BY <2>1 DEF SiblingsInOrder
<1> QED BY <1>10, <1>11, <1>12, <1>13 DEF AcceptedChildrenAreSound

---------------------------------------------------------------------------
\* what a decision that the validator let through makes of the node it is
\* about, whatever else the graph holds: the context and the decision tell
Outcome(context, decision) ==
  IF decision.is_atomic THEN "ready"
  ELSE IF \/ context.depth >= context.budget.max_depth
          \/ context.node_count + Len(decision.children) > context.budget.max_nodes
  THEN "blocked"
  ELSE "waiting"

Listed(id, context, decision) ==
  IF Outcome(context, decision) = "waiting" THEN ListedIds(id, decision.children) ELSE <<>>

\* the step gives the node what the decision makes of it, and leaves the others
Decided(id, decision) ==
  /\ id \in DOMAIN nodes'
  /\ nodes'[id].status # "pending"
  /\ nodes'[id].was = Outcome(Context(id), decision)
  /\ nodes'[id].children = Listed(id, Context(id), decision)
  /\ \A n \in DOMAIN nodes : n \in DOMAIN nodes' /\ (n # id => nodes'[n] = nodes[n])
  /\ \A n \in DOMAIN nodes' : n \in DOMAIN nodes \/ nodes'[n].was = "unassessed"

LEMMA DecisionApplied ==
  ASSUME NodesInv, AcceptedChildrenAreSound, NEW id \in DOMAIN nodes,
         nodes[id].status = "pending", case' = case,
         NEW decision \in Decisions, Apply(id, decision)
  PROVE  NodesInv' /\ AcceptedChildrenAreSound' /\ Decided(id, decision)
<1>1. PICK context : context = Context(id)
  OBVIOUS
<1>2. /\ context.depth = nodes[id].depth
      /\ context.budget.max_depth = case.max_depth /\ context.budget.max_nodes = case.max_nodes
      /\ context.node_count = Cardinality(DOMAIN nodes)
  BY <1>1 DEF Context
<1>3. nodes[id].children = <<>>
  BY DEF NodesInv
\* the decision changes the status only
<1>4. ASSUME NEW status \in {"ready", "blocked"}, Settled(id, status),
             Outcome(context, decision) = status
      PROVE  NodesInv' /\ AcceptedChildrenAreSound' /\ Decided(id, decision)
  <2>1. Relabelled(id, status, status)
    BY <1>4, StatusStepsRelabel
  <2>2. status \in {"ready", "completed", "failed", "blocked"} /\ status # "pending"
        /\ status \in {"unassessed", "ready", "waiting", "failed", "blocked", "refused"}
        /\ status # "waiting"
    OBVIOUS
  <2>3. /\ KeepsTree /\ nodes'[id].status = status /\ nodes'[id].was = status
        /\ nodes'[id].children = <<>>
    BY <1>3, <2>1, <2>2, RelabellingKeepsTree
  <2>4. NodesInv' /\ AcceptedChildrenAreSound'
    BY <2>3, SameTreeIsSound
  <2>5. Listed(id, context, decision) = <<>>
    BY <1>4, <2>2 DEF Listed
  <2> QED BY <1>1, <1>4, <2>1, <2>2, <2>3, <2>4, <2>5 DEF Decided, Relabelled
<1>5. CASE decision = Atomic
  <2>1. decision.is_atomic
    BY <1>5 DEF Atomic
  <2> QED BY <1>4, <2>1 DEF Apply, Outcome
<1>6. CASE decision # Atomic
  <2>1. PICK children \in Proposals : ValidChildren(children) /\ decision = Into(children)
    BY <1>6 DEF Decisions
  <2>2. ~ decision.is_atomic /\ decision.children = children
    BY <2>1 DEF Into
  <2>3. CASE \/ nodes[id].depth >= case.max_depth
             \/ Cardinality(DOMAIN nodes) + Len(children) > case.max_nodes
    <3>1. Settled(id, "blocked")
      BY <2>2, <2>3 DEF Apply
    <3>2. Outcome(context, decision) = "blocked"
      BY <1>2, <2>2, <2>3 DEF Outcome
    <3> QED BY <1>4, <3>1, <3>2
  <2>4. CASE ~ (\/ nodes[id].depth >= case.max_depth
                \/ Cardinality(DOMAIN nodes) + Len(children) > case.max_nodes)
    <3>1. WellFormed(children)
      BY <2>1, ValidLists
    <3>2. nodes' = WithChildren(id, children)
      BY <2>2, <2>4, <3>1 DEF Apply
    <3>3. Splits(id, children)
      BY <2>1, <3>2, ChildrenSplit
    <3>4. NodesInv' /\ AcceptedChildrenAreSound'
      BY <2>1, <2>4, <3>3, SplitIsSound
    <3>5. Outcome(context, decision) = "waiting"
      BY <1>2, <2>2, <2>4 DEF Outcome
    <3>6. Listed(id, context, decision) = ListedIds(id, children)
      BY <2>2, <3>5 DEF Listed
    <3>7. /\ DOMAIN nodes' = DOMAIN nodes \cup NewIds(id, children)
          /\ \A n \in DOMAIN nodes : n # id => nodes'[n] = nodes[n]
          /\ nodes'[id].status = "waiting" /\ nodes'[id].was = "waiting"
          /\ nodes'[id].children = ListedIds(id, children)
      BY <3>3 DEF Splits
    <3>8. \A n \in NewIds(id, children) : nodes'[n].was = "unassessed"
      <4>1. id \in Ids /\ Len(id) > 0
        BY DEF NodesInv
      <4>2. NewIds(id, children) = {id \o key : key \in KeysOf(children)}
        BY <2>1, <4>1, OneIdForEachKey
      <4>3. \A key \in KeysOf(children) : nodes'[id \o key].was = "unassessed"
        BY <3>3 DEF Splits
      <4> QED BY ONLY <4>2, <4>3
    <3> QED BY ONLY <1>1, <3>4, <3>5, <3>6, <3>7, <3>8, id \in DOMAIN nodes DEF Decided
  <2> QED BY <2>3, <2>4
<1> QED BY <1>5, <1>6

LEMMA AssessmentsAreDecisions ==
  ASSUME NEW first, NEW second, Assessed(first, second) # Raised
  PROVE  Assessed(first, second) \in Decisions
<1>1. ASSUME NEW answer, Valid(answer) PROVE answer \in Decisions
  <2>1. CASE answer = Atomic
    BY <2>1 DEF Decisions
  <2>2. CASE answer # Atomic
    <3>1. PICK c \in Proposals : answer = Into(c) /\ ValidChildren(answer.children)
      BY <1>1, <2>2 DEF Valid
    <3>2. answer.children = c
      BY <3>1 DEF Into
    <3> QED BY <3>1, <3>2 DEF Decisions
  <2> QED BY <2>1, <2>2
<1> QED BY <1>1 DEF Assessed

---------------------------------------------------------------------------
\* the trace and what the graphs owe to it

\* the entry about the node is why it is what it is
Explains(id, node) ==
  /\ node.was = Outcome(trace[id].context, trace[id].decision)
  /\ node.children = Listed(id, trace[id].context, trace[id].decision)

RecordedInv ==
  mode = "live" =>
    \A id \in DOMAIN trace :
      /\ id \in DOMAIN nodes
      /\ nodes[id].status # "pending"
      /\ Explains(id, nodes[id])

ReplayedInv ==
  mode = "replay" =>
    /\ \A id \in DOMAIN trace : id \in DOMAIN reference /\ Explains(id, reference[id])
    /\ \A id \in DOMAIN nodes : nodes[id].was \notin {"unassessed", "refused"} =>
          id \in DOMAIN trace /\ Explains(id, nodes[id])

DecompositionInv == GraphInv /\ RecordedInv /\ ReplayedInv

LEMMA DecompositionInitInv == DecompositionInit => DecompositionInv
<1> SUFFICES ASSUME DecompositionInit PROVE DecompositionInv
  OBVIOUS
<1>1. NodesInv /\ AcceptedChildrenAreSound
  BY FreshGraphIsSound DEF DecompositionInit
<1>2. DOMAIN trace = {} /\ mode = "live"
  BY DEF DecompositionInit, Empty
<1> QED BY <1>1, <1>2 DEF DecompositionInv, GraphInv, DecisionsInv, RecordedInv, ReplayedInv

\* a step that keeps the tree, the trace and what the assessments said, except
\* of a node it refuses, which no entry is about in a live run
LEMMA RelabellingKeepsInv ==
  ASSUME DecompositionInv, NEW id \in DOMAIN nodes,
         NEW status \in {"ready", "completed", "failed", "blocked"},
         NEW was, Relabelled(id, status, was),
         UNCHANGED <<mode, trace, reference>>,
         was = nodes[id].was \/ (was = "refused" /\ nodes[id].status = "pending")
  PROVE  DecompositionInv'
<1>1. NodesInv /\ AcceptedChildrenAreSound /\ DecisionsInv
  BY DEF DecompositionInv, GraphInv
<1>2. was \in {"unassessed", "ready", "waiting", "failed", "blocked", "refused"}
  <2>1. nodes[id] \in NodeType
    BY <1>1 DEF NodesInv
  <2> QED BY <2>1 DEF NodeType
<1>3. /\ KeepsTree /\ nodes'[id].status = status /\ nodes'[id].was = was
      /\ nodes'[id].children = nodes[id].children
  BY <1>1, <1>2, RelabellingKeepsTree
<1>4. NodesInv' /\ AcceptedChildrenAreSound'
  BY <1>1, <1>3, SameTreeIsSound
<1>5. /\ DOMAIN nodes' = DOMAIN nodes /\ trace' = trace /\ mode' = mode /\ reference' = reference
      /\ \A n \in DOMAIN nodes : n # id => nodes'[n] = nodes[n]
      /\ status # "pending"
  BY DEF Relabelled
<1>6. DecisionsInv'
  BY <1>1, <1>5 DEF DecisionsInv
<1>7. RecordedInv'
  <2> SUFFICES ASSUME mode = "live", NEW n \in DOMAIN trace
               PROVE  /\ n \in DOMAIN nodes' /\ nodes'[n].status # "pending"
                      /\ nodes'[n].was = Outcome(trace[n].context, trace[n].decision)
                      /\ nodes'[n].children = Listed(n, trace[n].context, trace[n].decision)
    BY <1>5 DEF RecordedInv, Explains
  <2>1. /\ n \in DOMAIN nodes /\ nodes[n].status # "pending"
        /\ nodes[n].was = Outcome(trace[n].context, trace[n].decision)
        /\ nodes[n].children = Listed(n, trace[n].context, trace[n].decision)
    BY DEF DecompositionInv, RecordedInv, Explains
  <2> QED BY ONLY <1>3, <1>5, <2>1, was = nodes[id].was \/ (was = "refused" /\ nodes[id].status = "pending")
<1>8. ReplayedInv'
  <2> SUFFICES ASSUME mode = "replay" PROVE ReplayedInv'
    BY <1>5 DEF ReplayedInv
  <2>1. \A n \in DOMAIN trace : n \in DOMAIN reference /\ Explains(n, reference[n])
    BY DEF DecompositionInv, ReplayedInv
  <2>2. ASSUME NEW n \in DOMAIN nodes, nodes'[n].was \notin {"unassessed", "refused"}
        PROVE  /\ n \in DOMAIN trace
               /\ nodes'[n].was = Outcome(trace[n].context, trace[n].decision)
               /\ nodes'[n].children = Listed(n, trace[n].context, trace[n].decision)
    <3>1. nodes'[n].was = nodes[n].was /\ nodes'[n].children = nodes[n].children
      BY ONLY <1>3, <1>5, <2>2, was = nodes[id].was \/ (was = "refused" /\ nodes[id].status = "pending")
    <3> QED BY <2>2, <3>1 DEF DecompositionInv, ReplayedInv, Explains
  <2> QED BY ONLY <1>5, <2>1, <2>2 DEF ReplayedInv, Explains
<1> QED BY <1>4, <1>6, <1>7, <1>8 DEF DecompositionInv, GraphInv

LEMMA AssessLiveKeepsInv ==
  ASSUME DecompositionInv, NEW id \in DOMAIN nodes, NEW first, NEW second,
         AssessLive(id, first, second)
  PROVE  DecompositionInv'
<1> DEFINE decision == Assessed(first, second)
<1>1. NodesInv /\ AcceptedChildrenAreSound /\ DecisionsInv /\ RecordedInv
  BY DEF DecompositionInv, GraphInv
<1>2. /\ mode = "live" /\ nodes[id].status = "pending"
      /\ mode' = mode /\ case' = case /\ reference' = reference
  BY DEF AssessLive
<1>3. CASE decision = Raised \/ id \in DOMAIN trace
  <2>1. RefuseNode(id) /\ trace' = trace
    BY <1>3 DEF AssessLive
  <2>2. Relabelled(id, "failed", "refused")
    BY <1>1, <1>2, <2>1, StatusStepsRelabel
  <2> QED BY <1>2, <2>1, <2>2, RelabellingKeepsInv
<1>4. CASE ~ (decision = Raised \/ id \in DOMAIN trace)
  <2> DEFINE entry == [context |-> Context(id), decision |-> decision]
  <2>1. /\ Apply(id, decision)
        /\ trace' = [node \in DOMAIN trace \cup {id} |-> IF node = id THEN entry ELSE trace[node]]
    BY <1>4 DEF AssessLive
  <2>2. decision \in Decisions
    BY <1>4, AssessmentsAreDecisions
  <2> HIDE DEF decision
  <2>3. NodesInv' /\ AcceptedChildrenAreSound' /\ Decided(id, decision)
    BY <1>1, <1>2, <2>1, <2>2, DecisionApplied
  <2>4. entry.context = Context(id) /\ entry.decision = decision
    OBVIOUS
  <2> HIDE DEF entry
  <2>5. /\ DOMAIN trace' = DOMAIN trace \cup {id}
        /\ trace'[id] = entry
        /\ \A n \in DOMAIN trace : n # id => trace'[n] = trace[n]
    BY <2>1
  <2>6. DecisionsInv'
    BY <1>1, <2>2, <2>4, <2>5 DEF DecisionsInv
  <2>7. RecordedInv'
    <3> SUFFICES ASSUME NEW n \in DOMAIN trace'
                 PROVE  /\ n \in DOMAIN nodes' /\ nodes'[n].status # "pending"
                        /\ nodes'[n].was = Outcome(trace'[n].context, trace'[n].decision)
                        /\ nodes'[n].children = Listed(n, trace'[n].context, trace'[n].decision)
      BY DEF RecordedInv, Explains
    <3>1. CASE n = id
      BY ONLY <2>3, <2>4, <2>5, <3>1 DEF Decided
    <3>2. CASE n # id
      <4>1. /\ n \in DOMAIN trace /\ n \in DOMAIN nodes /\ nodes[n].status # "pending"
            /\ nodes[n].was = Outcome(trace[n].context, trace[n].decision)
            /\ nodes[n].children = Listed(n, trace[n].context, trace[n].decision)
        BY <1>1, <1>2, <2>5, <3>2 DEF RecordedInv, Explains
      <4>2. n \in DOMAIN nodes' /\ nodes'[n] = nodes[n]
        BY <2>3, <3>2, <4>1 DEF Decided
      <4>3. trace'[n] = trace[n]
        BY <2>5, <3>2, <4>1
      <4> QED BY ONLY <4>1, <4>2, <4>3
    <3> QED BY <3>1, <3>2
  <2>8. ReplayedInv'
    BY <1>2 DEF ReplayedInv
  <2> QED BY <2>3, <2>6, <2>7, <2>8 DEF DecompositionInv, GraphInv
<1> QED BY <1>3, <1>4

LEMMA AssessReplayedKeepsInv ==
  ASSUME DecompositionInv, NEW id \in DOMAIN nodes, AssessReplayed(id)
  PROVE  DecompositionInv'
<1>1. NodesInv /\ AcceptedChildrenAreSound /\ DecisionsInv /\ ReplayedInv
  BY DEF DecompositionInv, GraphInv
<1>2. /\ mode = "replay" /\ nodes[id].status = "pending"
      /\ mode' = mode /\ case' = case /\ trace' = trace /\ reference' = reference
  BY DEF AssessReplayed
<1>3. CASE ~ Replayable(id)
  <2>1. RefuseNode(id)
    BY <1>3 DEF AssessReplayed
  <2>2. Relabelled(id, "failed", "refused")
    BY <1>1, <1>2, <2>1, StatusStepsRelabel
  <2> QED BY <1>2, <2>2, RelabellingKeepsInv
<1>4. CASE Replayable(id)
  <2>1. id \in DOMAIN trace /\ trace[id].context = Context(id)
    BY <1>4 DEF Replayable
  <2>2. PICK decision \in Decisions : decision = trace[id].decision
    BY <1>1, <2>1 DEF DecisionsInv
  <2>3. Apply(id, decision)
    BY <1>4, <2>2 DEF AssessReplayed
  <2>4. NodesInv' /\ AcceptedChildrenAreSound' /\ Decided(id, decision)
    BY <1>1, <1>2, <2>3, DecisionApplied
  <2>5. DecisionsInv'
    BY <1>1, <1>2 DEF DecisionsInv
  <2>6. RecordedInv'
    BY <1>2 DEF RecordedInv
  <2>7. ReplayedInv'
    <3>1. \A n \in DOMAIN trace : n \in DOMAIN reference /\ Explains(n, reference[n])
      BY <1>1, <1>2 DEF ReplayedInv
    <3>2. ASSUME NEW n \in DOMAIN nodes', nodes'[n].was \notin {"unassessed", "refused"}
          PROVE  /\ n \in DOMAIN trace
                 /\ nodes'[n].was = Outcome(trace[n].context, trace[n].decision)
                 /\ nodes'[n].children = Listed(n, trace[n].context, trace[n].decision)
      <4>1. CASE n = id
        BY ONLY <2>1, <2>2, <2>4, <4>1 DEF Decided
      <4>2. CASE n # id
        <5>1. n \in DOMAIN nodes /\ nodes'[n] = nodes[n]
          BY <2>4, <3>2, <4>2 DEF Decided
        <5> QED BY <1>1, <1>2, <3>2, <5>1 DEF ReplayedInv, Explains
      <4> QED BY <4>1, <4>2
    <3> QED BY ONLY <1>2, <3>1, <3>2 DEF ReplayedInv, Explains
  <2> QED BY <2>4, <2>5, <2>6, <2>7 DEF DecompositionInv, GraphInv
<1> QED BY <1>3, <1>4

LEMMA OtherStepsKeepInv ==
  ASSUME DecompositionInv
  PROVE  /\ \A id \in DOMAIN nodes : \A status \in {"completed", "failed", "ready"} :
              Execute(id, status) => DecompositionInv'
         /\ \A id \in DOMAIN nodes : Propagate(id) => DecompositionInv'
         /\ Crash => DecompositionInv'
         /\ \A c \in Cases : BeginReplay(c) => DecompositionInv'
<1>1. NodesInv /\ AcceptedChildrenAreSound /\ DecisionsInv
  BY DEF DecompositionInv, GraphInv
<1>2. ASSUME NEW id \in DOMAIN nodes, NEW status \in {"ready", "completed", "failed", "blocked"},
             nodes' = [nodes EXCEPT ![id].status = status],
             UNCHANGED <<mode, case, trace, reference>>
      PROVE  DecompositionInv'
  <2>1. Relabelled(id, status, nodes[id].was)
    BY <1>1, <1>2, StatusStepsRelabel
  <2>2. UNCHANGED <<mode, trace, reference>>
    BY <1>2
  <2> QED BY <2>1, <2>2, RelabellingKeepsInv
<1>3. ASSUME NEW id \in DOMAIN nodes, NEW status \in {"completed", "failed", "ready"},
             Execute(id, status)
      PROVE  DecompositionInv'
  <2>1. PICK s \in {"ready", "completed", "failed", "blocked"} :
          nodes' = [nodes EXCEPT ![id].status = s]
    BY <1>3 DEF Execute
  <2>2. UNCHANGED <<mode, case, trace, reference>>
    BY <1>3 DEF Execute
  <2> QED BY <1>2, <2>1, <2>2
<1>4. ASSUME NEW id \in DOMAIN nodes, Propagate(id) PROVE DecompositionInv'
  <2>1. PICK s \in {"ready", "completed", "failed", "blocked"} :
          nodes' = [nodes EXCEPT ![id].status = s]
    BY <1>4 DEF Propagate
  <2>2. UNCHANGED <<mode, case, trace, reference>>
    BY <1>4 DEF Propagate
  <2> QED BY <1>2, <2>1, <2>2
<1>5. ASSUME Crash PROVE DecompositionInv'
  <2>1. /\ mode = "live" /\ mode' = mode /\ case' = case /\ nodes' = nodes
        /\ reference' = reference /\ DOMAIN trace' = {}
    BY <1>5 DEF Crash, Empty
  <2>2. NodesInv' /\ AcceptedChildrenAreSound'
    <3>1. KeepsTree
      BY <1>1, <2>1 DEF KeepsTree, NodesInv
    <3> QED BY <1>1, <3>1, SameTreeIsSound
  <2> QED BY <2>1, <2>2 DEF DecompositionInv, GraphInv, DecisionsInv, RecordedInv, ReplayedInv
<1>6. ASSUME NEW c \in Cases, BeginReplay(c) PROVE DecompositionInv'
  <2>1. /\ mode = "live" /\ mode' = "replay" /\ case' = c /\ nodes' = Fresh(c)
        /\ reference' = nodes /\ trace' = trace
    BY <1>6 DEF BeginReplay
  <2>2. (case \in Cases /\ nodes = Fresh(case) => NodesInv /\ AcceptedChildrenAreSound)'
    BY FreshGraphIsSound, PTL
  <2>3. NodesInv' /\ AcceptedChildrenAreSound'
    BY ONLY <2>1, <2>2, c \in Cases DEF Fresh
  <2>4. DecisionsInv'
    BY <1>1, <2>1 DEF DecisionsInv
  <2>5. \A n \in DOMAIN trace : n \in DOMAIN nodes /\ Explains(n, nodes[n])
    BY <2>1 DEF DecompositionInv, RecordedInv
  <2>6. \A n \in DOMAIN nodes' : nodes'[n].was = "unassessed"
    <3>1. nodes' = [n \in {Root} |-> Node(c.goal, {}, 0)]
      BY <2>1 DEF Fresh
    <3>2. Node(c.goal, {}, 0).was = "unassessed"
      BY DEF Node
    <3> QED BY ONLY <3>1, <3>2
  <2>7. RecordedInv' /\ ReplayedInv'
    BY <2>1, <2>5, <2>6 DEF RecordedInv, ReplayedInv, Explains
  <2> QED BY <2>3, <2>4, <2>7 DEF DecompositionInv, GraphInv
<1> QED BY <1>3, <1>4, <1>5, <1>6

(* Under any sequence of decisions, crashes of the live program and        *)
(* replays, the graph is a tree of accepted lists and each entry of the    *)
(* trace accounts for the node it is about (_assess_node, add_child_tasks  *)
(* and the recorder of tasks/replay.py).                                   *)
THEOREM DecompositionInvariance == DecompositionSpec => []DecompositionInv
<1>1. DecompositionInit => DecompositionInv
  BY DecompositionInitInv
<1>2. DecompositionInv /\ [DecompositionNext]_decompositionVars => DecompositionInv'
  <2> SUFFICES ASSUME DecompositionInv, [DecompositionNext]_decompositionVars
               PROVE  DecompositionInv'
    OBVIOUS
  <2>1. ASSUME NEW id \in DOMAIN nodes, NEW first \in ModelAnswers,
               NEW second \in ModelAnswers, AssessLive(id, first, second)
        PROVE  DecompositionInv'
    BY <2>1, AssessLiveKeepsInv
  <2>2. ASSUME NEW id \in DOMAIN nodes, AssessReplayed(id) PROVE DecompositionInv'
    BY <2>2, AssessReplayedKeepsInv
  <2>3. ASSUME NEW id \in DOMAIN nodes, NEW status \in {"completed", "failed", "ready"},
               Execute(id, status)
        PROVE  DecompositionInv'
    BY <2>3, OtherStepsKeepInv
  <2>4. ASSUME NEW id \in DOMAIN nodes, Propagate(id) PROVE DecompositionInv'
    BY <2>4, OtherStepsKeepInv
  <2>5. CASE Crash
    BY <2>5, OtherStepsKeepInv
  <2>6. ASSUME NEW c \in Cases, BeginReplay(c) PROVE DecompositionInv'
    BY <2>6, OtherStepsKeepInv
  <2>7. CASE UNCHANGED decompositionVars
    <3>1. /\ mode' = mode /\ case' = case /\ nodes' = nodes
          /\ trace' = trace /\ reference' = reference
      BY <2>7 DEF decompositionVars
    <3>2. NodesInv /\ AcceptedChildrenAreSound /\ DecisionsInv /\ RecordedInv /\ ReplayedInv
      BY DEF DecompositionInv, GraphInv
    <3>3. KeepsTree
      BY <3>1, <3>2 DEF KeepsTree, NodesInv
    <3>4. NodesInv' /\ AcceptedChildrenAreSound'
      BY <3>2, <3>3, SameTreeIsSound
    <3>5. DecisionsInv'
      BY <3>1, <3>2 DEF DecisionsInv
    <3>6. RecordedInv'
      BY <3>1, <3>2 DEF RecordedInv, Explains
    <3>7. ReplayedInv'
      BY <3>1, <3>2 DEF ReplayedInv, Explains
    <3> QED BY <3>4, <3>5, <3>6, <3>7 DEF DecompositionInv, GraphInv
  <2> QED BY <2>1, <2>2, <2>3, <2>4, <2>5, <2>6, <2>7 DEF DecompositionNext
<1> QED BY <1>1, <1>2, PTL DEF DecompositionSpec

(* Whatever the model answers, the children it is allowed to add make a    *)
(* tree within the budgets, in which some sibling of any group can go      *)
(* first: two lists never share an identifier, and the depth-first search  *)
(* of the validation lets no cycle through (decomposition_graph.py:26-76). *)
THEOREM ChildrenAreSound == DecompositionSpec => []AcceptedChildrenAreSound
<1>1. DecompositionInv => AcceptedChildrenAreSound
  BY DEF DecompositionInv, GraphInv
<1> QED BY <1>1, DecompositionInvariance, PTL

(* A replay, of whatever case, gives a node that it does not refuse the    *)
(* status and the children of the live run: the digest of the context it   *)
(* checks covers all that a decision's effect depends on                   *)
(* (replay.py:117-126, 275-292).                                           *)
THEOREM ReplaysReproduce == DecompositionSpec => []ReplayReproduces
<1>1. DecompositionInv => ReplayReproduces
  <2> SUFFICES ASSUME ReplayedInv, mode = "replay", NEW id \in DOMAIN nodes,
                      nodes[id].was \notin {"unassessed", "refused"}
               PROVE  /\ id \in DOMAIN reference
                      /\ nodes[id].was = reference[id].was
                      /\ nodes[id].children = reference[id].children
    BY DEF DecompositionInv, ReplayReproduces
  <2>1. id \in DOMAIN trace /\ Explains(id, nodes[id])
    BY DEF ReplayedInv
  <2>2. id \in DOMAIN reference /\ Explains(id, reference[id])
    BY <2>1 DEF ReplayedInv
  <2> QED BY <2>1, <2>2 DEF Explains
<1> QED BY <1>1, DecompositionInvariance, PTL

====
