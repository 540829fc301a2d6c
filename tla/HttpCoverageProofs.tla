-------------------------- MODULE HttpCoverageProofs --------------------------
(***************************************************************************)
(* For every specification, every choice of exclusions and every log: an   *)
(* event recorded under a declared route is never evidence for another     *)
(* operation and never dropped; no event lowers a score; the scores say    *)
(* what the specification says; the two runtimes agree on plain routes;    *)
(* the report says what the log says, and the summary why the run failed.  *)
(***************************************************************************)
EXTENDS HttpSummary, FiniteSetTheorems, WellFoundedInduction, TLAPS

-----------------------------------------------------------------------------
(* Sums                                                                    *)
(* SumFunction folds over a finite set by picking its elements one by one; *)
(* what a fold computes is shown by induction on sets, stated for sets of  *)
(* sets rather than for predicates.                                        *)

\* A set of numbers that is not empty has a least one.
LEMMA LeastOfNumbers ==
    ASSUME NEW S \in SUBSET Nat, S # {}
    PROVE  \E n \in S : \A m \in S : n <= m
<1>1. IsWellFoundedOn(OpToRel(<, Nat), Nat)
  BY NatLessThanWellFounded
<1>2. PICK n \in S : \A m \in S : <<m, n>> \notin OpToRel(<, Nat)
  BY <1>1, WFMin, Zenon
<1>3. \A m \in S : ~(m < n)
  BY <1>2 DEF OpToRel
<1> QED
  BY <1>3

\* Induction on the numbers.
LEMMA NumbersByStep ==
    ASSUME NEW G \in SUBSET Nat, 0 \in G, \A n \in G : n + 1 \in G
    PROVE  G = Nat
<1> SUFFICES ASSUME Nat \ G # {} PROVE FALSE
  OBVIOUS
<1>1. PICK n \in Nat \ G : \A m \in Nat \ G : n <= m
  BY LeastOfNumbers
<1>2. n # 0
  OBVIOUS
<1>3. n - 1 \in Nat /\ n - 1 + 1 = n /\ ~(n <= n - 1)
  BY <1>2
<1>4. n - 1 \in G
  BY <1>1, <1>3
<1> QED
  BY <1>3, <1>4

\* The element that a fold takes out of a set next.
Pick(s) == CHOOSE x \in s : TRUE

LEMMA PickTakesOne ==
    ASSUME NEW s, IsFiniteSet(s), s # {}
    PROVE  /\ Pick(s) \in s
           /\ IsFiniteSet(s \ {Pick(s)})
           /\ Cardinality(s) \in Nat /\ Cardinality(s \ {Pick(s)}) \in Nat
           /\ Cardinality(s) = Cardinality(s \ {Pick(s)}) + 1
<1>1. Pick(s) \in s
  BY DEF Pick
<1>2. /\ IsFiniteSet(s \ {Pick(s)})
      /\ Cardinality(s \ {Pick(s)}) = Cardinality(s) - 1
  BY <1>1, FS_RemoveElement
<1>3. Cardinality(s) \in Nat /\ Cardinality(s \ {Pick(s)}) \in Nat
  BY <1>2, FS_CardinalityType
<1> QED
  BY <1>1, <1>2, <1>3

\* Induction on the subsets of a finite set, in the order a fold visits them.
LEMMA SubsetsByPicking ==
    ASSUME NEW D, IsFiniteSet(D), NEW G \in SUBSET SUBSET D, {} \in G,
           \A s \in SUBSET D : s # {} /\ s \ {Pick(s)} \in G => s \in G
    PROVE  G = SUBSET D
<1> DEFINE N == {n \in Nat : \A s \in SUBSET D : Cardinality(s) = n => s \in G}
<1>0. \A s \in SUBSET D : IsFiniteSet(s) /\ Cardinality(s) \in Nat
  BY FS_Subset, FS_CardinalityType
<1>1. 0 \in N
  BY <1>0, FS_EmptySet
<1>2. \A n \in N : n + 1 \in N
  <2> SUFFICES ASSUME NEW n \in N, NEW s \in SUBSET D, Cardinality(s) = n + 1
               PROVE  s \in G
    OBVIOUS
  <2>1. n \in Nat /\ n + 1 # 0
    OBVIOUS
  <2>2. s # {}
    BY <2>1, FS_EmptySet
  <2>3. Cardinality(s \ {Pick(s)}) \in Nat /\ n + 1 = Cardinality(s \ {Pick(s)}) + 1
    BY <1>0, <2>2, PickTakesOne
  <2>4. Cardinality(s \ {Pick(s)}) = n
    BY <2>1, <2>3
  <2>5. s \ {Pick(s)} \in G
    BY <2>4
  <2> QED
    BY <2>2, <2>5
<1> HIDE DEF N
<1>3. N = Nat
  <2>1. N \in SUBSET Nat
    BY DEF N
  <2> QED
    BY <1>1, <1>2, <2>1, NumbersByStep
<1>4. \A s \in SUBSET D : s \in G
  BY <1>0, <1>3 DEF N
<1> QED
  BY <1>4

\* The function that SumFunction folds with, as its definition has it.
SumTo(f) ==
    CHOOSE iter : iter = [s \in SUBSET DOMAIN f |->
        IF s = {} THEN 0
        ELSE f[CHOOSE x \in s : TRUE] + iter[s \ {CHOOSE x \in s : TRUE}]]

LEMMA SumIsSumTo ==
    ASSUME NEW f PROVE SumFunction(f) = SumTo(f)[DOMAIN f]
  BY DEF SumFunction, SumFunctionOnSet, FoldFunctionOnSet, MapThenFoldSet, SumTo

\* There is such a function when the domain is finite.
LEMMA SumToExists ==
    ASSUME NEW f, IsFiniteSet(DOMAIN f)
    PROVE  \E iter : iter = [s \in SUBSET DOMAIN f |->
               IF s = {} THEN 0 ELSE f[Pick(s)] + iter[s \ {Pick(s)}]]
<1> DEFINE D == DOMAIN f
           Level(n) == {s \in SUBSET D : Cardinality(s) <= n}
           Sums(g, n) == g = [s \in Level(n) |->
                                IF s = {} THEN 0 ELSE f[Pick(s)] + g[s \ {Pick(s)}]]
           N == {n \in Nat : \E g : Sums(g, n)}
<1>0. \A s \in SUBSET D : IsFiniteSet(s) /\ Cardinality(s) \in Nat
  BY FS_Subset, FS_CardinalityType
<1>1. \A n \in Nat : \A s \in Level(n) : s # {} =>
         s \ {Pick(s)} \in Level(n)
  <2> SUFFICES ASSUME NEW n \in Nat, NEW s \in Level(n), s # {}
               PROVE  s \ {Pick(s)} \in Level(n)
    OBVIOUS
  <2>1. /\ Cardinality(s) \in Nat /\ Cardinality(s \ {Pick(s)}) \in Nat
        /\ Cardinality(s) = Cardinality(s \ {Pick(s)}) + 1
    BY <1>0, PickTakesOne
  <2>2. Cardinality(s \ {Pick(s)}) <= n
    BY <2>1
  <2> QED
    BY <2>2
<1>2. 0 \in N
  <2> DEFINE g == [s \in Level(0) |-> 0]
  <2>1. \A s \in Level(0) : s = {}
    BY <1>0, FS_EmptySet
  <2>2. Sums(g, 0)
    BY <2>1
  <2> QED
    BY <2>2
<1>3. ASSUME NEW n \in Nat, NEW g, Sums(g, n)
      PROVE  \E h : Sums(h, n + 1)
  <2> DEFINE h == [s \in Level(n + 1) |->
                     IF s \in Level(n) THEN g[s] ELSE f[Pick(s)] + g[s \ {Pick(s)}]]
  <2>1. \A s \in Level(n + 1) : s # {} =>
           s \ {Pick(s)} \in Level(n) /\ s \ {Pick(s)} \in Level(n + 1)
    <3> SUFFICES ASSUME NEW s \in Level(n + 1), s # {}
                 PROVE  s \ {Pick(s)} \in Level(n) /\ s \ {Pick(s)} \in Level(n + 1)
      OBVIOUS
    <3>1. /\ Cardinality(s) \in Nat /\ Cardinality(s \ {Pick(s)}) \in Nat
          /\ Cardinality(s) = Cardinality(s \ {Pick(s)}) + 1
      BY <1>0, PickTakesOne
    <3>2. Cardinality(s) <= n + 1
      OBVIOUS
    <3>3. Cardinality(s \ {Pick(s)}) <= n /\ Cardinality(s \ {Pick(s)}) <= n + 1
      BY <3>1, <3>2
    <3> QED
      BY <3>3
  <2>2. {} \in Level(n)
    BY FS_EmptySet
  <2>0. \A s \in Level(n) :
           g[s] = IF s = {} THEN 0 ELSE f[Pick(s)] + g[s \ {Pick(s)}]
    <3> HIDE DEF Level
    <3> QED
      BY <1>3
  <2>3. ASSUME NEW s \in Level(n + 1)
        PROVE  h[s] = IF s = {} THEN 0 ELSE f[Pick(s)] + h[s \ {Pick(s)}]
    <3> HIDE DEF Level
    <3>1. CASE s = {}
      BY <2>0, <2>2, <2>3, <3>1
    <3>2. CASE s # {} /\ s \in Level(n)
      <4>1. h[s] = g[s] /\ h[s \ {Pick(s)}] = g[s \ {Pick(s)}]
        BY <2>1, <2>3, <3>2
      <4>2. g[s] = f[Pick(s)] + g[s \ {Pick(s)}]
        BY <2>0, <3>2
      <4> QED
        BY <3>2, <4>1, <4>2
    <3>3. CASE s # {} /\ s \notin Level(n)
      <4>1. /\ h[s] = f[Pick(s)] + g[s \ {Pick(s)}]
            /\ h[s \ {Pick(s)}] = g[s \ {Pick(s)}]
        BY <2>1, <2>3, <3>3
      <4> QED
        BY <3>3, <4>1
    <3> QED
      BY <3>1, <3>2, <3>3
  <2>4. Sums(h, n + 1)
    BY <2>3
  <2> QED
    BY <2>4
<1>4. N = Nat
  <2>1. \A n \in N : n + 1 \in N
    <3> HIDE DEF Level, Sums
    <3> QED
      BY <1>3
  <2> HIDE DEF N
  <2>2. N \in SUBSET Nat
    BY DEF N
  <2> QED
    BY <1>2, <2>1, <2>2, NumbersByStep
<1>5. Cardinality(D) \in N
  BY <1>0, <1>4
<1>6. PICK g : Sums(g, Cardinality(D))
  BY <1>5
<1>7. Level(Cardinality(D)) = SUBSET D
  BY FS_Subset
<1> QED
  BY <1>6, <1>7

\* A sum is the picked value and the sum of the others.
LEMMA SumUnfolds ==
    ASSUME NEW f, IsFiniteSet(DOMAIN f)
    PROVE  /\ SumTo(f)[{}] = 0
           /\ \A s \in SUBSET DOMAIN f :
                s # {} => SumTo(f)[s] = f[Pick(s)] + SumTo(f)[s \ {Pick(s)}]
<1> DEFINE sum == SumTo(f)
<1>1. sum = [s \in SUBSET DOMAIN f |->
               IF s = {} THEN 0 ELSE f[Pick(s)] + sum[s \ {Pick(s)}]]
  BY SumToExists, Zenon DEF SumTo, Pick
<1> HIDE DEF sum
<1>2. /\ sum[{}] = 0
      /\ \A s \in SUBSET DOMAIN f :
           s # {} => sum[s] = f[Pick(s)] + sum[s \ {Pick(s)}]
  BY <1>1
<1> QED
  BY <1>2 DEF sum

LEMMA SumsAreNumbers ==
    ASSUME NEW f, IsFiniteSet(DOMAIN f), \A x \in DOMAIN f : f[x] \in Nat
    PROVE  \A s \in SUBSET DOMAIN f : SumTo(f)[s] \in Nat
<1> DEFINE D == DOMAIN f
           G == {s \in SUBSET D : SumTo(f)[s] \in Nat}
<1>1. {} \in G
  BY SumUnfolds
<1>2. \A s \in SUBSET D : s # {} /\ s \ {Pick(s)} \in G => s \in G
  <2> SUFFICES ASSUME NEW s \in SUBSET D, s # {}, s \ {Pick(s)} \in G
               PROVE  SumTo(f)[s] \in Nat
    OBVIOUS
  <2>1. f[Pick(s)] \in Nat
    BY DEF Pick
  <2>2. SumTo(f)[s] = f[Pick(s)] + SumTo(f)[s \ {Pick(s)}]
    BY SumUnfolds
  <2> QED
    BY <2>1, <2>2
<1> HIDE DEF G
<1>3. G = SUBSET D
  <2>1. G \in SUBSET SUBSET D
    BY DEF G
  <2> QED
    BY <1>1, <1>2, <2>1, SubsetsByPicking
<1> QED
  BY <1>3 DEF G

\* A sum grows with its values, and stays only where each of them does.
LEMMA SumsGrow ==
    ASSUME NEW f, NEW g, DOMAIN f = DOMAIN g, IsFiniteSet(DOMAIN f),
           \A x \in DOMAIN f : f[x] \in Nat /\ g[x] \in Nat /\ f[x] <= g[x]
    PROVE  \A s \in SUBSET DOMAIN f :
             /\ SumTo(f)[s] <= SumTo(g)[s]
             /\ SumTo(f)[s] = SumTo(g)[s] => \A x \in s : f[x] = g[x]
<1> DEFINE D == DOMAIN f
           Kept(s) == /\ SumTo(f)[s] <= SumTo(g)[s]
                      /\ SumTo(f)[s] = SumTo(g)[s] => \A x \in s : f[x] = g[x]
           G == {s \in SUBSET D : Kept(s)}
<1>0. \A s \in SUBSET D : SumTo(f)[s] \in Nat /\ SumTo(g)[s] \in Nat
  BY SumsAreNumbers
<1>1. {} \in G
  <2>1. SumTo(f)[{}] = 0 /\ SumTo(g)[{}] = 0
    BY SumUnfolds
  <2> QED
    BY <2>1
<1>2. \A s \in SUBSET D : s # {} /\ s \ {Pick(s)} \in G => s \in G
  <2> SUFFICES ASSUME NEW s \in SUBSET D, s # {}, s \ {Pick(s)} \in G
               PROVE  Kept(s)
    OBVIOUS
  <2> DEFINE r == s \ {Pick(s)}
  <2>1. Pick(s) \in s /\ Pick(s) \in D
    BY DEF Pick
  <2>2. /\ SumTo(f)[s] = f[Pick(s)] + SumTo(f)[r]
        /\ SumTo(g)[s] = g[Pick(s)] + SumTo(g)[r]
    BY SumUnfolds
  <2>3. Kept(r)
    OBVIOUS
  <2>4. \A a, b, c, d \in Nat : a <= b /\ c <= d =>
           a + c <= b + d /\ (a + c = b + d => a = b /\ c = d)
    OBVIOUS
  <2>5. /\ SumTo(f)[r] \in Nat /\ SumTo(g)[r] \in Nat
        /\ f[Pick(s)] \in Nat /\ g[Pick(s)] \in Nat /\ f[Pick(s)] <= g[Pick(s)]
    BY <1>0, <2>1
  <2>6. /\ SumTo(f)[s] <= SumTo(g)[s]
        /\ SumTo(f)[s] = SumTo(g)[s] =>
             f[Pick(s)] = g[Pick(s)] /\ SumTo(f)[r] = SumTo(g)[r]
    BY <2>2, <2>3, <2>4, <2>5
  <2>7. \A x \in s : x = Pick(s) \/ x \in r
    OBVIOUS
  <2> QED
    BY <2>3, <2>6, <2>7
<1> HIDE DEF G
<1>3. G = SUBSET D
  <2>1. G \in SUBSET SUBSET D
    BY DEF G
  <2> QED
    BY <1>1, <1>2, <2>1, SubsetsByPicking
<1> QED
  BY <1>3 DEF G

\* The same of whole sums; a sum of nothings is nothing.
LEMMA SumFunctionGrows ==
    ASSUME NEW f, NEW g, DOMAIN f = DOMAIN g, IsFiniteSet(DOMAIN f),
           \A x \in DOMAIN f : f[x] \in Nat /\ g[x] \in Nat /\ f[x] <= g[x]
    PROVE  /\ SumFunction(f) \in Nat /\ SumFunction(g) \in Nat
           /\ SumFunction(f) <= SumFunction(g)
           /\ SumFunction(f) = SumFunction(g) => \A x \in DOMAIN f : f[x] = g[x]
  BY SumIsSumTo, SumsAreNumbers, SumsGrow

LEMMA SumOfNothing ==
    ASSUME NEW f, IsFiniteSet(DOMAIN f), \A x \in DOMAIN f : f[x] \in Nat
    PROVE  SumFunction(f) = 0 <=> \A x \in DOMAIN f : f[x] = 0
<1> DEFINE zero == [x \in DOMAIN f |-> 0]
           G == {s \in SUBSET DOMAIN f : SumTo(zero)[s] = 0}
<1>1. {} \in G
  BY SumUnfolds
<1>2. \A s \in SUBSET DOMAIN f : s # {} /\ s \ {Pick(s)} \in G => s \in G
  <2> SUFFICES ASSUME NEW s \in SUBSET DOMAIN f, s # {}, s \ {Pick(s)} \in G
               PROVE  SumTo(zero)[s] = 0
    OBVIOUS
  <2>1. zero[Pick(s)] = 0
    BY DEF Pick
  <2>2. SumTo(zero)[s] = zero[Pick(s)] + SumTo(zero)[s \ {Pick(s)}]
    BY SumUnfolds
  <2> QED
    BY <2>1, <2>2
<1>3. G = SUBSET DOMAIN f
  <2> HIDE DEF G
  <2>1. G \in SUBSET SUBSET DOMAIN f
    BY DEF G
  <2> QED
    BY <1>1, <1>2, <2>1, SubsetsByPicking
<1>4. SumFunction(zero) = 0
  <2>1. SumTo(zero)[DOMAIN f] = 0
    BY <1>3
  <2> QED
    BY <2>1, SumIsSumTo
<1>5. \A x \in DOMAIN f : zero[x] \in Nat /\ zero[x] <= f[x]
  OBVIOUS
<1>6. SumFunction(f) = 0 => \A x \in DOMAIN f : f[x] = 0
  <2>1. SumFunction(zero) = SumFunction(f) => \A x \in DOMAIN zero : zero[x] = f[x]
    BY <1>5, SumFunctionGrows
  <2> QED
    BY <1>4, <2>1
<1>7. (\A x \in DOMAIN f : f[x] = 0) => SumFunction(f) = 0
  <2> SUFFICES ASSUME \A x \in DOMAIN f : f[x] = 0 PROVE SumFunction(f) = 0
    OBVIOUS
  <2>1. /\ SumFunction(f) \in Nat /\ SumFunction(f) <= SumFunction(zero)
    BY SumFunctionGrows
  <2> QED
    BY <1>4, <2>1
<1> QED
  BY <1>6, <1>7

\* The elements of a finite set, counted by the value a function has there.
LEMMA CountedByValue ==
    ASSUME NEW D, IsFiniteSet(D), NEW S, IsFiniteSet(S), NEW f \in [D -> S]
    PROVE  Cardinality(D) = SumFunction([s \in S |-> Cardinality({d \in D : f[d] = s})])
<1> DEFINE count == [s \in S |-> Cardinality({d \in D : f[d] = s})]
           Within(r) == {d \in D : f[d] \in r}
           G == {r \in SUBSET S : SumTo(count)[r] = Cardinality(Within(r))}
<1>1. \A r : IsFiniteSet(Within(r)) /\ Cardinality(Within(r)) \in Nat
  <2> SUFFICES ASSUME NEW r
               PROVE  IsFiniteSet(Within(r)) /\ Cardinality(Within(r)) \in Nat
    OBVIOUS
  <2>1. Within(r) \in SUBSET D
    OBVIOUS
  <2> QED
    BY <2>1, FS_Subset, FS_CardinalityType
<1>2. {} \in G
  <2>1. Within({}) = {}
    OBVIOUS
  <2> QED
    BY <2>1, SumUnfolds, FS_EmptySet
<1>3. \A r \in SUBSET S : r # {} /\ r \ {Pick(r)} \in G => r \in G
  <2> SUFFICES ASSUME NEW r \in SUBSET S, r # {}, r \ {Pick(r)} \in G
               PROVE  SumTo(count)[r] = Cardinality(Within(r))
    OBVIOUS
  <2> DEFINE p == Pick(r)
             rest == r \ {p}
  <2>1. p \in r /\ p \in S
    BY DEF Pick
  <2>2. SumTo(count)[r] = count[p] + SumTo(count)[rest]
    BY SumUnfolds
  <2>3. SumTo(count)[rest] = Cardinality(Within(rest))
    OBVIOUS
  <2>4. count[p] = Cardinality(Within({p}))
    <3>1. Within({p}) = {d \in D : f[d] = p}
      OBVIOUS
    <3> QED
      BY <2>1, <3>1
  <2>5. /\ Within(r) = Within({p}) \cup Within(rest)
        /\ Within({p}) \cap Within(rest) = {}
    BY <2>1
  <2> HIDE DEF Within, p, rest, count
  <2>6. Cardinality(Within(r))
          = Cardinality(Within({p})) + Cardinality(Within(rest)) - Cardinality({})
    BY <1>1, <2>5, FS_Union
  <2> QED
    BY <1>1, <2>2, <2>3, <2>4, <2>6, FS_EmptySet
<1> HIDE DEF G
<1>4. G = SUBSET S
  <2>1. G \in SUBSET SUBSET S
    BY DEF G
  <2> QED
    BY <1>2, <1>3, <2>1, SubsetsByPicking
<1>5. SumTo(count)[S] = Cardinality(Within(S))
  BY <1>4 DEF G
<1>6. Within(S) = D
  OBVIOUS
<1>7. SumFunction(count) = SumTo(count)[S]
  BY SumIsSumTo
<1> QED
  BY <1>5, <1>6, <1>7

\* What a function makes of a finite set is finite.
LEMMA ImageIsFinite ==
    ASSUME NEW S, IsFiniteSet(S), NEW f, f = [x \in S |-> f[x]]
    PROVE  IsFiniteSet({f[x] : x \in S})
<1>1. f \in Surjection(S, {f[x] : x \in S})
  BY DEF Surjection
<1> QED
  BY <1>1, FS_Surjection

-----------------------------------------------------------------------------
(* Matching                                                                *)

\* Canonical operations are their own canonical form.
LEMMA CanonicalIsIdempotent ==
    ASSUME NEW o
    PROVE  CanonicalOperation(CanonicalOperation(o)) = CanonicalOperation(o)
<1> DEFINE segments == o.route.segments
           once == [i \in DOMAIN segments |->
                       IF segments[i] \in Parameters THEN CanonicalParameter
                       ELSE segments[i]]
           twice == [i \in DOMAIN once |->
                       IF once[i] \in Parameters THEN CanonicalParameter
                       ELSE once[i]]
<1>1. twice = once
  OBVIOUS
<1>2. CanonicalOperation(o).route = [segments |-> once, slash |-> o.route.slash]
  BY DEF CanonicalOperation, NormalizeTemplatedRoute
<1>3. NormalizeTemplatedRoute(CanonicalOperation(o).route)
        = [segments |-> twice, slash |-> o.route.slash]
  BY <1>2 DEF NormalizeTemplatedRoute
<1> QED
  BY <1>1, <1>2, <1>3 DEF CanonicalOperation

\* An event's own operation, when in scope, is among the fallback candidates,
\* unless the exact lookup has found it already.
LEMMA OwnIsCandidate ==
    ASSUME NEW scope, NEW event, event.route \in Route,
           CanonicalOperation(OperationOf(event)) \in scope,
           OperationOf(event) \notin scope
    PROVE  CanonicalOperation(OperationOf(event)) \in FallbackCandidates(scope, event)
<1> DEFINE own   == CanonicalOperation(OperationOf(event))
           segs  == event.route.segments
           canon == [i \in DOMAIN segs |->
                        IF segs[i] \in Parameters THEN CanonicalParameter
                        ELSE segs[i]]
<1>1. /\ own.method = event.method
      /\ own.route.segments = canon
      /\ own.route.slash = event.route.slash
  BY DEF CanonicalOperation, NormalizeTemplatedRoute, OperationOf
<1>2. segs \in Seq(DOMAIN CaseFold)
  BY DEF Route
<1>3. canon \in Seq(DOMAIN CaseFold) /\ Len(canon) = Len(segs)
  BY <1>2, MatchingAssumption
<1>4. DOMAIN canon = DOMAIN segs
  OBVIOUS
<1>5. \E i \in DOMAIN canon : canon[i] \in Parameters
  <2> SUFFICES ASSUME \A i \in DOMAIN segs : segs[i] \notin Parameters
               PROVE  FALSE
    BY MatchingAssumption
  <2>1. canon = segs
    BY <1>2
  <2>2. event.route = [segments |-> segs, slash |-> event.route.slash]
    BY DEF Route
  <2>3. NormalizeTemplatedRoute(event.route)
          = [segments |-> canon, slash |-> event.route.slash]
    BY DEF NormalizeTemplatedRoute
  <2>4. own = OperationOf(event)
    BY <2>1, <2>2, <2>3 DEF CanonicalOperation, OperationOf
  <2> QED
    BY <2>4
<1>6. TemplateMatches(own.route, event.route)
  <2>1. \A i \in DOMAIN canon :
           canon[i] = CanonicalParameter \/ CaseFold[canon[i]] = CaseFold[segs[i]]
    BY <1>4
  <2> QED
    BY <1>1, <1>3, <2>1 DEF TemplateMatches
<1>7. IsTemplate(own.route)
  BY <1>1, <1>5 DEF IsTemplate
<1> QED
  BY <1>1, <1>6, <1>7 DEF FallbackCandidates

\* Where an event may go: to its own operation, or to a report of ambiguity
\* that names it, or the loop throws.
LEMMA VerdictOnDeclaredRoute ==
    ASSUME NEW scope, NEW event, event.route \in Route,
           \A o \in scope : CanonicalOperation(o) = o,
           CanonicalOperation(OperationOf(event)) \in scope,
           NEW verdict, verdict = ResolveOperation(scope, event),
           NEW own, own = CanonicalOperation(OperationOf(event))
    PROVE  /\ verdict.kind = "matched" => verdict.operations = {own}
           /\ verdict.kind = "ambiguous" =>
                  own \in verdict.operations /\ verdict.operations # {own}
           /\ verdict.kind # "unmatched"
<1>1. CASE OperationOf(event) \in scope
  <2>1. own = OperationOf(event)
    BY <1>1
  <2> QED
    BY <1>1, <2>1 DEF ResolveOperation, Verdict
<1>2. CASE OperationOf(event) \notin scope
  <2> DEFINE candidates == FallbackCandidates(scope, event)
  <2>1. own \in candidates
    BY <1>2, OwnIsCandidate
  <2>2. verdict = Verdict("throws", {}) \/ verdict = VerdictOf(candidates)
    BY <1>2 DEF ResolveOperation
  <2> HIDE DEF candidates
  <2>3. CASE verdict = Verdict("throws", {})
    BY <2>3 DEF Verdict
  <2>4. CASE verdict = VerdictOf(candidates)
    <3>1. CASE candidates = {own}
      BY <2>1, <2>4, <3>1 DEF VerdictOf, Verdict
    <3>2. CASE candidates # {own}
      <4>1. ~\E o \in candidates : candidates = {o}
        BY <2>1, <3>2
      <4> QED
        BY <2>1, <2>4, <3>2, <4>1 DEF VerdictOf, Verdict
    <3> QED
      BY <3>1, <3>2
  <2> QED
    BY <2>2, <2>3, <2>4
<1> QED
  BY <1>1, <1>2

-----------------------------------------------------------------------------
(* The invariant                                                           *)

CoverageInv == TypeOK /\ DeclaredRouteIsNeverMisattributed

LEMMA OperationsAreCanonical ==
    ASSUME TypeOK
    PROVE  \A o \in operations : CanonicalOperation(o) = o
  BY CanonicalIsIdempotent DEF TypeOK, CanonicalOperations

\* Only a verdict made of candidates in scope leaves the resolution.
LEMMA VerdictInScope ==
    ASSUME NEW scope, NEW event
    PROVE  LET verdict == ResolveOperation(scope, event)
           IN  /\ verdict.operations \subseteq scope
               /\ verdict.kind \in {"matched", "unmatched", "ambiguous", "throws"}
<1> DEFINE candidates == FallbackCandidates(scope, event)
<1>1. candidates \subseteq scope
  BY DEF FallbackCandidates
<1>2. \/ ResolveOperation(scope, event) = Verdict("matched", {OperationOf(event)})
         /\ OperationOf(event) \in scope
      \/ ResolveOperation(scope, event) = Verdict("throws", {})
      \/ ResolveOperation(scope, event) = VerdictOf(candidates)
  BY DEF ResolveOperation
<1> HIDE DEF candidates
<1> QED
  BY <1>1, <1>2 DEF VerdictOf, Verdict

LEMMA InitEstablishes == Init => CoverageInv
<1> SUFFICES ASSUME Init PROVE CoverageInv
  OBVIOUS
<1>1. /\ document \in Documents
      /\ operations \subseteq CanonicalOperations(HttpOperations(document))
      /\ contracts = [o \in operations |-> ContractOf(document, o)]
  BY DEF Init
<1>2. NoEvidence \in EvidenceType
  BY DEF NoEvidence, EvidenceType
<1>3. TypeOK
  <2>1. evidence \in [operations -> EvidenceType]
    BY <1>2 DEF Init
  <2>2. /\ log = <<>> /\ log \in Seq(Events)
        /\ diagnostics = <<>> /\ diagnostics \in Seq(DiagnosticType)
        /\ thrown = FALSE
    BY DEF Init
  <2>3. Len(log) <= MaxEvents
    BY <2>2, BoundAssumption
  <2> QED
    BY <1>1, <2>1, <2>2, <2>3 DEF TypeOK
<1>4. DeclaredRouteIsNeverMisattributed
  BY DEF Init, DeclaredRouteIsNeverMisattributed
<1> QED
  BY <1>3, <1>4 DEF CoverageInv

\* Crediting an event adds to one operation's evidence and takes none away.
LEMMA CreditAdds ==
    ASSUME TypeOK, NEW o \in operations, NEW event \in Events,
           evidence' = RecordOperationEvidence(o, event)
    PROVE  /\ evidence' \in [operations -> EvidenceType]
           /\ event.suite \in evidence'[o].suites
           /\ \A p \in operations : evidence[p].suites \subseteq evidence'[p].suites
<1> DEFINE added == [suites     |-> evidence[o].suites \cup {event.suite},
                     statuses   |-> evidence[o].statuses \cup {event.status},
                     queryKeys  |-> evidence[o].queryKeys \cup event.queryKeys,
                     headerKeys |-> evidence[o].headerKeys \cup event.headerKeys]
<1>1. evidence \in [operations -> EvidenceType]
  BY DEF TypeOK
<1>2. evidence' = [evidence EXCEPT ![o] = added]
  BY <1>1 DEF RecordOperationEvidence
<1>3. added \in EvidenceType
  BY <1>1 DEF EvidenceType
<1>4. event.suite \in added.suites /\ evidence[o].suites \subseteq added.suites
  OBVIOUS
<1> HIDE DEF added
<1> QED
  BY <1>1, <1>2, <1>3, <1>4

\* What stays true of the events read before, when the evidence and the
\* diagnostics only grow, holds after one more; the new event is the goal left.
LEMMA EarlierEventsKept ==
    ASSUME CoverageInv, NEW event \in Events, Read(event), ~thrown',
           evidence' \in [operations -> EvidenceType],
           \A p \in operations : evidence[p].suites \subseteq evidence'[p].suites,
           \A k \in DOMAIN diagnostics :
               k \in DOMAIN diagnostics' /\ diagnostics'[k] = diagnostics[k],
           LET own == CanonicalOperation(OperationOf(event))
           IN  own \in operations =>
                 \/ event.suite \in evidence'[own].suites
                 \/ \E k \in DOMAIN diagnostics' :
                        /\ diagnostics'[k].event = OperationOf(event)
                        /\ own \in diagnostics'[k].candidates
                        /\ diagnostics'[k].candidates # {own}
    PROVE  DeclaredRouteIsNeverMisattributed'
<1> USE DEF Own, ReportedAmbiguous
<1>1. /\ log \in Seq(Events) /\ log' = Append(log, event)
      /\ operations' = operations /\ ~thrown
  BY DEF CoverageInv, TypeOK, Read
<1>2. SUFFICES ASSUME NEW i \in DOMAIN log', Own(i)' \in operations
               PROVE  \/ log'[i].suite \in evidence'[Own(i)'].suites
                      \/ ReportedAmbiguous(i)'
  BY <1>1 DEF DeclaredRouteIsNeverMisattributed
<1>3. CASE i \in DOMAIN log
  <2>1. log'[i] = log[i]
    BY <1>1, <1>3
  <2>2. \/ log[i].suite \in evidence[Own(i)].suites
        \/ ReportedAmbiguous(i)
    BY <1>1, <1>2, <1>3, <2>1 DEF CoverageInv, DeclaredRouteIsNeverMisattributed
  <2> QED
    BY <1>2, <2>1, <2>2
<1>4. CASE i \notin DOMAIN log
  <2>1. log'[i] = event
    BY <1>1, <1>4
  <2> QED
    BY <1>2, <2>1
<1> QED
  BY <1>3, <1>4

LEMMA StepPreserves == CoverageInv /\ [Next]_vars => CoverageInv'
<1> SUFFICES ASSUME CoverageInv, [Next]_vars PROVE CoverageInv'
  OBVIOUS
<1>0. CASE UNCHANGED vars
  BY <1>0 DEF CoverageInv, TypeOK, DiagnosticType, vars,
              DeclaredRouteIsNeverMisattributed, ReportedAmbiguous, Own
<1>1. CASE Next
  <2>1. PICK event \in Events : Credit(event) \/ Diagnose(event) \/ Throw(event)
    BY <1>1 DEF Next
  <2> DEFINE verdict == ResolveOperation(operations, event)
             own     == CanonicalOperation(OperationOf(event))
  <2>2. event.route \in Route
    BY EventsAssumption
  <2>3. Read(event)
    BY <2>1 DEF Credit, Diagnose, Throw
  <2>4. /\ verdict.operations \subseteq operations
        /\ own \in operations =>
             /\ verdict.kind = "matched" => verdict.operations = {own}
             /\ verdict.kind = "ambiguous" =>
                    own \in verdict.operations /\ verdict.operations # {own}
             /\ verdict.kind # "unmatched"
    BY <2>2, VerdictInScope, VerdictOnDeclaredRoute, OperationsAreCanonical
       DEF CoverageInv
  <2>5. /\ operations' = operations /\ document' = document /\ contracts' = contracts
        /\ log' \in Seq(Events) /\ Len(log') <= MaxEvents
    BY <2>3, BoundAssumption DEF CoverageInv, TypeOK, Read
  <2>6. CASE Credit(event)
    <3>1. PICK o \in verdict.operations :
             evidence' = RecordOperationEvidence(o, event)
      BY <2>6 DEF Credit
    <3>2. /\ verdict.kind = "matched"
          /\ diagnostics' = diagnostics /\ thrown' = thrown
      BY <2>6 DEF Credit
    <3>3. /\ evidence' \in [operations -> EvidenceType]
          /\ event.suite \in evidence'[o].suites
          /\ \A p \in operations : evidence[p].suites \subseteq evidence'[p].suites
      BY <2>4, <3>1, CreditAdds DEF CoverageInv
    <3>4. own \in operations => own = o
      BY <2>4, <3>1, <3>2
    <3>5. ~thrown'
      BY <2>3, <3>2 DEF Read
    <3>6. DeclaredRouteIsNeverMisattributed'
      BY <2>3, <3>2, <3>3, <3>4, <3>5, EarlierEventsKept
    <3>7. TypeOK'
      BY <2>5, <3>2, <3>3 DEF CoverageInv, TypeOK, DiagnosticType, EvidenceType
    <3> QED
      BY <3>6, <3>7 DEF CoverageInv
  <2>7. CASE Diagnose(event)
    <3> DEFINE new == Diagnostic(event, verdict)
    <3>1. /\ verdict.kind \in {"unmatched", "ambiguous"}
          /\ diagnostics' = Append(diagnostics, new)
          /\ evidence' = evidence /\ thrown' = thrown
      BY <2>7 DEF Diagnose
    <3>2. /\ new \in DiagnosticType
          /\ new.event = OperationOf(event)
          /\ new.candidates = verdict.operations
          /\ new.kind = verdict.kind
      BY <2>4, <3>1 DEF Diagnostic, DiagnosticType
    <3>3. diagnostics \in Seq(DiagnosticType)
      BY DEF CoverageInv, TypeOK
    <3> HIDE DEF new
    <3>4. /\ diagnostics' \in Seq(DiagnosticType)
          /\ Len(diagnostics') \in DOMAIN diagnostics'
          /\ diagnostics'[Len(diagnostics')] = new
          /\ \A k \in DOMAIN diagnostics :
                 k \in DOMAIN diagnostics' /\ diagnostics'[k] = diagnostics[k]
      BY <3>1, <3>2, <3>3
    <3>5. own \in operations =>
             /\ own \in verdict.operations
             /\ verdict.operations # {own}
      BY <2>4, <3>1
    <3>6. ~thrown' /\ evidence' \in [operations -> EvidenceType]
      BY <2>3, <3>1 DEF Read, CoverageInv, TypeOK
    <3>7. own \in operations =>
             \E k \in DOMAIN diagnostics' :
                /\ diagnostics'[k].event = OperationOf(event)
                /\ own \in diagnostics'[k].candidates
                /\ diagnostics'[k].candidates # {own}
      BY <3>2, <3>4, <3>5
    <3>8. DeclaredRouteIsNeverMisattributed'
      BY <2>3, <3>1, <3>4, <3>6, <3>7, EarlierEventsKept
    <3>9. TypeOK'
      BY <2>5, <3>1, <3>4, <3>6 DEF CoverageInv, TypeOK, DiagnosticType, EvidenceType
    <3> QED
      BY <3>8, <3>9 DEF CoverageInv
  <2>8. CASE Throw(event)
    <3>1. thrown' = TRUE /\ evidence' = evidence /\ diagnostics' = diagnostics
      BY <2>8 DEF Throw
    <3>2. TypeOK'
      BY <2>5, <3>1 DEF CoverageInv, TypeOK, DiagnosticType, EvidenceType
    <3> QED
      BY <3>1, <3>2 DEF CoverageInv, DeclaredRouteIsNeverMisattributed
  <2> QED
    BY <2>1, <2>6, <2>7, <2>8
<1> QED
  BY <1>0, <1>1 DEF vars

\* The state of the loop is well formed for every specification and log.
THEOREM CoverageTypeCorrect == Spec => []TypeOK
<1>1. Init => CoverageInv
  BY InitEstablishes
<1>2. CoverageInv /\ [Next]_vars => CoverageInv'
  BY StepPreserves
<1>3. CoverageInv => TypeOK
  BY DEF CoverageInv
<1> QED
  BY <1>1, <1>2, <1>3, PTL DEF Spec

\* computeCoverage gives an event recorded under a declared route to its own
\* operation or reports it as ambiguous, for every specification and log.
THEOREM DeclaredRouteAttribution == Spec => []DeclaredRouteIsNeverMisattributed
<1>1. Init => CoverageInv
  BY InitEstablishes
<1>2. CoverageInv /\ [Next]_vars => CoverageInv'
  BY StepPreserves
<1>3. CoverageInv => DeclaredRouteIsNeverMisattributed
  BY DEF CoverageInv
<1> QED
  BY <1>1, <1>2, <1>3, PTL DEF Spec

-----------------------------------------------------------------------------
(* The document and the statuses                                           *)

\* A document that is accepted loses none of the operations written in it, and
\* the Java core reads the same ones: what buildHttpSemantics passes over, it
\* refuses.
THEOREM AcceptedDocumentsLoseNothing ==
    ASSUME NEW doc, ~HasInvalid(doc)
    PROVE  /\ HttpOperations(doc) =
                UNION {{KeyOf(doc, i, m) : m \in DOMAIN doc.items[i].operations} :
                          i \in DOMAIN doc.items}
           /\ JavaOperations(doc) = HttpOperations(doc)
<1>1. \A i \in DOMAIN doc.items :
         /\ doc.items[i].object /\ doc.items[i].rooted
         /\ \A m \in DOMAIN doc.items[i].operations :
               doc.items[i].operations[m].object
  BY DEF HasInvalid, InvalidItem
<1>2. \A i \in DOMAIN doc.items :
         {m \in DOMAIN doc.items[i].operations : doc.items[i].operations[m].object}
           = DOMAIN doc.items[i].operations
  BY <1>1
<1>3. /\ {i \in DOMAIN doc.items : doc.items[i].object /\ doc.items[i].rooted}
           = DOMAIN doc.items
      /\ {i \in DOMAIN doc.items : doc.items[i].object} = DOMAIN doc.items
  BY <1>1
<1> QED BY <1>2, <1>3 DEF HttpOperations, JavaOperations

\* Between codes, ranges and default no observed status goes uncounted,
\* whatever the operation declares: isDeclaredStatusCovered.
THEOREM StatusesAreCounted == Spec => []DefaultLeavesNoStatusUncounted
<1>1. DefaultLeavesNoStatusUncounted
  <2> SUFFICES ASSUME NEW o \in operations,
                      NEW d \in StatusesOf(o), d.type = "default",
                      NEW s \in evidence[o].statuses
               PROVE  \E t \in StatusesHit(o) : MatchesStatusToken(s, t)
    BY DEF DefaultLeavesNoStatusUncounted
  <2>1. CASE \E t \in StatusesOf(o) : t.type # "default" /\ MatchesStatusToken(s, t)
    <3>1. PICK t \in StatusesOf(o) : t.type # "default" /\ MatchesStatusToken(s, t)
      BY <2>1
    <3>2. t \in StatusesHit(o)
      BY <3>1 DEF StatusesHit, CoveredStatuses, IsDeclaredStatusCovered
    <3> QED BY <3>1, <3>2
  <2>2. CASE \A t \in StatusesOf(o) : t.type # "default" => ~MatchesStatusToken(s, t)
    <3>1. d \in StatusesHit(o)
      BY <2>2 DEF StatusesHit, CoveredStatuses, IsDeclaredStatusCovered
    <3>2. MatchesStatusToken(s, d)
      BY DEF MatchesStatusToken
    <3> QED BY <3>1, <3>2
  <2> QED BY <2>1, <2>2
<1> QED BY <1>1, PTL

-----------------------------------------------------------------------------
(* Rounding                                                                *)
(* How large a specification may grow before rounding to two decimals      *)
(* reports something as covered that is not.                               *)


\* Integer division stays below a bound its numerator stays below.
LEMMA DivBelow ==
    ASSUME NEW a \in Nat, NEW b \in Nat \ {0}, NEW k \in Nat, a < k * b
    PROVE  a \div b \in Nat /\ a \div b < k
<1> DEFINE q == a \div b
<1>1. q \in Nat /\ q * b <= a
  BY Z3
<1> HIDE DEF q
<1>2. q * b < k * b
  BY <1>1, Z3
<1>3. q < k
  BY <1>1, <1>2, Z3
<1> QED
  BY <1>1, <1>3 DEF q

\* All covered rounds to 100% exactly.
LEMMA AllCoveredIsFull ==
    ASSUME NEW total \in Nat \ {0}
    PROVE  Hundredths(total, total) = FullPercent
<1>1. 20000 * total + total = 20001 * total
  OBVIOUS
<1>2. (20001 * total) \div (2 * total) = 10000
  BY Z3
<1> QED
  BY <1>1, <1>2 DEF Hundredths, FullPercent

\* One thing missing of so few leaves at least that many hundredths missing.
LEMMA MissingShows ==
    ASSUME NEW total \in Nat \ {0}, NEW covered \in 0..(total - 1),
           NEW gap \in 1..4, (2 * gap - 1) * total < 20000
    PROVE  Hundredths(covered, total) \in 0..(FullPercent - gap)
<1> DEFINE k == 10001 - gap
<1>1. 20000 * covered + total < k * (2 * total)
  OBVIOUS
<1>2. 20000 * covered + total \in Nat /\ 2 * total \in Nat \ {0} /\ k \in Nat
  OBVIOUS
<1>3. Hundredths(covered, total) \in Nat /\ Hundredths(covered, total) < k
  BY <1>1, <1>2, DivBelow DEF Hundredths
<1> QED
  BY <1>3 DEF FullPercent

LEMMA RoundingShowsGap ==
    ASSUME NEW total \in Nat \ {0}, NEW covered \in 0..total,
           NEW gap \in 1..4, (2 * gap - 1) * total < 20000
    PROVE  /\ covered = total => Hundredths(covered, total) = FullPercent
           /\ covered # total => Hundredths(covered, total) \in 0..(FullPercent - gap)
<1>1. Hundredths(total, total) = FullPercent
  BY AllCoveredIsFull
<1>2. CASE covered = total
  BY <1>1, <1>2
<1>3. CASE covered # total
  <2>1. covered \in 0..(total - 1)
    BY <1>3
  <2> QED
    BY <1>3, <2>1, MissingShows
<1> QED
  BY <1>2, <1>3

\* The most operations, statuses and required parameters of which no missing
\* one rounds away.
MostOperations == 19999
MostStatuses   == 3999
MostParameters == 2857

\* Below 20000 declared things a dimension is COVERED exactly when nothing of
\* it is missing: summarizeDimension, stateFromPercent.
THEOREM CoveredMeansNothingMissing ==
    ASSUME NEW total \in 1..MostOperations, NEW covered \in 0..total
    PROVE  StateFromPercent(SummarizeDimension(covered, total)) = "COVERED"
             <=> covered = total
<1> DEFINE percent == Hundredths(covered, total)
<1>0. SummarizeDimension(covered, total) = percent
  BY DEF SummarizeDimension
<1>1. /\ covered = total => percent = FullPercent
      /\ covered # total => percent \in 0..(FullPercent - 1)
  <2>1. /\ total \in Nat \ {0}
        /\ 1 \in 1..4 /\ (2 * 1 - 1) * total < 20000
    BY DEF MostOperations
  <2> QED
    BY <2>1, RoundingShowsGap
<1> HIDE DEF percent
<1>2. CASE covered = total
  BY <1>0, <1>1, <1>2 DEF StateFromPercent, FullPercent, NotApplicable
<1>3. CASE covered # total
  <2>0. percent \in 0..(FullPercent - 1)
    BY <1>1, <1>3
  <2>1. percent \in Int /\ percent # NotApplicable /\ ~(percent >= FullPercent)
    <3>1. percent \in Int /\ 0 <= percent /\ percent <= FullPercent - 1
      BY <2>0 DEF FullPercent
    <3>2. percent # NotApplicable
      BY <3>1 DEF NotApplicable
    <3>3. ~(percent >= FullPercent)
      BY <3>1 DEF FullPercent
    <3> QED
      BY <3>1, <3>2, <3>3
  <2>2. StateFromPercent(percent) # "COVERED"
    BY <2>1 DEF StateFromPercent
  <2> QED
    BY <1>0, <1>3, <2>2
<1> QED
  BY <1>2, <1>3

\* The aggregate rounds rounded percentages, so a small specification is needed
\* for its COVERED to mean that the three dimensions miss nothing: at most 3999
\* declared statuses and 2857 required parameters (summarizeAggregate).
THEOREM AggregateCoveredMeansNothingMissing ==
    ASSUME NEW operationsDeclared \in 1..MostOperations, NEW operationsCovered \in 0..operationsDeclared,
           NEW statuses \in 1..MostStatuses, NEW statusesCovered \in 0..statuses,
           NEW parameters \in 1..MostParameters, NEW parametersCovered \in 0..parameters,
           StateFromPercent(SummarizeAggregate(
               SummarizeDimension(operationsCovered, operationsDeclared),
               SummarizeDimension(statusesCovered, statuses),
               SummarizeDimension(parametersCovered, parameters))) = "COVERED"
    PROVE  /\ operationsCovered = operationsDeclared
           /\ statusesCovered = statuses
           /\ parametersCovered = parameters
<1> DEFINE o == Hundredths(operationsCovered, operationsDeclared)
           s == Hundredths(statusesCovered, statuses)
           p == Hundredths(parametersCovered, parameters)
<1>1. /\ operationsCovered = operationsDeclared => o = FullPercent
      /\ operationsCovered # operationsDeclared => o \in 0..(FullPercent - 1)
  <2>1. /\ operationsDeclared \in Nat \ {0}
        /\ 1 \in 1..4 /\ (2 * 1 - 1) * operationsDeclared < 20000
    BY Z3 DEF MostOperations
  <2> QED
    BY <2>1, RoundingShowsGap
<1>2. /\ statusesCovered = statuses => s = FullPercent
      /\ statusesCovered # statuses => s \in 0..(FullPercent - 3)
  <2>1. /\ statuses \in Nat \ {0}
        /\ 3 \in 1..4 /\ (2 * 3 - 1) * statuses < 20000
    BY DEF MostStatuses
  <2> QED
    BY <2>1, RoundingShowsGap
<1>3. /\ parametersCovered = parameters => p = FullPercent
      /\ parametersCovered # parameters => p \in 0..(FullPercent - 4)
  <2>1. /\ parameters \in Nat \ {0}
        /\ 4 \in 1..4 /\ (2 * 4 - 1) * parameters < 20000
    BY DEF MostParameters
  <2> QED
    BY <2>1, RoundingShowsGap
<1>4. SummarizeDimension(operationsCovered, operationsDeclared) = o
  <2>1. operationsDeclared # 0
    BY Z3 DEF MostOperations
  <2> QED BY <2>1 DEF SummarizeDimension
<1>5. SummarizeDimension(statusesCovered, statuses) = s
  BY DEF SummarizeDimension, MostStatuses
<1>6. SummarizeDimension(parametersCovered, parameters) = p
  BY DEF SummarizeDimension, MostParameters
<1>7. StateFromPercent(SummarizeAggregate(o, s, p)) = "COVERED"
  BY <1>4, <1>5, <1>6
<1> HIDE DEF o, s, p
<1>8. o \in 0..FullPercent /\ s \in 0..FullPercent /\ p \in 0..FullPercent
  <2>1. o = FullPercent \/ o \in 0..(FullPercent - 1)
    BY <1>1
  <2>2. s = FullPercent \/ s \in 0..(FullPercent - 3)
    BY <1>2
  <2>3. p = FullPercent \/ p \in 0..(FullPercent - 4)
    BY <1>3
  <2> QED
    BY <2>1, <2>2, <2>3 DEF FullPercent
<1>9. (60 * o + 25 * s + 15 * p + 50) \div 100 >= FullPercent
  BY <1>7, <1>8 DEF StateFromPercent, SummarizeAggregate, NotApplicable, FullPercent
<1>10. 60 * o + 25 * s + 15 * p + 50 >= 100 * FullPercent
  <2> DEFINE weighted == 60 * o + 25 * s + 15 * p + 50
  <2>1. weighted \in Int
    BY <1>8
  <2>2. weighted \div 100 >= FullPercent
    BY <1>9
  <2> HIDE DEF weighted
  <2>3. weighted >= 100 * FullPercent
    BY <2>1, <2>2 DEF FullPercent
  <2> QED
    BY <2>3 DEF weighted
<1>11. CASE operationsCovered # operationsDeclared
  <2>1. o <= FullPercent - 1 /\ s <= FullPercent /\ p <= FullPercent
    BY <1>1, <1>8, <1>11 DEF FullPercent
  <2> QED
    BY <1>8, <1>10, <2>1 DEF FullPercent
<1>12. CASE statusesCovered # statuses
  <2>1. o <= FullPercent /\ s <= FullPercent - 3 /\ p <= FullPercent
    BY <1>2, <1>8, <1>12 DEF FullPercent
  <2> QED
    BY <1>8, <1>10, <2>1 DEF FullPercent
<1>13. CASE parametersCovered # parameters
  <2>1. o <= FullPercent /\ s <= FullPercent /\ p <= FullPercent - 4
    BY <1>3, <1>8, <1>13 DEF FullPercent
  <2> QED
    BY <1>8, <1>10, <2>1 DEF FullPercent
<1> QED
  BY <1>11, <1>12, <1>13

-----------------------------------------------------------------------------
(* What is covered stays covered                                           *)

\* The keys of the operations are canonical already, and finitely many.
LEMMA KeysAreCanonical ==
    ASSUME NEW doc
    PROVE  CanonicalOperations(HttpOperations(doc)) = HttpOperations(doc)
<1>1. \A o \in HttpOperations(doc) : CanonicalOperation(o) = o
  <2> SUFFICES ASSUME NEW i \in DOMAIN doc.items, NEW m
               PROVE  CanonicalOperation(KeyOf(doc, i, m)) = KeyOf(doc, i, m)
    BY DEF HttpOperations
  <2>1. KeyOf(doc, i, m)
          = CanonicalOperation([method |-> m, route |-> doc.items[i].route])
    BY DEF KeyOf, CanonicalOperation
  <2> QED
    BY <2>1, CanonicalIsIdempotent
<1> QED
  BY <1>1 DEF CanonicalOperations

ContractInv ==
    /\ document \in Documents /\ ~HasInvalid(document)
    /\ operations \subseteq HttpOperations(document)
    /\ contracts = [o \in operations |-> ContractOf(document, o)]

\* The parameters of a contract are in the path, the query or a header.
LEMMA ContractsAreFinite ==
    ASSUME ContractInv
    PROVE  /\ IsFiniteSet(operations)
           /\ \A o \in operations :
                 /\ IsFiniteSet(StatusesOf(o))
                 /\ IsFiniteSet(RequiredOf(o))
                 /\ RequiredOf(o) \subseteq contracts[o].parameters
                 /\ \A p \in RequiredOf(o) : p.in \in {"path", "query", "header"}
<1>1. IsFiniteSet(operations)
  BY DocumentsAssumption, FS_Subset DEF ContractInv
<1>2. ASSUME NEW o \in operations
      PROVE  /\ IsFiniteSet(StatusesOf(o))
             /\ IsFiniteSet(RequiredOf(o))
             /\ RequiredOf(o) \subseteq contracts[o].parameters
             /\ \A p \in RequiredOf(o) : p.in \in {"path", "query", "header"}
  <2>1. o \in HttpOperations(document) /\ contracts[o] = ContractOf(document, o)
    BY <1>2 DEF ContractInv
  <2>2. /\ IsFiniteSet(contracts[o].statuses)
        /\ IsFiniteSet(contracts[o].parameters)
    BY <2>1, DocumentsAssumption DEF ContractInv
  <2>3. RequiredOf(o) \subseteq contracts[o].parameters
    BY DEF RequiredOf, RequiredParameters
  <2>4. IsFiniteSet(RequiredOf(o))
    BY <2>2, <2>3, FS_Subset
  <2>5. ASSUME NEW p \in contracts[o].parameters
        PROVE  p.in \in {"path", "query", "header"}
    <3> DEFINE item == DeclaringItem(document, o)
               node == NodeOf(document, o)
               all  == item.parameters \o node.parameters
    <3>1. p \in MergeParameters(item.parameters, node.parameters) /\ p.in # "cookie"
      BY <2>1 DEF ContractOf
    <3>2. PICK i \in DOMAIN all :
             /\ IsParameter(all[i])
             /\ p = [in |-> all[i].in, name |-> all[i].name,
                     required |-> all[i].in = "path" \/ all[i].required]
      BY <3>1, Zenon DEF MergeParameters
    <3> QED
      BY <3>1, <3>2 DEF IsParameter, ParameterLocations
  <2> QED
    BY <2>2, <2>3, <2>4, <2>5 DEF StatusesOf
<1> QED
  BY <1>1, <1>2

LEMMA ContractInvInitially == Init => ContractInv
  BY KeysAreCanonical DEF Init, ContractInv

LEMMA ContractInvKept == ContractInv /\ [Next]_vars => ContractInv'
<1> SUFFICES ASSUME ContractInv, [Next]_vars PROVE ContractInv'
  OBVIOUS
<1>1. UNCHANGED <<document, operations, contracts>>
  BY DEF Next, Credit, Diagnose, Throw, Read, vars
<1> QED
  BY <1>1 DEF ContractInv

\* No step takes evidence away.
LEMMA EvidenceGrows ==
    ASSUME TypeOK, [Next]_vars
    PROVE  /\ UNCHANGED <<document, operations, contracts>>
           /\ \A o \in operations :
                 /\ evidence[o].suites \subseteq evidence'[o].suites
                 /\ evidence[o].statuses \subseteq evidence'[o].statuses
                 /\ evidence[o].queryKeys \subseteq evidence'[o].queryKeys
                 /\ evidence[o].headerKeys \subseteq evidence'[o].headerKeys
<1>1. UNCHANGED <<document, operations, contracts>>
  BY DEF Next, Credit, Diagnose, Throw, Read, vars
<1>2. \/ evidence' = evidence
      \/ \E event \in Events : \E o \in operations :
             evidence' = RecordOperationEvidence(o, event)
  <2>1. ASSUME NEW event \in Events, Credit(event)
        PROVE  \E o \in operations : evidence' = RecordOperationEvidence(o, event)
    BY <2>1, VerdictInScope DEF Credit
  <2> QED
    BY <2>1 DEF Next, Diagnose, Throw, vars
<1>3. ASSUME NEW event \in Events, NEW p \in operations,
             evidence' = RecordOperationEvidence(p, event), NEW o \in operations
      PROVE  /\ evidence[o].suites \subseteq evidence'[o].suites
             /\ evidence[o].statuses \subseteq evidence'[o].statuses
             /\ evidence[o].queryKeys \subseteq evidence'[o].queryKeys
             /\ evidence[o].headerKeys \subseteq evidence'[o].headerKeys
  <2> DEFINE added == [suites     |-> evidence[p].suites \cup {event.suite},
                       statuses   |-> evidence[p].statuses \cup {event.status},
                       queryKeys  |-> evidence[p].queryKeys \cup event.queryKeys,
                       headerKeys |-> evidence[p].headerKeys \cup event.headerKeys]
  <2>1. evidence \in [operations -> EvidenceType]
    BY DEF TypeOK
  <2>2. evidence' = [evidence EXCEPT ![p] = added]
    BY <1>3, <2>1 DEF RecordOperationEvidence
  <2>3. CASE o = p
    <3>1. evidence'[o] = added
      BY <2>1, <2>2, <2>3
    <3> QED
      BY <2>3, <3>1
  <2>4. CASE o # p
    <3>1. evidence'[o] = evidence[o]
      BY <2>1, <2>2, <2>4
    <3> QED
      BY <3>1
  <2> QED
    BY <2>3, <2>4
<1> QED
  BY <1>1, <1>2, <1>3

\* A covered status stays covered, default too; so does a parameter.
LEMMA HitsStay ==
    ASSUME TypeOK, ContractInv, [Next]_vars, NEW o \in operations
    PROVE  /\ StatusesOf(o)' = StatusesOf(o) /\ RequiredOf(o)' = RequiredOf(o)
           /\ StatusesHit(o) \subseteq StatusesHit(o)'
           /\ RequiredHit(o) \subseteq RequiredHit(o)'
           /\ StatusesHit(o)' \subseteq StatusesOf(o)
           /\ RequiredHit(o)' \subseteq RequiredOf(o)
           /\ StatusesHit(o) \subseteq StatusesOf(o)
           /\ RequiredHit(o) \subseteq RequiredOf(o)
           /\ Observed(o) => Observed(o)'
<1>1. contracts' = contracts /\ operations' = operations
  BY EvidenceGrows
<1>2. /\ evidence[o].suites \subseteq evidence'[o].suites
      /\ evidence[o].statuses \subseteq evidence'[o].statuses
      /\ evidence[o].queryKeys \subseteq evidence'[o].queryKeys
      /\ evidence[o].headerKeys \subseteq evidence'[o].headerKeys
  BY EvidenceGrows
<1>3. StatusesOf(o)' = StatusesOf(o) /\ RequiredOf(o)' = RequiredOf(o)
  BY <1>1 DEF StatusesOf, RequiredOf
<1>4. ASSUME NEW t \in StatusesHit(o)
      PROVE  t \in StatusesHit(o)'
  <2>1. t \in StatusesOf(o)
        /\ IsDeclaredStatusCovered(t, evidence[o].statuses, StatusesOf(o))
    BY DEF StatusesHit, CoveredStatuses
  <2>2. IsDeclaredStatusCovered(t, evidence'[o].statuses, StatusesOf(o))
    BY <1>2, <2>1 DEF IsDeclaredStatusCovered
  <2> QED
    BY <1>3, <2>1, <2>2 DEF StatusesHit, CoveredStatuses
<1>5. ASSUME NEW p \in RequiredHit(o)
      PROVE  p \in RequiredHit(o)'
  <2>1. p \in RequiredOf(o) /\ IsParameterCovered(p, evidence[o])
    BY DEF RequiredHit, RequiredOf, CoveredParameters
  <2>2. p.in \in {"path", "query", "header"}
    BY <2>1, ContractsAreFinite
  <2>3. IsParameterCovered(p, evidence'[o])
    <3>1. CASE p.in = "path"
      BY <1>2, <2>1, <3>1 DEF IsParameterCovered
    <3>2. CASE p.in = "query"
      BY <1>2, <2>1, <3>2 DEF IsParameterCovered
    <3>3. CASE p.in = "header"
      BY <1>2, <2>1, <3>3 DEF IsParameterCovered
    <3> QED
      BY <2>2, <3>1, <3>2, <3>3
  <2> QED
    BY <1>1, <2>1, <2>3 DEF RequiredHit, RequiredOf, CoveredParameters
<1>6. /\ StatusesHit(o) \subseteq StatusesOf(o)
      /\ RequiredHit(o) \subseteq RequiredOf(o)
  BY DEF StatusesHit, CoveredStatuses, RequiredHit, CoveredParameters, RequiredOf
<1>7. /\ StatusesHit(o)' \subseteq StatusesOf(o)
      /\ RequiredHit(o)' \subseteq RequiredOf(o)
  BY <1>1 DEF StatusesHit, StatusesOf, CoveredStatuses, RequiredHit,
              CoveredParameters, RequiredOf
<1>8. Observed(o) => Observed(o)'
  BY <1>2 DEF Observed
<1> QED
  BY <1>3, <1>4, <1>5, <1>6, <1>7, <1>8

-----------------------------------------------------------------------------
(* More covered is no lower percentage                                     *)

\* Rounded division keeps the order of its numerators.
LEMMA DivGrows ==
    ASSUME NEW a \in Nat, NEW b \in Nat, a <= b, NEW k \in Nat \ {0}
    PROVE  a \div k \in Nat /\ b \div k \in Nat /\ a \div k <= b \div k
  BY Z3

LEMMA DimensionGrows ==
    ASSUME NEW total \in Nat, NEW c \in Nat, NEW d \in Nat, c <= d
    PROVE  /\ SummarizeDimension(c, total) <= SummarizeDimension(d, total)
           /\ SummarizeDimension(c, total) = NotApplicable <=> total = 0
           /\ SummarizeDimension(d, total) = NotApplicable <=> total = 0
           /\ total # 0 => /\ SummarizeDimension(c, total) \in Nat
                           /\ SummarizeDimension(d, total) \in Nat
<1>1. CASE total = 0
  BY <1>1 DEF SummarizeDimension, NotApplicable
<1>2. CASE total # 0
  <2>1. /\ 20000 * c + total \in Nat /\ 20000 * d + total \in Nat
        /\ 20000 * c + total <= 20000 * d + total
        /\ 2 * total \in Nat \ {0}
    BY <1>2
  <2>2. /\ Hundredths(c, total) \in Nat /\ Hundredths(d, total) \in Nat
        /\ Hundredths(c, total) <= Hundredths(d, total)
    BY <2>1, DivGrows DEF Hundredths
  <2>3. \A n \in Nat : n # NotApplicable
    BY DEF NotApplicable
  <2> QED
    BY <1>2, <2>2, <2>3 DEF SummarizeDimension
<1> QED
  BY <1>1, <1>2

LEMMA AggregateGrows ==
    ASSUME NEW o \in Nat \cup {NotApplicable}, NEW s \in Nat \cup {NotApplicable},
           NEW p \in Nat \cup {NotApplicable},
           NEW oo \in Nat \cup {NotApplicable}, NEW ss \in Nat \cup {NotApplicable},
           NEW pp \in Nat \cup {NotApplicable},
           o <= oo, s <= ss, p <= pp,
           o = NotApplicable <=> oo = NotApplicable,
           s = NotApplicable <=> ss = NotApplicable,
           p = NotApplicable <=> pp = NotApplicable
    PROVE  SummarizeAggregate(o, s, p) <= SummarizeAggregate(oo, ss, pp)
<1>1. CASE NotApplicable \in {o, s, p}
  <2>1. NotApplicable \in {oo, ss, pp}
    BY <1>1
  <2> QED
    BY <1>1, <2>1 DEF SummarizeAggregate, NotApplicable
<1>2. CASE NotApplicable \notin {o, s, p}
  <2>1. NotApplicable \notin {oo, ss, pp}
    BY <1>2
  <2> DEFINE a == 60 * o + 25 * s + 15 * p + 50
             b == 60 * oo + 25 * ss + 15 * pp + 50
  <2>2. o \in Nat /\ s \in Nat /\ p \in Nat /\ oo \in Nat /\ ss \in Nat /\ pp \in Nat
    BY <1>2, <2>1
  <2>3. a \in Nat /\ b \in Nat /\ a <= b
    BY <2>2
  <2>4. a \div 100 <= b \div 100
    <3> HIDE DEF a, b
    <3> QED
      BY <2>3, DivGrows
  <2> QED
    BY <1>2, <2>1, <2>4 DEF SummarizeAggregate
<1> QED
  BY <1>1, <1>2

\* The numbers that the three percentages are made of.
HitCounts      == [o \in operations |-> Cardinality(StatusesHit(o))]
StatusCounts   == [o \in operations |-> Cardinality(StatusesOf(o))]
MetCounts      == [o \in operations |-> Cardinality(RequiredHit(o))]
RequiredCounts == [o \in operations |-> Cardinality(RequiredOf(o))]

LEMMA CountsGrow ==
    ASSUME TypeOK, ContractInv, [Next]_vars
    PROVE  /\ StatusCounts' = StatusCounts /\ RequiredCounts' = RequiredCounts
           /\ SumFunction(StatusCounts) \in Nat /\ SumFunction(RequiredCounts) \in Nat
           /\ SumFunction(HitCounts) \in Nat /\ SumFunction(HitCounts') \in Nat
           /\ SumFunction(HitCounts) <= SumFunction(HitCounts')
           /\ SumFunction(MetCounts) \in Nat /\ SumFunction(MetCounts') \in Nat
           /\ SumFunction(MetCounts) <= SumFunction(MetCounts')
           /\ Cardinality(operations) \in Nat /\ Cardinality(CoveredOperations) \in Nat
           /\ Cardinality(CoveredOperations') \in Nat
           /\ Cardinality(CoveredOperations) <= Cardinality(CoveredOperations')
<1>1. operations' = operations
  BY EvidenceGrows
<1>2. IsFiniteSet(operations)
  BY ContractsAreFinite
<1>3. ASSUME NEW o \in operations
      PROVE  /\ Cardinality(StatusesHit(o)) \in Nat
             /\ Cardinality(StatusesHit(o)') \in Nat
             /\ Cardinality(StatusesHit(o)) <= Cardinality(StatusesHit(o)')
             /\ Cardinality(RequiredHit(o)) \in Nat
             /\ Cardinality(RequiredHit(o)') \in Nat
             /\ Cardinality(RequiredHit(o)) <= Cardinality(RequiredHit(o)')
             /\ Cardinality(StatusesOf(o)) \in Nat
             /\ Cardinality(RequiredOf(o)) \in Nat
  <2>1. IsFiniteSet(StatusesOf(o)) /\ IsFiniteSet(RequiredOf(o))
    BY ContractsAreFinite
  <2>2. IsFiniteSet(StatusesHit(o)') /\ IsFiniteSet(RequiredHit(o)')
    BY <2>1, HitsStay, FS_Subset
  <2>3. IsFiniteSet(StatusesHit(o)) /\ IsFiniteSet(RequiredHit(o))
    BY <2>1, HitsStay, FS_Subset
  <2>4. /\ Cardinality(StatusesHit(o)) <= Cardinality(StatusesHit(o)')
        /\ Cardinality(RequiredHit(o)) <= Cardinality(RequiredHit(o)')
    BY <2>2, HitsStay, FS_Subset
  <2> QED
    BY <2>1, <2>2, <2>3, <2>4, FS_CardinalityType
<1>4. StatusCounts' = StatusCounts /\ RequiredCounts' = RequiredCounts
  BY <1>1, HitsStay DEF StatusCounts, RequiredCounts
<1>5. SumFunction(StatusCounts) \in Nat /\ SumFunction(RequiredCounts) \in Nat
  <2>1. /\ DOMAIN StatusCounts = operations /\ DOMAIN RequiredCounts = operations
        /\ \A o \in operations : StatusCounts[o] \in Nat /\ RequiredCounts[o] \in Nat
    BY <1>3 DEF StatusCounts, RequiredCounts
  <2> QED
    BY <1>2, <2>1, SumIsSumTo, SumsAreNumbers
<1>6. /\ SumFunction(HitCounts) \in Nat /\ SumFunction(HitCounts') \in Nat
      /\ SumFunction(HitCounts) <= SumFunction(HitCounts')
  <2>1. /\ DOMAIN HitCounts = operations /\ DOMAIN HitCounts' = operations
        /\ \A o \in operations : /\ HitCounts[o] = Cardinality(StatusesHit(o))
                                 /\ HitCounts'[o] = Cardinality(StatusesHit(o)')
    BY <1>1 DEF HitCounts
  <2>2. \A o \in operations : /\ HitCounts[o] \in Nat /\ HitCounts'[o] \in Nat
                              /\ HitCounts[o] <= HitCounts'[o]
    BY <1>3, <2>1
  <2> QED
    BY <1>2, <2>1, <2>2, SumFunctionGrows
<1>7. /\ SumFunction(MetCounts) \in Nat /\ SumFunction(MetCounts') \in Nat
      /\ SumFunction(MetCounts) <= SumFunction(MetCounts')
  <2>1. /\ DOMAIN MetCounts = operations /\ DOMAIN MetCounts' = operations
        /\ \A o \in operations : /\ MetCounts[o] = Cardinality(RequiredHit(o))
                                 /\ MetCounts'[o] = Cardinality(RequiredHit(o)')
    BY <1>1 DEF MetCounts
  <2>2. \A o \in operations : /\ MetCounts[o] \in Nat /\ MetCounts'[o] \in Nat
                              /\ MetCounts[o] <= MetCounts'[o]
    BY <1>3, <2>1
  <2> QED
    BY <1>2, <2>1, <2>2, SumFunctionGrows
<1>8. /\ Cardinality(operations) \in Nat /\ Cardinality(CoveredOperations) \in Nat
      /\ Cardinality(CoveredOperations') \in Nat
      /\ Cardinality(CoveredOperations) <= Cardinality(CoveredOperations')
  <2>1. /\ CoveredOperations \subseteq CoveredOperations'
        /\ CoveredOperations' \subseteq operations
        /\ CoveredOperations \subseteq operations
    BY <1>1, HitsStay DEF CoveredOperations
  <2>2. IsFiniteSet(CoveredOperations') /\ IsFiniteSet(CoveredOperations)
    BY <1>2, <2>1, FS_Subset
  <2> QED
    BY <1>2, <2>1, <2>2, FS_Subset, FS_CardinalityType
<1> QED
  BY <1>4, <1>5, <1>6, <1>7, <1>8

LEMMA StepNeverShrinks ==
    ASSUME TypeOK, ContractInv, [Next]_vars
    PROVE  /\ OperationsPercent <= OperationsPercent'
           /\ StatusPercent <= StatusPercent'
           /\ ParametersPercent <= ParametersPercent'
           /\ AggregatePercent <= AggregatePercent'
           /\ \A o \in operations : StatusesHit(o) \subseteq StatusesHit(o)'
<1> DEFINE o == OperationsPercent
           s == StatusPercent
           p == ParametersPercent
<1>1. /\ o = SummarizeDimension(Cardinality(CoveredOperations), Cardinality(operations))
      /\ o' = SummarizeDimension(Cardinality(CoveredOperations'), Cardinality(operations))
  BY EvidenceGrows DEF OperationsPercent
<1>2. /\ s = SummarizeDimension(SumFunction(HitCounts), SumFunction(StatusCounts))
      /\ s' = SummarizeDimension(SumFunction(HitCounts'), SumFunction(StatusCounts))
  <2>1. s = SummarizeDimension(SumFunction(HitCounts), SumFunction(StatusCounts))
    BY DEF StatusPercent, HitCounts, StatusCounts
  <2>2. s' = SummarizeDimension(SumFunction(HitCounts'), SumFunction(StatusCounts'))
    BY DEF StatusPercent, HitCounts, StatusCounts
  <2> QED
    BY <2>1, <2>2, CountsGrow
<1>3. /\ p = SummarizeDimension(SumFunction(MetCounts), SumFunction(RequiredCounts))
      /\ p' = SummarizeDimension(SumFunction(MetCounts'), SumFunction(RequiredCounts))
  <2>1. p = SummarizeDimension(SumFunction(MetCounts), SumFunction(RequiredCounts))
    BY DEF ParametersPercent, MetCounts, RequiredCounts
  <2>2. p' = SummarizeDimension(SumFunction(MetCounts'), SumFunction(RequiredCounts'))
    BY DEF ParametersPercent, MetCounts, RequiredCounts
  <2> QED
    BY <2>1, <2>2, CountsGrow
<1> HIDE DEF o, s, p
<1>4. /\ o <= o' /\ (o = NotApplicable <=> o' = NotApplicable)
      /\ o \in Nat \cup {NotApplicable} /\ o' \in Nat \cup {NotApplicable}
  BY <1>1, CountsGrow, DimensionGrows
<1>5. /\ s <= s' /\ (s = NotApplicable <=> s' = NotApplicable)
      /\ s \in Nat \cup {NotApplicable} /\ s' \in Nat \cup {NotApplicable}
  BY <1>2, CountsGrow, DimensionGrows
<1>6. /\ p <= p' /\ (p = NotApplicable <=> p' = NotApplicable)
      /\ p \in Nat \cup {NotApplicable} /\ p' \in Nat \cup {NotApplicable}
  BY <1>3, CountsGrow, DimensionGrows
<1>7. SummarizeAggregate(o, s, p) <= SummarizeAggregate(o', s', p')
  BY <1>4, <1>5, <1>6, AggregateGrows
<1>8. AggregatePercent <= AggregatePercent'
  BY <1>7 DEF AggregatePercent, o, s, p
<1>9. \A q \in operations : StatusesHit(q) \subseteq StatusesHit(q)'
  BY HitsStay
<1> QED
  BY <1>4, <1>5, <1>6, <1>8, <1>9 DEF o, s, p

\* One more event never lowers a percentage, whatever the document, the
\* exclusions and the log: recordOperationEvidence only adds, and rounding
\* keeps the order (computeDimensionSummaries).
THEOREM CoverageGrows == Spec => CoverageNeverShrinks
<1>1. Init => CoverageInv /\ ContractInv
  BY InitEstablishes, ContractInvInitially
<1>2. CoverageInv /\ ContractInv /\ [Next]_vars => CoverageInv' /\ ContractInv'
  BY StepPreserves, ContractInvKept
<1>3. CoverageInv /\ ContractInv /\ [Next]_vars =>
        [/\ OperationsPercent <= OperationsPercent'
         /\ StatusPercent <= StatusPercent'
         /\ ParametersPercent <= ParametersPercent'
         /\ AggregatePercent <= AggregatePercent'
         /\ \A o \in operations : StatusesHit(o) \subseteq StatusesHit(o)']_vars
  BY StepNeverShrinks DEF CoverageInv
<1> QED
  BY <1>1, <1>2, <1>3, PTL DEF Spec, CoverageNeverShrinks

-----------------------------------------------------------------------------
(* The summaries are exact                                                 *)

\* Sums of sizes tell whether anything is declared, and whether any of it is
\* missing.
LEMMA CountsTell ==
    ASSUME NEW S, IsFiniteSet(S), NEW whole, NEW part,
           \A o \in S : IsFiniteSet(whole[o]) /\ part[o] \subseteq whole[o],
           NEW total, total = SumFunction([o \in S |-> Cardinality(whole[o])]),
           NEW covered, covered = SumFunction([o \in S |-> Cardinality(part[o])])
    PROVE  /\ total \in Nat /\ covered \in 0..total
           /\ total # 0 <=> \E o \in S : whole[o] # {}
           /\ covered = total <=> \A o \in S : part[o] = whole[o]
<1> DEFINE w == [o \in S |-> Cardinality(whole[o])]
           p == [o \in S |-> Cardinality(part[o])]
<1>1. ASSUME NEW o \in S
      PROVE  /\ p[o] \in Nat /\ w[o] \in Nat /\ p[o] <= w[o]
             /\ w[o] = 0 <=> whole[o] = {}
             /\ p[o] = w[o] <=> part[o] = whole[o]
  <2>1. IsFiniteSet(part[o])
    BY <1>1, FS_Subset
  <2>2. /\ Cardinality(part[o]) <= Cardinality(whole[o])
        /\ Cardinality(part[o]) = Cardinality(whole[o]) => part[o] = whole[o]
    BY <1>1, FS_Subset
  <2>3. Cardinality(part[o]) \in Nat /\ Cardinality(whole[o]) \in Nat
    BY <1>1, <2>1, FS_CardinalityType
  <2>4. Cardinality(whole[o]) = 0 <=> whole[o] = {}
    BY <1>1, FS_EmptySet
  <2> QED
    BY <1>1, <2>2, <2>3, <2>4
<1>2. DOMAIN w = S /\ DOMAIN p = S
  OBVIOUS
<1>3. total = SumFunction(w) /\ covered = SumFunction(p)
  OBVIOUS
<1>4. (\A o \in S : part[o] = whole[o]) => p = w
  OBVIOUS
<1> HIDE DEF w, p
<1>5. /\ SumFunction(p) \in Nat /\ SumFunction(w) \in Nat
      /\ SumFunction(p) <= SumFunction(w)
      /\ SumFunction(p) = SumFunction(w) => \A o \in S : p[o] = w[o]
  BY <1>1, <1>2, SumFunctionGrows
<1>6. SumFunction(w) = 0 <=> \A o \in S : w[o] = 0
  BY <1>1, <1>2, SumOfNothing
<1>7. total \in Nat /\ covered \in 0..total
  BY <1>3, <1>5
<1>8. total # 0 <=> \E o \in S : whole[o] # {}
  BY <1>1, <1>3, <1>6
<1>9. covered = total <=> \A o \in S : part[o] = whole[o]
  BY <1>1, <1>3, <1>4, <1>5
<1> QED
  BY <1>7, <1>8, <1>9

\* A dimension's state, also when nothing is declared.
LEMMA DimensionState ==
    ASSUME NEW total \in 0..MostOperations, NEW covered \in 0..total,
           NEW percent, percent = SummarizeDimension(covered, total)
    PROVE  /\ percent \in 0..FullPercent \cup {NotApplicable}
           /\ percent = NotApplicable <=> total = 0
           /\ StateFromPercent(percent) = "N/A" <=> total = 0
           /\ StateFromPercent(percent) = "COVERED" <=> total # 0 /\ covered = total
           /\ total # 0 /\ covered = total => percent = FullPercent
<1>1. CASE total = 0
  <2>1. percent = NotApplicable
    BY <1>1 DEF SummarizeDimension
  <2> QED
    BY <1>1, <2>1 DEF StateFromPercent
<1>2. CASE total # 0
  <2>1. total \in 1..MostOperations /\ total \in Nat \ {0}
    BY <1>2 DEF MostOperations
  <2>2. percent = Hundredths(covered, total)
    BY <1>2 DEF SummarizeDimension
  <2>3. /\ covered = total => percent = FullPercent
        /\ covered # total => percent \in 0..(FullPercent - 1)
    <3>1. 1 \in 1..4 /\ (2 * 1 - 1) * total < 20000
      BY <2>1 DEF MostOperations
    <3> QED
      BY <2>1, <2>2, <3>1, RoundingShowsGap
  <2>4. percent \in 0..FullPercent
    <3>1. percent = FullPercent \/ percent \in 0..(FullPercent - 1)
      BY <2>3
    <3> QED
      BY <3>1 DEF FullPercent
  <2>5. percent # NotApplicable
    BY <2>4 DEF NotApplicable
  <2>6. StateFromPercent(percent) # "N/A"
    BY <2>5 DEF StateFromPercent
  <2>7. StateFromPercent(percent) = "COVERED" <=> covered = total
    <3>1. StateFromPercent(SummarizeDimension(covered, total)) = "COVERED"
            <=> covered = total
      BY <2>1, CoveredMeansNothingMissing
    <3> QED
      BY <3>1
  <2> QED
    BY <1>2, <2>3, <2>4, <2>5, <2>6, <2>7
<1> QED
  BY <1>1, <1>2

\* What the aggregate says of three dimensions that say everything.
LEMMA AggregateState ==
    ASSUME NEW o \in 0..FullPercent \cup {NotApplicable},
           NEW s \in 0..FullPercent \cup {NotApplicable},
           NEW p \in 0..FullPercent \cup {NotApplicable},
           NEW aggregate, aggregate = SummarizeAggregate(o, s, p)
    PROVE  /\ StateFromPercent(aggregate) = "N/A" <=> NotApplicable \in {o, s, p}
           /\ o = FullPercent /\ s = FullPercent /\ p = FullPercent =>
                 StateFromPercent(aggregate) = "COVERED"
<1>1. CASE NotApplicable \in {o, s, p}
  <2>1. aggregate = NotApplicable
    BY <1>1 DEF SummarizeAggregate
  <2>2. FullPercent # NotApplicable
    BY DEF FullPercent, NotApplicable
  <2> QED
    BY <1>1, <2>1, <2>2 DEF StateFromPercent
<1>2. CASE NotApplicable \notin {o, s, p}
  <2> DEFINE weighted == 60 * o + 25 * s + 15 * p + 50
  <2>1. o \in Nat /\ s \in Nat /\ p \in Nat
    BY <1>2
  <2>2. weighted \in Nat
    BY <2>1
  <2>3. aggregate = weighted \div 100
    BY <1>2 DEF SummarizeAggregate
  <2>4. aggregate \in Nat
    <3> HIDE DEF weighted
    <3> QED
      BY <2>2, <2>3, DivGrows
  <2>5. aggregate # NotApplicable
    BY <2>4 DEF NotApplicable
  <2>6. StateFromPercent(aggregate) # "N/A"
    BY <2>5 DEF StateFromPercent
  <2>7. ASSUME o = FullPercent, s = FullPercent, p = FullPercent
        PROVE  StateFromPercent(aggregate) = "COVERED"
    <3>1. aggregate = FullPercent
      BY <2>3, <2>7 DEF FullPercent
    <3> QED
      BY <2>5, <3>1 DEF StateFromPercent, FullPercent
  <2> QED
    BY <1>2, <2>6, <2>7
<1> QED
  BY <1>1, <1>2

\* The sizes within which two rounded decimals hide nothing.  (Beyond them one
\* missing status among many may still read 100%.)
WithinRounding ==
    \A doc \in {d \in Documents : ~HasInvalid(d)} :
        \A scope \in SUBSET HttpOperations(doc) :
            /\ Cardinality(scope) <= MostOperations
            /\ SumFunction([o \in scope |->
                   Cardinality(ContractOf(doc, o).statuses)]) <= MostStatuses
            /\ SumFunction([o \in scope |->
                   Cardinality(RequiredParameters(ContractOf(doc, o).parameters))])
                 <= MostParameters

\* What is written in an accepted document and in scope is scored.
LEMMA WrittenInScope == ContractInv => WrittenOperations = operations
<1> SUFFICES ASSUME ContractInv PROVE WrittenOperations = operations
  OBVIOUS
<1> DEFINE written ==
             UNION {{KeyOf(document, i, m) : m \in DOMAIN document.items[i].operations} :
                       i \in DOMAIN document.items}
<1>1. WrittenOperations = written \ Excluded
  BY DEF WrittenOperations
<1>2. written = HttpOperations(document)
  BY AcceptedDocumentsLoseNothing DEF ContractInv
<1> HIDE DEF written
<1>3. Excluded = HttpOperations(document) \ operations
  BY KeysAreCanonical DEF Excluded
<1> QED
  BY <1>1, <1>2, <1>3 DEF ContractInv

LEMMA SummariesExact ==
    ASSUME ContractInv, WithinRounding
    PROVE  SummariesMatchOperations
<1> DEFINE declared == Cardinality(operations)
           observed == Cardinality(CoveredOperations)
           whole    == [o \in operations |-> StatusesOf(o)]
           part     == [o \in operations |-> StatusesHit(o)]
           statuses == SumFunction([o \in operations |-> Cardinality(whole[o])])
           hit      == SumFunction([o \in operations |-> Cardinality(part[o])])
           all      == [o \in operations |-> RequiredOf(o)]
           met      == [o \in operations |-> RequiredHit(o)]
           required == SumFunction([o \in operations |-> Cardinality(all[o])])
           found    == SumFunction([o \in operations |-> Cardinality(met[o])])
<1>0. IsFiniteSet(operations)
  BY ContractsAreFinite
<1>1. WrittenOperations = operations
  BY WrittenInScope
<1>2. /\ declared \in 0..MostOperations /\ observed \in 0..declared
      /\ declared # 0 <=> operations # {}
      /\ observed = declared <=> CoveredOperations = operations
  <2>1. CoveredOperations \subseteq operations
    BY DEF CoveredOperations
  <2>2. /\ observed <= declared
        /\ declared = observed => operations = CoveredOperations
        /\ IsFiniteSet(CoveredOperations)
    BY <1>0, <2>1, FS_Subset
  <2>3. declared \in Nat /\ observed \in Nat
    BY <1>0, <2>2, FS_CardinalityType
  <2>4. declared # 0 <=> operations # {}
    BY <1>0, FS_EmptySet
  <2>5. declared <= MostOperations
    <3>1. /\ document \in {d \in Documents : ~HasInvalid(d)}
          /\ operations \in SUBSET HttpOperations(document)
      BY DEF ContractInv
    <3> QED
      BY <3>1 DEF WithinRounding
  <2> HIDE DEF declared, observed
  <2>6. declared \in 0..MostOperations /\ observed \in 0..declared
    BY <2>2, <2>3, <2>5
  <2>7. CoveredOperations = operations => observed = declared
    BY DEF observed, declared
  <2> QED
    BY <2>2, <2>4, <2>6, <2>7
<1>3. /\ \A o \in operations : IsFiniteSet(whole[o]) /\ part[o] \subseteq whole[o]
      /\ \A o \in operations : IsFiniteSet(all[o]) /\ met[o] \subseteq all[o]
  BY ContractsAreFinite DEF StatusesHit, CoveredStatuses, RequiredHit,
                            CoveredParameters, RequiredOf
<1>4. /\ \A o \in operations : whole[o] = StatusesOf(o) /\ part[o] = StatusesHit(o)
      /\ \A o \in operations : all[o] = RequiredOf(o) /\ met[o] = RequiredHit(o)
  OBVIOUS
<1>5. /\ statuses = SumFunction([o \in operations |-> Cardinality(StatusesOf(o))])
      /\ hit      = SumFunction([o \in operations |-> Cardinality(StatusesHit(o))])
      /\ required = SumFunction([o \in operations |-> Cardinality(RequiredOf(o))])
      /\ found    = SumFunction([o \in operations |-> Cardinality(RequiredHit(o))])
  <2>1. /\ [o \in operations |-> Cardinality(whole[o])]
             = [o \in operations |-> Cardinality(StatusesOf(o))]
        /\ [o \in operations |-> Cardinality(part[o])]
             = [o \in operations |-> Cardinality(StatusesHit(o))]
        /\ [o \in operations |-> Cardinality(all[o])]
             = [o \in operations |-> Cardinality(RequiredOf(o))]
        /\ [o \in operations |-> Cardinality(met[o])]
             = [o \in operations |-> Cardinality(RequiredHit(o))]
    OBVIOUS
  <2> QED
    BY <2>1
<1>6. statuses <= MostStatuses /\ required <= MostParameters
  <2>1. /\ [o \in operations |-> Cardinality(StatusesOf(o))]
             = [o \in operations |-> Cardinality(ContractOf(document, o).statuses)]
        /\ [o \in operations |-> Cardinality(RequiredOf(o))]
             = [o \in operations |->
                   Cardinality(RequiredParameters(ContractOf(document, o).parameters))]
    BY DEF ContractInv, StatusesOf, RequiredOf
  <2>2. /\ SumFunction([o \in operations |->
               Cardinality(ContractOf(document, o).statuses)]) <= MostStatuses
        /\ SumFunction([o \in operations |->
               Cardinality(RequiredParameters(ContractOf(document, o).parameters))])
             <= MostParameters
    BY DEF ContractInv, WithinRounding
  <2> QED
    BY <1>5, <2>1, <2>2
<1> HIDE DEF declared, observed, whole, part, all, met
<1>7. /\ statuses \in Nat /\ hit \in 0..statuses
      /\ statuses # 0 <=> \E o \in operations : whole[o] # {}
      /\ hit = statuses <=> \A o \in operations : part[o] = whole[o]
  <2>1. \A o \in operations : IsFiniteSet(whole[o]) /\ part[o] \subseteq whole[o]
    BY <1>3
  <2> QED
    BY <1>0, <2>1, CountsTell
<1> HIDE DEF statuses, hit
<1>8. /\ required \in Nat /\ found \in 0..required
      /\ required # 0 <=> \E o \in operations : all[o] # {}
      /\ found = required <=> \A o \in operations : met[o] = all[o]
  <2>1. \A o \in operations : IsFiniteSet(all[o]) /\ met[o] \subseteq all[o]
    BY <1>3
  <2> QED
    BY <1>0, <2>1, CountsTell
<1> HIDE DEF required, found
<1>9. /\ OperationsPercent = SummarizeDimension(observed, declared)
      /\ StatusPercent = SummarizeDimension(hit, statuses)
      /\ ParametersPercent = SummarizeDimension(found, required)
  BY <1>5 DEF OperationsPercent, StatusPercent, ParametersPercent, observed, declared
<1>10. statuses \in 0..MostOperations /\ required \in 0..MostOperations
  <2>1. /\ \A n \in Nat : n <= MostStatuses => n <= MostOperations
        /\ \A n \in Nat : n <= MostParameters => n <= MostOperations
    BY DEF MostOperations, MostStatuses, MostParameters
  <2>2. /\ statuses \in Nat /\ statuses <= MostOperations
        /\ required \in Nat /\ required <= MostOperations
    BY <1>6, <1>7, <1>8, <2>1
  <2> QED
    BY <2>2
<1>11. /\ OperationsPercent \in 0..FullPercent \cup {NotApplicable}
       /\ OperationsPercent = NotApplicable <=> declared = 0
       /\ StateFromPercent(OperationsPercent) = "N/A" <=> declared = 0
       /\ StateFromPercent(OperationsPercent) = "COVERED" <=>
             declared # 0 /\ observed = declared
       /\ declared # 0 /\ observed = declared => OperationsPercent = FullPercent
  BY <1>2, <1>9, DimensionState
<1>12. /\ StatusPercent \in 0..FullPercent \cup {NotApplicable}
       /\ StatusPercent = NotApplicable <=> statuses = 0
       /\ StateFromPercent(StatusPercent) = "N/A" <=> statuses = 0
       /\ StateFromPercent(StatusPercent) = "COVERED" <=>
             statuses # 0 /\ hit = statuses
       /\ statuses # 0 /\ hit = statuses => StatusPercent = FullPercent
  BY <1>7, <1>9, <1>10, DimensionState
<1>13. /\ ParametersPercent \in 0..FullPercent \cup {NotApplicable}
       /\ ParametersPercent = NotApplicable <=> required = 0
       /\ StateFromPercent(ParametersPercent) = "N/A" <=> required = 0
       /\ StateFromPercent(ParametersPercent) = "COVERED" <=>
             required # 0 /\ found = required
       /\ required # 0 /\ found = required => ParametersPercent = FullPercent
  BY <1>8, <1>9, <1>10, DimensionState
<1>14. AggregatePercent
         = SummarizeAggregate(OperationsPercent, StatusPercent, ParametersPercent)
  BY DEF AggregatePercent
<1>15. /\ StateFromPercent(AggregatePercent) = "N/A" <=>
             NotApplicable \in {OperationsPercent, StatusPercent, ParametersPercent}
       /\ OperationsPercent = FullPercent /\ StatusPercent = FullPercent
             /\ ParametersPercent = FullPercent =>
             StateFromPercent(AggregatePercent) = "COVERED"
  BY <1>11, <1>12, <1>13, <1>14, AggregateState
<1>16. ASSUME StateFromPercent(AggregatePercent) = "COVERED"
       PROVE  /\ declared # 0 /\ observed = declared
              /\ statuses # 0 /\ hit = statuses
              /\ required # 0 /\ found = required
  <2>1. declared # 0 /\ statuses # 0 /\ required # 0
    BY <1>11, <1>12, <1>13, <1>15, <1>16
  <2>2. /\ declared \in 1..MostOperations /\ statuses \in 1..MostStatuses /\ required \in 1..MostParameters
        /\ observed \in 0..declared /\ hit \in 0..statuses /\ found \in 0..required
    BY <1>2, <1>6, <1>7, <1>8, <2>1
  <2>3. StateFromPercent(SummarizeAggregate(
            SummarizeDimension(observed, declared),
            SummarizeDimension(hit, statuses),
            SummarizeDimension(found, required))) = "COVERED"
    BY <1>9, <1>14, <1>16
  <2> QED
    BY <2>1, <2>2, <2>3, AggregateCoveredMeansNothingMissing
<1> DEFINE op == StateFromPercent(OperationsPercent)
           st == StateFromPercent(StatusPercent)
           pa == StateFromPercent(ParametersPercent)
           ag == StateFromPercent(AggregatePercent)
<1>17. op = "COVERED" <=> WrittenOperations # {} /\ CoveredOperations = WrittenOperations
  BY <1>1, <1>2, <1>11
<1>18. AllOf(st, StatusesOf, StatusesHit)
  BY <1>4, <1>7, <1>12 DEF AllOf
<1>19. AllOf(pa, RequiredOf, RequiredHit)
  BY <1>4, <1>8, <1>13 DEF AllOf
<1>20. ag = "COVERED" <=> {op, st, pa} = {"COVERED"}
  <2>1. ag = "COVERED" <=> op = "COVERED" /\ st = "COVERED" /\ pa = "COVERED"
    BY <1>11, <1>12, <1>13, <1>15, <1>16
  <2> HIDE DEF op, st, pa, ag
  <2> QED
    BY <2>1
<1>21. ag = "N/A" <=> "N/A" \in {op, st, pa}
  BY <1>11, <1>12, <1>13, <1>15
<1> QED
  BY <1>17, <1>18, <1>19, <1>20, <1>21 DEF SummariesMatchOperations

\* COVERED means that nothing that is written in the document and in scope is
\* missing, and N/A that nothing was declared: computeDimensionSummaries and
\* summarizeAggregate, for every document that the rounding can tell apart.
THEOREM SummariesAreExact ==
    ASSUME WithinRounding
    PROVE  Spec => []SummariesMatchOperations
<1>1. Init => ContractInv
  BY ContractInvInitially
<1>2. ContractInv /\ [Next]_vars => ContractInv'
  BY ContractInvKept
<1>3. ContractInv => SummariesMatchOperations
  BY SummariesExact
<1> QED
  BY <1>1, <1>2, <1>3, PTL DEF Spec

-----------------------------------------------------------------------------
(* Both runtimes                                                           *)

\* What FlattenSeq concatenates up to each place.
FlattenUpTo(seqs) ==
    CHOOSE upTo : upTo = [i \in 1..Len(seqs) |->
        IF i = 1 THEN seqs[i] ELSE upTo[i - 1] \o seqs[i]]

LEMMA FlattenIsUpTo ==
    ASSUME NEW seqs
    PROVE  FlattenSeq(seqs) = IF Len(seqs) = 0 THEN seqs
                              ELSE FlattenUpTo(seqs)[Len(seqs)]
  BY DEF FlattenSeq, FlattenUpTo

LEMMA FlattenUpToExists ==
    ASSUME NEW seqs, NEW n \in Nat
    PROVE  \E upTo : upTo = [i \in 1..n |->
               IF i = 1 THEN seqs[i] ELSE upTo[i - 1] \o seqs[i]]
<1> DEFINE Joins(g, k) == g = [i \in 1..k |->
                                 IF i = 1 THEN seqs[i] ELSE g[i - 1] \o seqs[i]]
           N == {k \in Nat : \E g : Joins(g, k)}
<1>1. 0 \in N
  <2> DEFINE g == [i \in 1..0 |-> seqs]
  <2>1. \A i \in 1..0 : FALSE
    OBVIOUS
  <2>2. Joins(g, 0)
    BY <2>1
  <2> QED
    BY <2>2
<1>2. ASSUME NEW k \in Nat, NEW g, Joins(g, k)
      PROVE  \E h : Joins(h, k + 1)
  <2> DEFINE h == [i \in 1..(k + 1) |->
                     IF i = 1 THEN seqs[i] ELSE g[i - 1] \o seqs[i]]
  <2>1. ASSUME NEW i \in 1..k PROVE h[i] = g[i]
    <3>1. i \in 1..(k + 1)
      OBVIOUS
    <3>2. g[i] = IF i = 1 THEN seqs[i] ELSE g[i - 1] \o seqs[i]
      BY <1>2
    <3> QED
      BY <3>1, <3>2
  <2>2. ASSUME NEW i \in 1..(k + 1)
        PROVE  h[i] = IF i = 1 THEN seqs[i] ELSE h[i - 1] \o seqs[i]
    <3>1. CASE i = 1
      BY <3>1
    <3>2. CASE i # 1
      <4>1. i - 1 \in 1..k
        BY <3>2
      <4>2. h[i - 1] = g[i - 1]
        BY <2>1, <4>1
      <4> QED
        BY <3>2, <4>2
    <3> QED
      BY <3>1, <3>2
  <2>3. Joins(h, k + 1)
    BY <2>2
  <2> QED
    BY <2>3
<1>3. \A k \in N : k + 1 \in N
  <2> HIDE DEF Joins
  <2> QED
    BY <1>2
<1>4. N = Nat
  <2> HIDE DEF N
  <2>1. N \in SUBSET Nat
    BY DEF N
  <2> QED
    BY <1>1, <1>3, <2>1, NumbersByStep
<1>5. n \in N
  BY <1>4
<1> QED
  BY <1>5

LEMMA FlattenUpToIs ==
    ASSUME NEW seqs, Len(seqs) \in Nat
    PROVE  \A i \in 1..Len(seqs) :
             /\ i = 1 => FlattenUpTo(seqs)[i] = seqs[i]
             /\ i # 1 => \A k \in Nat : i - 1 = k =>
                  FlattenUpTo(seqs)[i] = FlattenUpTo(seqs)[k] \o seqs[i]
<1>1. \E upTo : upTo = [i \in 1..Len(seqs) |->
         IF i = 1 THEN seqs[i] ELSE upTo[i - 1] \o seqs[i]]
  BY FlattenUpToExists
<1> DEFINE flat == FlattenUpTo(seqs)
<1>2. flat = [i \in 1..Len(seqs) |->
                IF i = 1 THEN seqs[i] ELSE flat[i - 1] \o seqs[i]]
  BY <1>1, Zenon DEF FlattenUpTo
<1> HIDE DEF flat
<1>3. \A i \in 1..Len(seqs) :
         /\ i = 1 => flat[i] = seqs[i]
         /\ i # 1 => flat[i] = flat[i - 1] \o seqs[i]
  BY <1>2
<1> QED
  BY <1>3 DEF flat

\* Sequences of sequences that begin alike are flattened alike so far.
LEMMA FlattenAlike ==
    ASSUME NEW s, NEW t, Len(s) \in Nat, Len(t) \in Nat, Len(s) <= Len(t),
           \A i \in 1..Len(s) : s[i] = t[i]
    PROVE  \A i \in 1..Len(s) : FlattenUpTo(s)[i] = FlattenUpTo(t)[i]
<1> DEFINE N == {k \in Nat : k \in 1..Len(s) => FlattenUpTo(s)[k] = FlattenUpTo(t)[k]}
<1>1. 0 \in N
  OBVIOUS
<1>2. ASSUME NEW k \in N, NEW j, j = k + 1, j \in 1..Len(s)
      PROVE  FlattenUpTo(s)[j] = FlattenUpTo(t)[j]
  <2>1. j \in 1..Len(t) /\ s[j] = t[j] /\ k \in Nat /\ j - 1 = k
    BY <1>2
  <2>2. /\ j = 1 => FlattenUpTo(s)[j] = s[j]
        /\ j # 1 => FlattenUpTo(s)[j] = FlattenUpTo(s)[k] \o s[j]
    BY <1>2, <2>1, FlattenUpToIs
  <2>3. /\ j = 1 => FlattenUpTo(t)[j] = t[j]
        /\ j # 1 => FlattenUpTo(t)[j] = FlattenUpTo(t)[k] \o t[j]
    BY <2>1, FlattenUpToIs
  <2>4. CASE j = 1
    BY <2>1, <2>2, <2>3, <2>4
  <2>5. CASE j # 1
    <3>1. k \in 1..Len(s)
      BY <1>2, <2>1, <2>5
    <3>2. FlattenUpTo(s)[k] = FlattenUpTo(t)[k]
      BY <1>2, <3>1
    <3> QED
      BY <2>1, <2>2, <2>3, <2>5, <3>2
  <2> QED
    BY <2>4, <2>5
<1>3. N = Nat
  <2>1. \A k \in N : k + 1 \in N
    BY <1>2
  <2> HIDE DEF N
  <2>2. N \in SUBSET Nat
    BY DEF N
  <2> QED
    BY <1>1, <2>1, <2>2, NumbersByStep
<1> QED
  BY <1>3

\* Flattening one sequence more adds it at the end.
LEMMA FlattenOneMore ==
    ASSUME NEW S, NEW s \in Seq(Seq(S)), NEW x \in Seq(S),
           NEW t, t = Append(s, x)
    PROVE  FlattenSeq(t) = FlattenSeq(s) \o x
<1>1. /\ Len(s) \in Nat /\ Len(t) = Len(s) + 1 /\ Len(t) \in Nat /\ Len(t) # 0
      /\ Len(s) <= Len(t) /\ Len(t) \in 1..Len(t) /\ Len(t) - 1 = Len(s)
      /\ t[Len(t)] = x
      /\ \A i \in 1..Len(s) : s[i] = t[i]
  OBVIOUS
<1>2. FlattenSeq(t) = FlattenUpTo(t)[Len(t)]
  BY <1>1, FlattenIsUpTo
<1>3. /\ Len(t) = 1 => FlattenUpTo(t)[Len(t)] = x
      /\ Len(t) # 1 => FlattenUpTo(t)[Len(t)] = FlattenUpTo(t)[Len(s)] \o x
  BY <1>1, FlattenUpToIs
<1>4. CASE Len(s) = 0
  <2>1. Len(t) = 1
    BY <1>1, <1>4
  <2>2. FlattenSeq(s) = s
    BY <1>4, FlattenIsUpTo
  <2>3. s = <<>> /\ <<>> \o x = x
    BY <1>4
  <2> QED
    BY <1>2, <1>3, <2>1, <2>2, <2>3
<1>5. CASE Len(s) # 0
  <2>1. Len(t) # 1 /\ Len(s) \in 1..Len(s)
    BY <1>1, <1>5
  <2>2. FlattenSeq(s) = FlattenUpTo(s)[Len(s)]
    BY <1>5, FlattenIsUpTo
  <2>3. FlattenUpTo(s)[Len(s)] = FlattenUpTo(t)[Len(s)]
    BY <1>1, <2>1, FlattenAlike
  <2> QED
    BY <1>2, <1>3, <2>1, <2>2, <2>3
<1> QED
  BY <1>4, <1>5

\* On plain routes a template fits a route in one runtime as in the other.
LEMMA PlainMatchesAlike ==
    ASSUME NEW template \in Route, NEW route \in Route,
           NormalizeTemplatedRoute(template) = template,
           Plain(template), Plain(route)
    PROVE  TemplateMatches(template, route) <=> JavaTemplateMatches(template, route)
<1>1. template = [segments |-> [i \in DOMAIN template.segments |->
                     IF template.segments[i] \in Parameters THEN CanonicalParameter
                     ELSE template.segments[i]],
                  slash |-> template.slash]
  BY DEF NormalizeTemplatedRoute
<1>2. \A i \in DOMAIN template.segments :
         template.segments[i] \in Parameters => template.segments[i] = CanonicalParameter
  BY <1>1
<1>3. ~template.slash /\ ~route.slash
  BY DEF Plain
<1>4. template.slash = route.slash
  BY <1>3 DEF Route
<1>5. /\ \A i \in DOMAIN template.segments :
            CaseFold[template.segments[i]] = template.segments[i]
      /\ \A i \in DOMAIN route.segments : CaseFold[route.segments[i]] = route.segments[i]
  BY DEF Plain
<1>6. Len(template.segments) = Len(route.segments) =>
        DOMAIN template.segments = DOMAIN route.segments
  BY DEF Route
<1> QED
  BY <1>2, <1>3, <1>4, <1>5, <1>6, MatchingAssumption
     DEF TemplateMatches, JavaTemplateMatches

\* On plain routes both runtimes resolve an event alike, and nothing throws.
LEMMA PlainResolvesAlike ==
    ASSUME NEW scope, NEW event, event.route \in Route, Plain(event.route),
           \A o \in scope : /\ o.route \in Route /\ Plain(o.route)
                             /\ CanonicalOperation(o) = o
    PROVE  /\ ResolveOperation(scope, event) = JavaMatch(scope, event)
           /\ ResolveOperation(scope, event).kind # "throws"
           /\ ResolveOperation(scope, event).kind = "matched" =>
                \E o \in scope : ResolveOperation(scope, event).operations = {o}
<1> DEFINE ours   == FallbackCandidates(scope, event)
           theirs == {o \in scope : /\ o.method = event.method
                                    /\ IsTemplate(o.route)
                                    /\ JavaTemplateMatches(o.route, event.route)}
<1>1. \A o \in scope : NormalizeTemplatedRoute(o.route) = o.route
  BY DEF CanonicalOperation
<1>2. \A o \in scope : TemplateMatches(o.route, event.route)
                          <=> JavaTemplateMatches(o.route, event.route)
  BY <1>1, PlainMatchesAlike
<1>3. ours = theirs
  BY <1>2 DEF FallbackCandidates
<1>4. ~DecodingThrows(ours, event)
  <2> SUFFICES ASSUME NEW o \in scope, TemplateMatches(o.route, event.route),
                      NEW i \in DOMAIN o.route.segments,
                      event.route.segments[i] \in Undecodable
               PROVE  FALSE
    BY DEF DecodingThrows, FallbackCandidates
  <2>1. i \in DOMAIN event.route.segments
    BY DEF TemplateMatches, Route
  <2> QED
    BY <2>1 DEF Plain
<1>5. JavaMatch(scope, event) = IF OperationOf(event) \in scope
                                THEN Verdict("matched", {OperationOf(event)})
                                ELSE VerdictOf(theirs)
  BY DEF JavaMatch
<1>6. ResolveOperation(scope, event) = IF OperationOf(event) \in scope
                                       THEN Verdict("matched", {OperationOf(event)})
                                       ELSE VerdictOf(ours)
  BY <1>4 DEF ResolveOperation
<1>7. ours \subseteq scope
  BY DEF FallbackCandidates
<1> HIDE DEF ours, theirs
<1>8. ResolveOperation(scope, event) = JavaMatch(scope, event)
  BY <1>3, <1>5, <1>6
<1>9. /\ VerdictOf(ours).kind # "throws"
      /\ VerdictOf(ours).kind = "matched" =>
           \E o \in scope : VerdictOf(ours).operations = {o}
  BY <1>7 DEF VerdictOf, Verdict
<1>10. CASE OperationOf(event) \in scope
  BY <1>6, <1>8, <1>10 DEF Verdict
<1>11. CASE OperationOf(event) \notin scope
  BY <1>6, <1>8, <1>9, <1>11
<1> QED
  BY <1>10, <1>11

\* What the Java core reads of the document is what the analyzer has in scope.
LEMMA JavaScope ==
    ASSUME ContractInv
    PROVE  JavaOperations(document) \ Excluded = operations
<1>1. JavaOperations(document) = HttpOperations(document)
  BY AcceptedDocumentsLoseNothing DEF ContractInv
<1>2. Excluded = HttpOperations(document) \ operations
  BY KeysAreCanonical DEF Excluded
<1> QED
  BY <1>1, <1>2 DEF ContractInv

LEMMA JavaVerdictsOf ==
    ASSUME ContractInv
    PROVE  JavaVerdicts = [i \in DOMAIN log |-> JavaMatch(operations, log[i])]
  BY JavaScope DEF JavaVerdicts

\* The diagnostics that the Java loop adds for each event.
JavaAdded == [i \in DOMAIN log |-> JavaDiagnosticsOf(JavaVerdicts[i], log[i])]

LEMMA AppendByPlace ==
    ASSUME NEW S, NEW s \in Seq(S), NEW x \in S, NEW n, Len(s) = n
    PROVE  Append(s, x) = [i \in 1..(n + 1) |-> IF i = n + 1 THEN x ELSE s[i]]
<1> DEFINE t == Append(s, x)
<1>1. n \in Nat
  OBVIOUS
<1>2. t \in Seq(S) /\ Len(t) = n + 1
  BY <1>1
<1>3. DOMAIN t = 1..(n + 1)
  BY <1>2
<1>4. ASSUME NEW i \in 1..(n + 1)
      PROVE  t[i] = IF i = n + 1 THEN x ELSE s[i]
  BY <1>1, <1>4
<1>5. t = [i \in DOMAIN t |-> t[i]]
  <2> HIDE DEF t
  <2>1. t \in [1..Len(t) -> S]
    BY <1>2
  <2> QED
    BY <2>1
<1> HIDE DEF t
<1>6. t = [i \in 1..(n + 1) |-> IF i = n + 1 THEN x ELSE s[i]]
  BY <1>3, <1>4, <1>5
<1> QED
  BY <1>6 DEF t

\* What reading one more event adds to the Java report.
LEMMA JavaReadsOneMore ==
    ASSUME TypeOK, ContractInv, UNCHANGED <<document, operations>>,
           NEW event \in Events, log' = Append(log, event),
           NEW v, v = JavaMatch(operations, event)
    PROVE  /\ JavaCovered' = JavaCovered \cup
                  (IF v.kind = "matched" THEN v.operations ELSE {})
           /\ JavaDiagnostics' = JavaDiagnostics \o JavaDiagnosticsOf(v, event)
<1>1. /\ log \in Seq(Events) /\ Len(log) \in Nat
      /\ DOMAIN log = 1..Len(log)
      /\ DOMAIN log' = 1..(Len(log) + 1)
      /\ log'[Len(log) + 1] = event
      /\ \A i \in 1..Len(log) : log'[i] = log[i]
  BY DEF TypeOK
<1>2. JavaVerdicts = [i \in DOMAIN log |-> JavaMatch(operations, log[i])]
  BY JavaVerdictsOf
<1>3. JavaVerdicts' = [i \in DOMAIN log' |-> JavaMatch(operations, log'[i])]
  <2>1. JavaOperations(document') \ Excluded' = operations'
    BY JavaScope DEF Excluded
  <2> QED
    BY <2>1 DEF JavaVerdicts
<1>4. /\ DOMAIN JavaVerdicts' = 1..(Len(log) + 1)
      /\ DOMAIN JavaVerdicts = 1..Len(log)
      /\ JavaVerdicts'[Len(log) + 1] = v
      /\ \A i \in 1..Len(log) : JavaVerdicts'[i] = JavaVerdicts[i]
  BY <1>1, <1>2, <1>3
<1>5. \A i \in 1..(Len(log) + 1) : i \in 1..Len(log) \/ i = Len(log) + 1
  BY <1>1
<1>6. /\ 1..Len(log) \subseteq 1..(Len(log) + 1)
      /\ Len(log) + 1 \in 1..(Len(log) + 1)
  BY <1>1
<1>7. ToSet(JavaVerdicts') = ToSet(JavaVerdicts) \cup {v}
  BY <1>4, <1>5, <1>6 DEF ToSet
<1>8. JavaCovered' = JavaCovered \cup
          (IF v.kind = "matched" THEN v.operations ELSE {})
  BY <1>7 DEF JavaCovered
<1>9. /\ JavaAdded \in Seq(Seq({Diagnostic(log[i], JavaVerdicts[i]) : i \in DOMAIN log}
                                   \cup {Diagnostic(event, v)}))
      /\ JavaDiagnosticsOf(v, event) \in
             Seq({Diagnostic(log[i], JavaVerdicts[i]) : i \in DOMAIN log}
                     \cup {Diagnostic(event, v)})
  <2> DEFINE S == {Diagnostic(log[i], JavaVerdicts[i]) : i \in DOMAIN log}
                     \cup {Diagnostic(event, v)}
  <2>1. \A i \in DOMAIN log : Diagnostic(log[i], JavaVerdicts[i]) \in S
    OBVIOUS
  <2>2. Diagnostic(event, v) \in S
    OBVIOUS
  <2> HIDE DEF S
  <2>3. \A i \in DOMAIN log : JavaDiagnosticsOf(JavaVerdicts[i], log[i]) \in Seq(S)
    BY <2>1 DEF JavaDiagnosticsOf
  <2>4. JavaDiagnosticsOf(v, event) \in Seq(S)
    BY <2>2 DEF JavaDiagnosticsOf
  <2>5. JavaAdded \in Seq(Seq(S))
    BY <1>1, <2>3 DEF JavaAdded
  <2> QED
    BY <2>4, <2>5 DEF S
<1>10. JavaAdded' = Append(JavaAdded, JavaDiagnosticsOf(v, event))
  <2>1. JavaAdded = [i \in 1..Len(log) |-> JavaDiagnosticsOf(JavaVerdicts[i], log[i])]
    BY <1>1 DEF JavaAdded
  <2>2. JavaAdded' = [i \in 1..(Len(log) + 1) |->
                         JavaDiagnosticsOf(JavaVerdicts'[i], log'[i])]
    BY <1>1 DEF JavaAdded, JavaDiagnosticsOf, Diagnostic
  <2>3. \A i \in 1..Len(log) : JavaAdded'[i] = JavaAdded[i]
    BY <1>1, <1>4, <1>6, <2>1, <2>2
  <2>4. JavaAdded'[Len(log) + 1] = JavaDiagnosticsOf(v, event)
    BY <1>1, <1>4, <1>6, <2>2
  <2>5. Len(JavaAdded) = Len(log) /\ DOMAIN JavaAdded = 1..Len(log)
    BY <1>1, <1>9, <2>1
  <2>6. JavaAdded' = [i \in 1..(Len(log) + 1) |-> JavaAdded'[i]]
    BY <2>2
  <2>7. Append(JavaAdded, JavaDiagnosticsOf(v, event))
          = [i \in 1..(Len(log) + 1) |->
               IF i = Len(log) + 1 THEN JavaDiagnosticsOf(v, event) ELSE JavaAdded[i]]
    BY <1>9, <2>5, AppendByPlace
  <2> QED
    BY <1>5, <2>3, <2>4, <2>6, <2>7
<1>11. JavaDiagnostics' = JavaDiagnostics \o JavaDiagnosticsOf(v, event)
  <2>1. JavaDiagnostics = FlattenSeq(JavaAdded)
    BY DEF JavaDiagnostics, JavaAdded
  <2>2. JavaDiagnostics' = FlattenSeq(JavaAdded')
    BY DEF JavaDiagnostics, JavaAdded
  <2> QED
    BY <1>9, <1>10, <2>1, <2>2, FlattenOneMore
<1> QED
  BY <1>8, <1>11

\* Of an agreement on plain routes, what one step needs and keeps.
AgreementInv == TypeOK /\ ContractInv /\ RuntimesAgreeOnPlainRoutes

LEMMA AgreementInitially == Init => RuntimesAgreeOnPlainRoutes
<1> SUFFICES ASSUME Init PROVE SameAnswer
  BY DEF RuntimesAgreeOnPlainRoutes
<1>1. log = <<>> /\ DOMAIN log = {} /\ diagnostics = <<>>
  BY DEF Init
<1>2. CoveredOperations = {}
  BY DEF Init, CoveredOperations, Observed, NoEvidence
<1>3. JavaCovered = {}
  <2>1. ToSet(JavaVerdicts) = {}
    BY <1>1 DEF JavaVerdicts, ToSet
  <2> QED
    BY <2>1 DEF JavaCovered
<1>4. JavaDiagnostics = <<>>
  <2>1. [i \in DOMAIN log |-> JavaDiagnosticsOf(JavaVerdicts[i], log[i])] = <<>>
    BY <1>1
  <2>2. Len(<<>>) = 0
    OBVIOUS
  <2>3. FlattenSeq(<<>>) = <<>>
    BY <2>2, FlattenIsUpTo
  <2> QED
    BY <2>1, <2>3 DEF JavaDiagnostics
<1> QED
  BY <1>1, <1>2, <1>3, <1>4 DEF SameAnswer

LEMMA AgreementKept ==
    ASSUME CoverageInv, AgreementInv, [Next]_vars
    PROVE  RuntimesAgreeOnPlainRoutes'
<1>0. CASE UNCHANGED vars
  <2>1. UNCHANGED <<document, operations, contracts, log, evidence, diagnostics>>
    BY <1>0 DEF vars
  <2> QED
    BY <2>1 DEF AgreementInv, RuntimesAgreeOnPlainRoutes, AllPlain, SameAnswer,
                CoveredOperations, Observed, JavaCovered, JavaDiagnostics,
                JavaVerdicts, Excluded
<1>1. CASE Next
  <2>1. PICK event \in Events : Credit(event) \/ Diagnose(event) \/ Throw(event)
    BY <1>1 DEF Next
  <2>2. /\ log' = Append(log, event) /\ operations' = operations
        /\ document' = document
    BY <2>1 DEF Credit, Diagnose, Throw, Read
  <2>3. SUFFICES ASSUME AllPlain' PROVE SameAnswer'
    BY DEF RuntimesAgreeOnPlainRoutes
  <2>4. log \in Seq(Events)
    BY DEF AgreementInv, TypeOK
  <2>5. AllPlain /\ Plain(event.route)
    <3>1. /\ Len(log) + 1 \in DOMAIN log' /\ log'[Len(log) + 1] = event
          /\ \A i \in DOMAIN log : i \in DOMAIN log' /\ log'[i] = log[i]
      BY <2>2, <2>4
    <3>2. /\ \A o \in operations : Plain(o.route)
          /\ \A i \in DOMAIN log' : Plain(log'[i].route)
      BY <2>2, <2>3 DEF AllPlain
    <3>3. \A i \in DOMAIN log : Plain(log[i].route)
      BY <3>1, <3>2
    <3> QED
      BY <3>1, <3>2, <3>3 DEF AllPlain
  <2>6. SameAnswer
    BY <2>5 DEF AgreementInv, RuntimesAgreeOnPlainRoutes
  <2> DEFINE v == ResolveOperation(operations, event)
  <2>7. \A o \in operations : /\ o.route \in Route /\ Plain(o.route)
                              /\ CanonicalOperation(o) = o
    <3>1. \A o \in operations : o.route \in Route
      BY DocumentsAssumption DEF AgreementInv, ContractInv
    <3>2. \A o \in operations : CanonicalOperation(o) = o
      BY OperationsAreCanonical DEF AgreementInv
    <3> QED
      BY <2>5, <3>1, <3>2 DEF AllPlain
  <2>8. /\ v = JavaMatch(operations, event)
        /\ v.kind # "throws"
        /\ v.kind = "matched" => \E o \in operations : v.operations = {o}
    BY <2>5, <2>7, EventsAssumption, PlainResolvesAlike
  <2>9. /\ JavaCovered' = JavaCovered \cup
               (IF v.kind = "matched" THEN v.operations ELSE {})
        /\ JavaDiagnostics' = JavaDiagnostics \o JavaDiagnosticsOf(v, event)
    <3> HIDE DEF v
    <3> QED
      BY <2>2, <2>8, JavaReadsOneMore DEF AgreementInv
  <2>10. CASE Credit(event)
    <3>1. PICK o \in v.operations : evidence' = RecordOperationEvidence(o, event)
      BY <2>10 DEF Credit
    <3>2. v.kind = "matched" /\ diagnostics' = diagnostics
      BY <2>10 DEF Credit
    <3>3. v.operations = {o} /\ o \in operations
      BY <2>8, <3>1, <3>2
    <3> HIDE DEF v
    <3>4. /\ evidence' \in [operations -> EvidenceType]
          /\ event.suite \in evidence'[o].suites
      BY <3>1, <3>3, CreditAdds DEF AgreementInv
    <3>5. \A p \in operations : p # o => evidence'[p] = evidence[p]
      <4>1. evidence \in [operations -> EvidenceType]
        BY DEF AgreementInv, TypeOK
      <4> QED
        BY <3>1, <3>3, <4>1 DEF RecordOperationEvidence
    <3>6. CoveredOperations' = CoveredOperations \cup {o}
      BY <2>2, <3>3, <3>4, <3>5 DEF CoveredOperations, Observed
    <3>7. JavaDiagnostics' = JavaDiagnostics
      <4>1. JavaDiagnosticsOf(v, event) = <<>>
        BY <3>2 DEF JavaDiagnosticsOf
      <4>2. JavaDiagnostics = diagnostics /\ diagnostics \in Seq(DiagnosticType)
        BY <2>6 DEF SameAnswer, AgreementInv, TypeOK
      <4>3. diagnostics \o <<>> = diagnostics
        BY <4>2
      <4> QED
        BY <2>9, <4>1, <4>2, <4>3
    <3> QED
      BY <2>6, <2>9, <3>2, <3>3, <3>6, <3>7 DEF SameAnswer
  <2>11. CASE Diagnose(event)
    <3>1. /\ v.kind \in {"unmatched", "ambiguous"}
          /\ diagnostics' = Append(diagnostics, Diagnostic(event, v))
          /\ evidence' = evidence
      BY <2>11 DEF Diagnose
    <3> HIDE DEF v
    <3>2. v.kind # "matched"
      BY <3>1
    <3>3. JavaDiagnosticsOf(v, event) = <<Diagnostic(event, v)>>
      BY <3>2 DEF JavaDiagnosticsOf
    <3>4. JavaDiagnostics = diagnostics /\ diagnostics \in Seq(DiagnosticType)
      BY <2>6 DEF SameAnswer, AgreementInv, TypeOK
    <3>5. diagnostics \o <<Diagnostic(event, v)>> = Append(diagnostics, Diagnostic(event, v))
      <4> DEFINE d == Diagnostic(event, v)
      <4> HIDE DEF d
      <4>1. diagnostics \o <<d>> = Append(diagnostics, d)
        BY <3>4
      <4> QED
        BY <4>1 DEF d
    <3>6. diagnostics' = JavaDiagnostics'
      BY <2>9, <3>1, <3>3, <3>4, <3>5
    <3>7. CoveredOperations' = CoveredOperations /\ JavaCovered' = JavaCovered
      BY <2>2, <2>9, <3>1, <3>2 DEF CoveredOperations, Observed
    <3> QED
      BY <2>6, <3>6, <3>7 DEF SameAnswer
  <2>12. CASE Throw(event)
    BY <2>8, <2>12 DEF Throw
  <2> QED
    BY <2>1, <2>10, <2>11, <2>12
<1> QED
  BY <1>0, <1>1

\* On plain routes the TypeScript analyzer and the Java calculator cover the
\* same operations and report the same diagnostics in the same order, whatever
\* the document, the exclusions and the log: computeCoverage against
\* OperationMatcher.match and CoverageCalculator.calculate.
THEOREM RuntimesAgree == Spec => []RuntimesAgreeOnPlainRoutes
<1> DEFINE Inv == CoverageInv /\ AgreementInv
<1>1. Init => Inv
  BY InitEstablishes, ContractInvInitially, AgreementInitially
     DEF AgreementInv, CoverageInv
<1>2. Inv /\ [Next]_vars => Inv'
  BY StepPreserves, ContractInvKept, AgreementKept DEF AgreementInv, CoverageInv
<1>3. Inv => RuntimesAgreeOnPlainRoutes
  BY DEF AgreementInv
<1> QED
  BY <1>1, <1>2, <1>3, PTL DEF Spec

-----------------------------------------------------------------------------
(* What the loop has made of the log                                       *)

\* Where an event belongs, told by what it fits.
FittingKind(event) ==
    IF Fitting(event) = {} THEN "unmatched"
    ELSE IF \E o \in operations : Fitting(event) = {o} THEN "matched"
    ELSE "ambiguous"

\* The events that are an operation's own.
EventsAt(o) == {i \in DOMAIN log : Fitting(log[i]) = {o}}

\* The log has a diagnostic of this kind.
DiagnosedAs(kind) == \E k \in DOMAIN diagnostics : diagnostics[k].kind = kind

\* The evidence of an operation is of its events, and there is a diagnostic of a
\* kind exactly when some event is of it.
LogInv ==
    ~thrown =>
        /\ \A o \in operations : evidence[o].suites = {log[i].suite : i \in EventsAt(o)}
        /\ \A kind \in {"unmatched", "ambiguous"} :
               DiagnosedAs(kind) <=> \E i \in DOMAIN log : FittingKind(log[i]) = kind

\* What an event fits is in scope.
LEMMA FittingInScope == \A event : Fitting(event) \subseteq operations
  BY DEF Fitting, FallbackCandidates

\* A verdict that throws nothing is that of what the event fits.
LEMMA VerdictIsFitting ==
    ASSUME NEW event, NEW verdict, verdict = ResolveOperation(operations, event),
           verdict.kind # "throws"
    PROVE  /\ verdict.kind = FittingKind(event)
           /\ verdict.kind = "matched" => verdict.operations = Fitting(event)
<1> DEFINE candidates == FallbackCandidates(operations, event)
<1>1. CASE OperationOf(event) \in operations
  <2>1. Fitting(event) = {OperationOf(event)}
    BY <1>1 DEF Fitting
  <2>2. verdict = Verdict("matched", {OperationOf(event)})
    BY <1>1 DEF ResolveOperation
  <2> QED
    BY <1>1, <2>1, <2>2 DEF FittingKind, Verdict
<1>2. CASE OperationOf(event) \notin operations
  <2>1. Fitting(event) = candidates
    BY <1>2 DEF Fitting
  <2>2. verdict = Verdict("throws", {}) \/ verdict = VerdictOf(candidates)
    BY <1>2 DEF ResolveOperation
  <2>3. candidates \subseteq operations
    BY DEF FallbackCandidates
  <2> HIDE DEF candidates
  <2>4. verdict = VerdictOf(candidates)
    BY <2>2 DEF Verdict
  <2>5. (\E o \in candidates : candidates = {o}) <=> \E o \in operations : candidates = {o}
    BY <2>3
  <2> QED
    BY <2>1, <2>4, <2>5 DEF FittingKind, VerdictOf, Verdict
<1> QED
  BY <1>1, <1>2

\* This holds at the beginning, and every event read keeps it.
LEMMA LogInvInitially == Init => LogInv
<1> SUFFICES ASSUME Init PROVE LogInv
  OBVIOUS
<1>1. DOMAIN log = {} /\ DOMAIN diagnostics = {}
  BY DEF Init
<1>2. \A o \in operations : evidence[o].suites = {}
  BY DEF Init, NoEvidence
<1> QED
  BY <1>1, <1>2 DEF LogInv, EventsAt, DiagnosedAs

LEMMA LogInvKept == TypeOK /\ LogInv /\ [Next]_vars => LogInv'
<1> SUFFICES ASSUME TypeOK, LogInv, [Next]_vars PROVE LogInv'
  OBVIOUS
<1>1. CASE UNCHANGED vars
  BY <1>1 DEF LogInv, vars, EventsAt, DiagnosedAs, FittingKind, Fitting
<1>2. CASE Next
  <2>1. PICK event \in Events : Credit(event) \/ Diagnose(event) \/ Throw(event)
    BY <1>2 DEF Next
  <2> DEFINE verdict == ResolveOperation(operations, event)
             n == Len(log) + 1
  <2>2. /\ operations' = operations /\ log' = Append(log, event) /\ ~thrown
    BY <2>1 DEF Credit, Diagnose, Throw, Read
  <2>3. /\ log \in Seq(Events) /\ n \notin DOMAIN log
        /\ DOMAIN log' = DOMAIN log \cup {n} /\ log'[n] = event
        /\ \A i \in DOMAIN log : log'[i] = log[i]
    BY <2>2 DEF TypeOK
  <2>4. \A i : /\ Fitting(log[i])' = Fitting(log'[i])
               /\ FittingKind(log[i])' = FittingKind(log'[i])
    BY <2>2 DEF Fitting, FittingKind
  <2>5. /\ \A o \in operations : evidence[o].suites = {log[i].suite : i \in EventsAt(o)}
        /\ \A kind \in {"unmatched", "ambiguous"} :
               DiagnosedAs(kind) <=> \E i \in DOMAIN log : FittingKind(log[i]) = kind
    BY <2>2 DEF LogInv
  <2> HIDE DEF n
  <2>6. ASSUME NEW o
        PROVE  /\ EventsAt(o)' = EventsAt(o) \cup {i \in {n} : Fitting(event) = {o}}
               /\ {log'[i].suite : i \in EventsAt(o)'}
                    = {log[i].suite : i \in EventsAt(o)}
                        \cup {s \in {event.suite} : Fitting(event) = {o}}
    <3>1. EventsAt(o)' = EventsAt(o) \cup {i \in {n} : Fitting(event) = {o}}
      BY <2>3, <2>4 DEF EventsAt
    <3>2. \A i \in EventsAt(o) : log'[i] = log[i]
      BY <2>3 DEF EventsAt
    <3> QED
      BY <2>3, <3>1, <3>2
  <2>7. \A kind : (\E i \in DOMAIN log' : FittingKind(log[i])' = kind) <=>
                     \/ \E i \in DOMAIN log : FittingKind(log[i]) = kind
                     \/ FittingKind(event) = kind
    BY <2>3, <2>4
  <2>8. CASE Credit(event)
    <3>1. /\ verdict.kind = "matched" /\ diagnostics' = diagnostics
      BY <2>8 DEF Credit
    <3>2. PICK o \in verdict.operations : evidence' = RecordOperationEvidence(o, event)
      BY <2>8 DEF Credit
    <3>3. /\ FittingKind(event) = "matched" /\ verdict.operations = Fitting(event)
      BY <3>1, VerdictIsFitting
    <3>4. Fitting(event) = {o} /\ o \in operations
      BY <3>2, <3>3, FittingInScope DEF FittingKind
    <3>5. ASSUME NEW p \in operations
          PROVE  evidence'[p].suites = {log'[i].suite : i \in EventsAt(p)'}
      <4>1. evidence'[p].suites
              = evidence[p].suites \cup {s \in {event.suite} : p = o}
        <5> DEFINE added == [suites     |-> evidence[o].suites \cup {event.suite},
                             statuses   |-> evidence[o].statuses \cup {event.status},
                             queryKeys  |-> evidence[o].queryKeys \cup event.queryKeys,
                             headerKeys |-> evidence[o].headerKeys \cup event.headerKeys]
        <5>1. evidence \in [operations -> EvidenceType]
          BY DEF TypeOK
        <5>2. evidence' = [evidence EXCEPT ![o] = added]
          BY <3>2, <5>1 DEF RecordOperationEvidence
        <5>3. added.suites = evidence[o].suites \cup {event.suite}
          OBVIOUS
        <5> HIDE DEF added
        <5> QED
          BY <3>4, <5>1, <5>2, <5>3
      <4>2. Fitting(event) = {p} <=> p = o
        BY <3>4
      <4> QED
        BY <2>5, <2>6, <4>1, <4>2
    <3>6. \A kind : DiagnosedAs(kind)' = DiagnosedAs(kind)
      BY <3>1 DEF DiagnosedAs
    <3> QED
      BY <2>2, <2>5, <2>7, <3>3, <3>5, <3>6 DEF LogInv
  <2>9. CASE Diagnose(event)
    <3>1. /\ verdict.kind \in {"unmatched", "ambiguous"} /\ evidence' = evidence
          /\ diagnostics' = Append(diagnostics, Diagnostic(event, verdict))
      BY <2>9 DEF Diagnose
    <3>2. FittingKind(event) = verdict.kind
      BY <3>1, VerdictIsFitting
    <3>3. \A o \in operations : Fitting(event) # {o}
      BY <3>1, <3>2 DEF FittingKind
    <3>4. \A p \in operations : evidence'[p].suites = {log'[i].suite : i \in EventsAt(p)'}
      BY <2>5, <2>6, <3>1, <3>3
    <3>5. ASSUME NEW kind
          PROVE  DiagnosedAs(kind)' <=> DiagnosedAs(kind) \/ verdict.kind = kind
      <4>1. Diagnostic(event, verdict).kind = verdict.kind
        BY DEF Diagnostic
      <4>2. diagnostics \in Seq(DiagnosticType)
        BY DEF TypeOK
      <4> HIDE DEF verdict
      <4>3. /\ DOMAIN diagnostics' = DOMAIN diagnostics \cup {Len(diagnostics) + 1}
            /\ \A k \in DOMAIN diagnostics : diagnostics'[k] = diagnostics[k]
            /\ diagnostics'[Len(diagnostics) + 1] = Diagnostic(event, verdict)
        BY <3>1, <4>2
      <4> QED
        BY <4>1, <4>3 DEF DiagnosedAs
    <3> QED
      BY <2>2, <2>5, <2>7, <3>2, <3>4, <3>5 DEF LogInv
  <2>10. CASE Throw(event)
    BY <2>10 DEF Throw, LogInv
  <2> QED
    BY <2>1, <2>8, <2>9, <2>10
<1> QED
  BY <1>1, <1>2

\* The events that fit an operation alone, each once.
EventsOfOperation(o) == {e \in ToSet(log) : Fitting(e) = {o}}

\* What they tell of it.
Gathered(o) ==
    LET events == EventsOfOperation(o)
    IN  [suites     |-> {e.suite : e \in events},
         statuses   |-> {e.status : e \in events},
         queryKeys  |-> UNION {e.queryKeys : e \in events},
         headerKeys |-> UNION {e.headerKeys : e \in events}]

\* Where the loop went on, the evidence is what the set of the events tells:
\* neither their order nor a repetition leaves a trace in it.
EvidenceIsOfTheEvents == ~thrown => evidence = [o \in operations |-> Gathered(o)]

\* An event read adds what it tells to the operation it fits, and to no other.
LEMMA EvidenceIsOfTheEventsKept ==
    TypeOK /\ EvidenceIsOfTheEvents /\ [Next]_vars => EvidenceIsOfTheEvents'
<1> SUFFICES ASSUME TypeOK, EvidenceIsOfTheEvents, [Next]_vars
             PROVE  EvidenceIsOfTheEvents'
  OBVIOUS
<1>1. CASE UNCHANGED vars
  BY <1>1 DEF EvidenceIsOfTheEvents, vars, Gathered, EventsOfOperation, Fitting
<1>2. ASSUME NEW event \in Events, Throw(event) PROVE EvidenceIsOfTheEvents'
  BY <1>2 DEF Throw, EvidenceIsOfTheEvents
<1>3. ASSUME NEW event \in Events, Credit(event) \/ Diagnose(event)
      PROVE  EvidenceIsOfTheEvents'
  <2> DEFINE verdict == ResolveOperation(operations, event)
             own(o)  == {e \in {event} : Fitting(event) = {o}}
  <2>1. /\ operations' = operations /\ log' = Append(log, event) /\ ~thrown
        /\ evidence = [o \in operations |-> Gathered(o)]
    BY <1>3 DEF Credit, Diagnose, Read, EvidenceIsOfTheEvents
  <2>2. ToSet(log') = ToSet(log) \cup {event}
    <3>1. log \in Seq(Events)
      BY DEF TypeOK
    <3>2. /\ DOMAIN log' = DOMAIN log \cup {Len(log) + 1}
          /\ log'[Len(log) + 1] = event
          /\ \A i \in DOMAIN log : log'[i] = log[i]
      BY <2>1, <3>1
    <3> QED BY <3>2 DEF ToSet
  <2>3. \A e : Fitting(e)' = Fitting(e)
    BY <2>1 DEF Fitting
  <2>4. ASSUME NEW o
        PROVE  EventsOfOperation(o)' = EventsOfOperation(o) \cup own(o)
    BY <2>2, <2>3 DEF EventsOfOperation
  <2>5. ASSUME NEW o, Fitting(event) # {o}
        PROVE  Gathered(o)' = Gathered(o)
    <3>1. EventsOfOperation(o)' = EventsOfOperation(o)
      BY <2>4, <2>5
    <3> QED BY <3>1 DEF Gathered
  <2>6. CASE Diagnose(event)
    <3>1. verdict.kind \in {"unmatched", "ambiguous"} /\ evidence' = evidence
      BY <2>6 DEF Diagnose
    <3>2. \A o \in operations : Fitting(event) # {o}
      BY <3>1, VerdictIsFitting DEF FittingKind
    <3>3. \A o \in operations : Gathered(o)' = Gathered(o)
      BY <2>5, <3>2
    <3> QED
      BY <2>1, <3>1, <3>3 DEF EvidenceIsOfTheEvents
  <2>7. CASE Credit(event)
    <3>1. PICK p \in verdict.operations :
            verdict.kind = "matched" /\ evidence' = RecordOperationEvidence(p, event)
      BY <2>7 DEF Credit
    <3>2. Fitting(event) = {p} /\ p \in operations
      BY <3>1, VerdictIsFitting, FittingInScope DEF FittingKind
    <3> HIDE DEF verdict
    <3>3. Gathered(p)' =
            [suites     |-> evidence[p].suites \cup {event.suite},
             statuses   |-> evidence[p].statuses \cup {event.status},
             queryKeys  |-> evidence[p].queryKeys \cup event.queryKeys,
             headerKeys |-> evidence[p].headerKeys \cup event.headerKeys]
      <4> DEFINE events == EventsOfOperation(p)
      <4>1. EventsOfOperation(p)' = events \cup {event}
        BY <2>4, <3>2
      <4>2. /\ evidence[p].suites = {e.suite : e \in events}
            /\ evidence[p].statuses = {e.status : e \in events}
            /\ evidence[p].queryKeys = UNION {e.queryKeys : e \in events}
            /\ evidence[p].headerKeys = UNION {e.headerKeys : e \in events}
        BY <2>1, <3>2 DEF Gathered
      <4> HIDE DEF events
      <4>3. /\ {e.suite : e \in events \cup {event}}
                 = {e.suite : e \in events} \cup {event.suite}
            /\ {e.status : e \in events \cup {event}}
                 = {e.status : e \in events} \cup {event.status}
        OBVIOUS
      <4>4. /\ UNION {e.queryKeys : e \in events \cup {event}}
                 = (UNION {e.queryKeys : e \in events}) \cup event.queryKeys
            /\ UNION {e.headerKeys : e \in events \cup {event}}
                 = (UNION {e.headerKeys : e \in events}) \cup event.headerKeys
        OBVIOUS
      <4> QED
        BY <4>1, <4>2, <4>3, <4>4 DEF Gathered
    <3>4. evidence' = [evidence EXCEPT ![p] = Gathered(p)']
      BY <3>1, <3>3 DEF RecordOperationEvidence
    <3>5. \A o \in operations : o # p => Gathered(o)' = Gathered(o)
      BY <2>5, <3>2
    <3> DEFINE now(o) == Gathered(o)'
    <3>6. evidence' = [evidence EXCEPT ![p] = now(p)]
      BY <3>4
    <3>7. \A o \in operations : o # p => now(o) = Gathered(o)
      BY <3>5
    <3> HIDE DEF now
    <3>8. evidence' = [o \in operations |-> now(o)]
      BY <2>1, <3>2, <3>6, <3>7
    <3> QED
      BY <2>1, <3>8 DEF EvidenceIsOfTheEvents, now
  <2> QED
    BY <1>3, <2>6, <2>7
<1> QED
  BY <1>1, <1>2, <1>3 DEF Next

\* What an operation is scored by is exactly what the set of the events that fit
\* it alone tells.  So concurrent recorders may interleave their lines in any
\* way, and a line written twice changes no score: recordOperationEvidence and
\* the loop of computeCoverage, for every document, exclusion and log.
THEOREM CoverageIsOfTheEvents == Spec => []EvidenceIsOfTheEvents
<1>1. Init => CoverageInv /\ EvidenceIsOfTheEvents
  <2> SUFFICES ASSUME Init PROVE EvidenceIsOfTheEvents
    BY InitEstablishes
  <2>1. ToSet(log) = {}
    BY DEF Init, ToSet
  <2>2. \A o : Gathered(o) = NoEvidence
    <3> SUFFICES ASSUME NEW o PROVE Gathered(o) = NoEvidence
      OBVIOUS
    <3>1. EventsOfOperation(o) = {}
      BY <2>1 DEF EventsOfOperation
    <3> QED BY <3>1 DEF Gathered, NoEvidence
  <2> QED BY <2>2 DEF Init, EvidenceIsOfTheEvents
<1>2. CoverageInv /\ EvidenceIsOfTheEvents /\ [Next]_vars
        => (CoverageInv /\ EvidenceIsOfTheEvents)'
  BY StepPreserves, EvidenceIsOfTheEventsKept DEF CoverageInv
<1> QED
  BY <1>1, <1>2, PTL DEF Spec

-----------------------------------------------------------------------------
(* The passes                                                              *)

\* The passes look an event up where it fits.
LEMMA LookUpIsFitting ==
    ASSUME NEW event, NEW o \in operations
    PROVE  LookUp(event) = {o} <=> Fitting(event) = {o}
<1> DEFINE candidates == FallbackCandidates(operations, event)
<1>1. CASE OperationOf(event) \in operations
  BY <1>1 DEF LookUp, Fitting
<1>2. CASE OperationOf(event) \notin operations
  <2>1. Fitting(event) = candidates
    BY <1>2 DEF Fitting
  <2>2. LookUp(event) = IF Cardinality(candidates) = 1 THEN candidates ELSE {}
    BY <1>2 DEF LookUp
  <2>3. candidates = {o} => Cardinality(candidates) = 1
    BY FS_Singleton
  <2> HIDE DEF candidates
  <2> QED
    BY <2>1, <2>2, <2>3
<1> QED
  BY <1>1, <1>2

\* The state that the findings are about.
FindingsTyped ==
    \A i \in DOMAIN log, o \in operations :
        /\ \A t \in Targets :
               PayloadCode(t, o, log[i]) \in {None} \cup DOMAIN PayloadState
        /\ IsFiniteSet(DOMAIN ParameterTruths(o, log[i]))
        /\ \A p \in DOMAIN ParameterTruths(o, log[i]) :
               ParameterTruths(o, log[i])[p] \in RequestTruths
        /\ SecurityTruth(o, log[i]) \in {None} \cup SecurityTruths

\* So it is, whatever has been read.
LEMMA FindingsAreTyped == TypeOK /\ ContractInv => FindingsTyped
<1> SUFFICES ASSUME TypeOK, ContractInv PROVE FindingsTyped
  OBVIOUS
<1>1. \A i \in DOMAIN log : log[i] \in Events
  BY DEF TypeOK
<1> QED
  BY <1>1, FindingsAssumption DEF FindingsTyped, ContractInv

\* The three passes, and what they go into.
Passes == {PayloadLookUp, RequestLookUp, SecurityLookUp}

Observation(i, o) == [event |-> i, operation |-> o]

\* Each pass goes into the events that fit one operation, for that operation.
LEMMA PassesGoWhereEventsFit ==
    ASSUME IsFiniteSet(operations), NEW pass \in Passes
    PROVE  /\ \A x : x \in Observations(pass) <=>
                  \E i \in DOMAIN log, o \in operations :
                      x = Observation(i, o) /\ Fitting(log[i]) = {o}
           /\ \A o \in operations : EventsOf(pass, o) = EventsAt(o)
<1>1. pass = [i \in DOMAIN log |-> LookUp(log[i])]
  BY DEF Passes, PayloadLookUp, RequestLookUp, SecurityLookUp
<1>2. ASSUME NEW event, NEW o \in LookUp(event)
      PROVE  o \in operations /\ LookUp(event) = {o}
  <2> DEFINE candidates == FallbackCandidates(operations, event)
  <2>1. candidates \subseteq operations /\ IsFiniteSet(candidates)
    <3>1. candidates \subseteq operations
      BY DEF FallbackCandidates
    <3> QED
      BY <3>1, FS_Subset
  <2>2. LookUp(event) = IF OperationOf(event) \in operations THEN {OperationOf(event)}
                        ELSE IF Cardinality(candidates) = 1 THEN candidates ELSE {}
    BY DEF LookUp
  <2> HIDE DEF candidates
  <2>3. Cardinality(candidates) = 1 => \E p : candidates = {p}
    BY <2>1, FS_Singleton
  <2> QED
    BY <1>2, <2>1, <2>2, <2>3
<1>3. ASSUME NEW event, NEW o
      PROVE  o \in LookUp(event) <=> o \in operations /\ Fitting(event) = {o}
  BY <1>2, LookUpIsFitting
<1>4. \A x : x \in Observations(pass) <=>
               \E i \in DOMAIN log : \E o \in LookUp(log[i]) : x = Observation(i, o)
  BY <1>1 DEF Observations, Observation
<1>5. \A x : x \in Observations(pass) <=>
               \E i \in DOMAIN log, o \in operations :
                   x = Observation(i, o) /\ Fitting(log[i]) = {o}
  BY <1>3, <1>4
<1>6. ASSUME NEW o \in operations
      PROVE  EventsOf(pass, o) = EventsAt(o)
  <2>1. \A i : i \in EventsOf(pass, o) <=>
                 \E x \in Observations(pass) : x.operation = o /\ i = x.event
    BY DEF EventsOf
  <2>2. ASSUME NEW i, NEW x \in Observations(pass), x.operation = o, i = x.event
        PROVE  i \in EventsAt(o)
    BY <1>5, <2>2 DEF Observation, EventsAt
  <2>3. ASSUME NEW i \in EventsAt(o)
        PROVE  i \in EventsOf(pass, o)
    <3>1. Observation(i, o) \in Observations(pass)
      BY <1>5 DEF EventsAt
    <3>2. Observation(i, o).operation = o /\ Observation(i, o).event = i
      BY DEF Observation
    <3> QED
      BY <2>1, <3>1, <3>2
  <2> QED
    BY <2>1, <2>2, <2>3
<1> QED
  BY <1>5, <1>6

\* There are no more than pairs of an event and an operation.
LEMMA ObservationsAreFinite ==
    ASSUME TypeOK, IsFiniteSet(operations), NEW pass \in Passes
    PROVE  IsFiniteSet(Observations(pass))
<1> DEFINE pairs == (DOMAIN log) \X operations
           observe == [x \in pairs |-> Observation(x[1], x[2])]
           all == {observe[x] : x \in pairs}
<1>1. IsFiniteSet(DOMAIN log)
  <2>1. log \in Seq(Events)
    BY DEF TypeOK
  <2>2. DOMAIN log = 1..Len(log) /\ 1 \in Int /\ Len(log) \in Int
    BY <2>1
  <2> QED
    BY <2>2, FS_Interval
<1>2. IsFiniteSet(all)
  <2>1. IsFiniteSet(pairs)
    BY <1>1, FS_Product
  <2>2. observe = [x \in pairs |-> observe[x]]
    OBVIOUS
  <2> HIDE DEF pairs, observe
  <2> QED
    BY <2>1, <2>2, ImageIsFinite
<1>3. Observations(pass) \in SUBSET all
  <2> SUFFICES ASSUME NEW x \in Observations(pass) PROVE x \in all
    OBVIOUS
  <2>1. PICK i \in DOMAIN log, o \in operations : x = Observation(i, o)
    BY PassesGoWhereEventsFit
  <2>2. <<i, o>> \in pairs /\ observe[<<i, o>>] = Observation(i, o)
    OBVIOUS
  <2> QED
    BY <2>1, <2>2
<1> QED
  BY <1>2, <1>3, FS_Subset

\* What the passes find is finite, and is what each event is found to be at the
\* operation that it fits.
LEMMA FindingsAreFinite ==
    ASSUME TypeOK, FindingsTyped, IsFiniteSet(operations)
    PROVE  /\ IsFiniteSet(PayloadDiagnostics)
           /\ IsFiniteSet(RequestDiagnostics)
           /\ IsFiniteSet(SecurityDiagnostics)
<1> DEFINE payloads   == Observations(PayloadLookUp)
           requests   == Observations(RequestLookUp)
           securities == Observations(SecurityLookUp)
<1>1. IsFiniteSet(payloads) /\ IsFiniteSet(requests) /\ IsFiniteSet(securities)
  BY ObservationsAreFinite DEF Passes
<1>2. IsFiniteSet(PayloadDiagnostics)
  <2> DEFINE pairs == payloads \X Targets
             found == [p \in pairs |->
                          [event |-> p[1].event, operation |-> p[1].operation,
                           target |-> p[2],
                           code |-> PayloadCode(p[2], p[1].operation, log[p[1].event])]]
             all == {found[p] : p \in pairs}
  <2>1. IsFiniteSet(Targets)
    <3>1. Targets = {"request"} \cup {"response"}
      BY DEF Targets
    <3> QED
      BY <3>1, FS_Singleton, FS_Union
  <2>2. IsFiniteSet(pairs)
    BY <1>1, <2>1, FS_Product
  <2>3. found = [p \in pairs |-> found[p]]
    OBVIOUS
  <2>4. PayloadDiagnostics \in SUBSET all
    <3> SUFFICES ASSUME NEW d \in PayloadDiagnostics PROVE d \in all
      OBVIOUS
    <3>1. PICK x \in payloads, t \in Targets :
            d = [event |-> x.event, operation |-> x.operation, target |-> t,
                 code |-> PayloadCode(t, x.operation, log[x.event])]
      BY DEF PayloadDiagnostics
    <3>2. <<x, t>> \in pairs /\ found[<<x, t>>] = d
      BY <3>1
    <3> QED
      BY <3>2
  <2>5. IsFiniteSet(all)
    <3> HIDE DEF pairs, found
    <3> QED
      BY <2>2, <2>3, ImageIsFinite
  <2> QED
    BY <2>4, <2>5, FS_Subset
<1>3. IsFiniteSet(RequestDiagnostics)
  <2> DEFINE found == [x \in requests |-> RequestDiagnosticsOf(x)]
  <2>1. \A x \in requests : IsFiniteSet(found[x])
    <3> SUFFICES ASSUME NEW x \in requests PROVE IsFiniteSet(found[x])
      OBVIOUS
    <3> DEFINE truths == ParameterTruths(x.operation, log[x.event])
               of == [p \in DOMAIN truths |->
                         [event |-> x.event, operation |-> x.operation,
                          parameter |-> p, truth |-> truths[p]]]
    <3>1. PICK i \in DOMAIN log, o \in operations : x = Observation(i, o)
      BY PassesGoWhereEventsFit DEF Passes
    <3>2. IsFiniteSet(DOMAIN truths)
      BY <3>1 DEF Observation, FindingsTyped
    <3>3. found[x] = {of[p] : p \in DOMAIN truths}
      BY DEF RequestDiagnosticsOf
    <3>4. of = [p \in DOMAIN truths |-> of[p]]
      OBVIOUS
    <3> HIDE DEF found, of, truths
    <3> QED
      BY <3>2, <3>3, <3>4, ImageIsFinite
  <2>2. RequestDiagnostics = UNION {found[x] : x \in requests}
    BY DEF RequestDiagnostics
  <2>3. found = [x \in requests |-> found[x]]
    OBVIOUS
  <2> HIDE DEF found
  <2>4. IsFiniteSet({found[x] : x \in requests})
    BY <1>1, <2>3, ImageIsFinite
  <2> QED
    BY <2>1, <2>2, <2>4, FS_UNION
<1>4. IsFiniteSet(SecurityDiagnostics)
  <2> DEFINE found == [x \in securities |->
                          [event |-> x.event, operation |-> x.operation,
                           truth |-> SecurityTruth(x.operation, log[x.event])]]
             all == {found[x] : x \in securities}
  <2>1. SecurityDiagnostics \in SUBSET all
    BY DEF SecurityDiagnostics
  <2>2. found = [x \in securities |-> found[x]]
    OBVIOUS
  <2>3. IsFiniteSet(all)
    <3> HIDE DEF found
    <3> QED
      BY <1>1, <2>2, ImageIsFinite
  <2> QED
    BY <2>1, <2>3, FS_Subset
<1> QED
  BY <1>2, <1>3, <1>4

-----------------------------------------------------------------------------
(* The sections of the report                                              *)

\* The coverage and the passes have seen the same calls of an operation.
LEMMA SuitesAreTheSame ==
    ASSUME LogInv, ~thrown, IsFiniteSet(operations)
    PROVE  /\ SameSuites
           /\ \A o \in operations : Observed(o) <=> EventsAt(o) # {}
<1>1. \A o \in operations : evidence[o].suites = {log[i].suite : i \in EventsAt(o)}
  BY DEF LogInv
<1>2. ASSUME NEW o \in operations
      PROVE  {log[i].suite : i \in EventsAt(o)} = {} <=> EventsAt(o) = {}
  OBVIOUS
<1>3. \A o \in operations :
        /\ EventsOf(PayloadLookUp, o) = EventsAt(o)
        /\ EventsOf(RequestLookUp, o) = EventsAt(o)
        /\ EventsOf(SecurityLookUp, o) = EventsAt(o)
  BY PassesGoWhereEventsFit DEF Passes
<1>4. SameSuites
  BY <1>1, <1>3 DEF SameSuites
<1> QED
  BY <1>1, <1>2, <1>4 DEF Observed

\* A target is COVERED when some payload was found valid and none anything else.
LEMMA CoveredTargets ==
    ASSUME TypeOK, FindingsTyped, IsFiniteSet(operations),
           NEW o \in operations, NEW t \in Targets
    PROVE  StateOfTarget(o, t) = "COVERED" <=> CodesOf(o, t) = {"VALID"}
<1> DEFINE mine == {d \in PayloadDiagnostics : d.operation = o /\ d.target = t}
           In(state) == {d \in PayloadDiagnostics :
                            /\ d.operation = o /\ d.target = t
                            /\ PayloadState[d.code] = state}
<1>1. CodesOf(o, t) = {d.code : d \in mine}
  <2>1. ASSUME NEW d \in mine
        PROVE  d.code \in CodesOf(o, t)
    <3>1. PICK x \in Observations(PayloadLookUp), s \in Targets :
            d = [event |-> x.event, operation |-> x.operation, target |-> s,
                 code |-> PayloadCode(s, x.operation, log[x.event])]
      BY DEF PayloadDiagnostics
    <3>2. x.operation = o /\ s = t /\ d.code # None
      BY <3>1 DEF PayloadDiagnostics
    <3>3. x.event \in EventsOf(PayloadLookUp, o)
      BY <3>2 DEF EventsOf
    <3>4. d.code = PayloadCode(t, o, log[x.event])
      BY <3>1, <3>2
    <3> QED
      BY <3>2, <3>3, <3>4 DEF CodesOf
  <2>2. ASSUME NEW code \in CodesOf(o, t)
        PROVE  \E d \in mine : code = d.code
    <3>1. PICK i \in EventsOf(PayloadLookUp, o) : code = PayloadCode(t, o, log[i])
      BY DEF CodesOf
    <3>2. PICK x \in Observations(PayloadLookUp) : x.operation = o /\ x.event = i
      BY DEF EventsOf
    <3> DEFINE d == [event |-> x.event, operation |-> x.operation, target |-> t,
                     code |-> PayloadCode(t, x.operation, log[x.event])]
    <3>3. d.code = code /\ d.code # None
      BY <3>1, <3>2 DEF CodesOf
    <3>4. d \in PayloadDiagnostics
      BY <3>3 DEF PayloadDiagnostics
    <3> QED
      BY <3>2, <3>3, <3>4
  <2> QED
    BY <2>1, <2>2
<1>2. \A d \in mine : d.code \in DOMAIN PayloadState
  <2> SUFFICES ASSUME NEW d \in mine PROVE d.code \in DOMAIN PayloadState
    OBVIOUS
  <2>1. PICK x \in Observations(PayloadLookUp), s \in Targets :
          d = [event |-> x.event, operation |-> x.operation, target |-> s,
               code |-> PayloadCode(s, x.operation, log[x.event])]
    BY DEF PayloadDiagnostics
  <2>2. x.event \in DOMAIN log /\ x.operation \in operations
    BY PassesGoWhereEventsFit DEF Passes, Observation
  <2> QED
    BY <2>1, <2>2 DEF FindingsTyped, PayloadDiagnostics
<1>3. \A code \in DOMAIN PayloadState :
        /\ PayloadState[code] \in {"COVERED", "UNCOVERED", "SKIPPED"}
        /\ PayloadState[code] = "COVERED" <=> code = "VALID"
  BY DEF PayloadState
<1>4. \A state : /\ TargetCount(o, t, state) \in Nat
                 /\ TargetCount(o, t, state) > 0 <=> \E d \in mine : PayloadState[d.code] = state
  <2> SUFFICES ASSUME NEW state
               PROVE  /\ TargetCount(o, t, state) \in Nat
                      /\ TargetCount(o, t, state) > 0
                           <=> \E d \in mine : PayloadState[d.code] = state
    OBVIOUS
  <2>1. TargetCount(o, t, state) = Cardinality(In(state))
    BY DEF TargetCount
  <2>2. IsFiniteSet(In(state))
    <3>1. In(state) \in SUBSET PayloadDiagnostics
      OBVIOUS
    <3> QED
      BY <3>1, FindingsAreFinite, FS_Subset
  <2>3. In(state) # {} <=> \E d \in mine : PayloadState[d.code] = state
    OBVIOUS
  <2> HIDE DEF In, mine
  <2>4. Cardinality(In(state)) \in Nat
    BY <2>2, FS_CardinalityType
  <2>5. Cardinality(In(state)) = 0 <=> In(state) = {}
    BY <2>2, FS_EmptySet
  <2> QED
    BY <2>1, <2>3, <2>4, <2>5
<1> HIDE DEF mine, In
<1> DEFINE valid   == TargetCount(o, t, "COVERED")
           invalid == TargetCount(o, t, "UNCOVERED")
           skipped == TargetCount(o, t, "SKIPPED")
<1>5. valid \in Nat /\ invalid \in Nat /\ skipped \in Nat
  BY <1>4
<1>6. StateOfTarget(o, t) = "COVERED" <=> valid > 0 /\ ~(invalid > 0) /\ ~(skipped > 0)
  <2>1. StateOfTarget(o, t) = TargetState(valid, invalid, skipped)
    BY DEF StateOfTarget
  <2> HIDE DEF valid, invalid, skipped
  <2> QED
    BY <1>5, <2>1 DEF TargetState
<1>7. /\ valid > 0 <=> \E d \in mine : PayloadState[d.code] = "COVERED"
      /\ invalid > 0 <=> \E d \in mine : PayloadState[d.code] = "UNCOVERED"
      /\ skipped > 0 <=> \E d \in mine : PayloadState[d.code] = "SKIPPED"
  BY <1>4
<1> HIDE DEF valid, invalid, skipped
<1>8. StateOfTarget(o, t) = "COVERED" <=>
        mine # {} /\ \A d \in mine : d.code = "VALID"
  BY <1>2, <1>3, <1>6, <1>7
<1> QED
  BY <1>1, <1>8

\* Each requirement is evaluated once for an event that fits its operation.
LEMMA EvaluatedOnce ==
    ASSUME TypeOK, FindingsTyped, IsFiniteSet(operations)
    PROVE  Cardinality(SecurityDiagnostics) =
             Cardinality({i \in DOMAIN log : \E o \in operations :
                 Fitting(log[i]) = {o} /\ SecurityTruth(o, log[i]) # None})
<1> DEFINE calls == {i \in DOMAIN log : \E o \in operations :
                        Fitting(log[i]) = {o} /\ SecurityTruth(o, log[i]) # None}
           event == [d \in SecurityDiagnostics |-> d.event]
<1>1. ASSUME NEW d \in SecurityDiagnostics
      PROVE  \E i \in DOMAIN log, o \in operations :
               /\ Fitting(log[i]) = {o} /\ SecurityTruth(o, log[i]) # None
               /\ d = [event |-> i, operation |-> o, truth |-> SecurityTruth(o, log[i])]
  <2>1. PICK x \in Observations(SecurityLookUp) :
          d = [event |-> x.event, operation |-> x.operation,
               truth |-> SecurityTruth(x.operation, log[x.event])]
    BY DEF SecurityDiagnostics
  <2>2. PICK i \in DOMAIN log, o \in operations :
          x = Observation(i, o) /\ Fitting(log[i]) = {o}
    BY PassesGoWhereEventsFit DEF Passes
  <2>3. d = [event |-> i, operation |-> o, truth |-> SecurityTruth(o, log[i])]
    BY <2>1, <2>2 DEF Observation
  <2>4. d.truth # None
    BY DEF SecurityDiagnostics
  <2> QED
    BY <2>2, <2>3, <2>4
<1>2. \A i \in calls : \E d \in SecurityDiagnostics : d.event = i
  <2> SUFFICES ASSUME NEW i \in calls
               PROVE  \E d \in SecurityDiagnostics : d.event = i
    OBVIOUS
  <2>1. PICK o \in operations :
          Fitting(log[i]) = {o} /\ SecurityTruth(o, log[i]) # None
    OBVIOUS
  <2> DEFINE x == Observation(i, o)
             d == [event |-> x.event, operation |-> x.operation,
                   truth |-> SecurityTruth(x.operation, log[x.event])]
  <2>2. x \in Observations(SecurityLookUp)
    BY <2>1, PassesGoWhereEventsFit DEF Passes
  <2>3. d.truth # None /\ d.event = i
    BY <2>1 DEF Observation
  <2>4. d \in SecurityDiagnostics
    BY <2>2, <2>3 DEF SecurityDiagnostics
  <2> QED
    BY <2>3, <2>4
<1>3. event \in Bijection(SecurityDiagnostics, calls)
  <2>1. \A d \in SecurityDiagnostics : event[d] \in calls
    BY <1>1
  <2>2. \A c, d \in SecurityDiagnostics : event[c] = event[d] => c = d
    <3> SUFFICES ASSUME NEW c \in SecurityDiagnostics, NEW d \in SecurityDiagnostics,
                        c.event = d.event
                 PROVE  c = d
      OBVIOUS
    <3>1. PICK i \in DOMAIN log, o \in operations :
            /\ Fitting(log[i]) = {o}
            /\ c = [event |-> i, operation |-> o, truth |-> SecurityTruth(o, log[i])]
      BY <1>1
    <3>2. PICK j \in DOMAIN log, p \in operations :
            /\ Fitting(log[j]) = {p}
            /\ d = [event |-> j, operation |-> p, truth |-> SecurityTruth(p, log[j])]
      BY <1>1
    <3>3. i = j
      BY <3>1, <3>2
    <3> QED
      BY <3>1, <3>2, <3>3
  <2>3. \A i \in calls : \E d \in SecurityDiagnostics : event[d] = i
    BY <1>2
  <2> HIDE DEF calls
  <2>4. event \in [SecurityDiagnostics -> calls]
    BY <2>1
  <2> HIDE DEF event
  <2> QED
    BY <2>2, <2>3, <2>4 DEF Bijection, Injection, Surjection, IsInjective
<1> HIDE DEF event, calls
<1>4. ExistsBijection(SecurityDiagnostics, calls)
  BY <1>3 DEF ExistsBijection
<1>5. Cardinality(calls) = Cardinality(SecurityDiagnostics)
  BY <1>4, FindingsAreFinite, FS_Bijection
<1> QED
  BY <1>5 DEF calls

\* Put together; the counts by operation and by truth are sums over one set.
LEMMA SectionsDoAgree ==
    ASSUME TypeOK, ContractInv, LogInv, ~thrown
    PROVE  SectionsAgree(BuildReport)
<1>0. IsFiniteSet(operations) /\ FindingsTyped
  BY ContractsAreFinite, FindingsAreTyped
<1>1. BuildReport = [covered  |-> Cardinality(CoveredOperations),
                     payload  |-> PayloadSection,
                     request  |-> RequestSection,
                     security |-> SecuritySection]
  BY DEF BuildReport
<1>2. /\ RequestSection.observedOperations = Cardinality(CoveredOperations)
      /\ SecuritySection.observedOperations = Cardinality(CoveredOperations)
  <2>1. /\ {o \in operations : EventsOf(RequestLookUp, o) # {}} = CoveredOperations
        /\ {o \in operations : EventsOf(SecurityLookUp, o) # {}} = CoveredOperations
    BY <1>0, SuitesAreTheSame, PassesGoWhereEventsFit DEF CoveredOperations, Passes
  <2> QED
    BY <2>1 DEF RequestSection, SecuritySection
<1>3. ASSUME NEW t \in Targets
      PROVE  PayloadSection.summary[t].operations["COVERED"] =
               Cardinality({o \in operations : CodesOf(o, t) = {"VALID"}})
  <2>1. {o \in operations : StateOfTarget(o, t) = "COVERED"}
          = {o \in operations : CodesOf(o, t) = {"VALID"}}
    BY <1>0, CoveredTargets
  <2>2. PayloadSection.summary[t] = SummarizePayloadTarget(t)
    BY DEF PayloadSection
  <2>3. SummarizePayloadTarget(t).operations["COVERED"] =
          Cardinality({o \in operations : StateOfTarget(o, t) = "COVERED"})
    BY DEF SummarizePayloadTarget
  <2> QED
    BY <2>1, <2>2, <2>3
<1>4. ASSUME NEW truth \in RequestTruths
      PROVE  RequestSection.counts[truth] =
               SumFunction([o \in operations |-> RequestSection.perOperation[o][truth]])
  <2> DEFINE D == {d \in RequestDiagnostics : d.truth = truth}
             f == [d \in D |-> d.operation]
  <2>1. IsFiniteSet(D)
    <3>1. D \in SUBSET RequestDiagnostics
      OBVIOUS
    <3> QED
      BY <1>0, <3>1, FindingsAreFinite, FS_Subset
  <2>2. f \in [D -> operations]
    <3> SUFFICES ASSUME NEW d \in RequestDiagnostics PROVE d.operation \in operations
      OBVIOUS
    <3>1. PICK x \in Observations(RequestLookUp) : d \in RequestDiagnosticsOf(x)
      BY DEF RequestDiagnostics
    <3>2. d.operation = x.operation
      BY <3>1 DEF RequestDiagnosticsOf
    <3>3. x.operation \in operations
      BY <1>0, PassesGoWhereEventsFit DEF Passes, Observation
    <3> QED
      BY <3>2, <3>3
  <2>3. \A o \in operations :
          RequestSection.perOperation[o][truth] = Cardinality({d \in D : f[d] = o})
    <3> SUFFICES ASSUME NEW o \in operations
                 PROVE  RequestSection.perOperation[o][truth]
                          = Cardinality({d \in D : f[d] = o})
      OBVIOUS
    <3>1. {d \in D : f[d] = o}
            = {d \in RequestDiagnostics : d.operation = o /\ d.truth = truth}
      OBVIOUS
    <3> QED
      BY <3>1 DEF RequestSection, OperationTruths
  <2>4. RequestSection.counts[truth] = Cardinality(D)
    BY DEF RequestSection
  <2> HIDE DEF D, f
  <2>5. Cardinality(D)
          = SumFunction([o \in operations |-> Cardinality({d \in D : f[d] = o})])
    BY <1>0, <2>1, <2>2, CountedByValue
  <2>6. [o \in operations |-> RequestSection.perOperation[o][truth]]
          = [o \in operations |-> Cardinality({d \in D : f[d] = o})]
    BY <2>3
  <2> QED
    BY <2>4, <2>5, <2>6
<1>5. SecuritySection.observedEvaluations = Cardinality(SecurityDiagnostics)
  <2> DEFINE truthOf == [d \in SecurityDiagnostics |-> d.truth]
  <2>1. IsFiniteSet(SecurityTruths)
    <3>1. SecurityTruths = {"satisfied"} \cup {"missing"} \cup {"unavailable"}
                             \cup {"unsupported"} \cup {"optional"} \cup {"clear"}
      BY DEF SecurityTruths
    <3> QED
      BY <3>1, FS_Singleton, FS_Union
  <2>2. truthOf \in [SecurityDiagnostics -> SecurityTruths]
    <3> SUFFICES ASSUME NEW d \in SecurityDiagnostics PROVE d.truth \in SecurityTruths
      OBVIOUS
    <3>1. PICK x \in Observations(SecurityLookUp) :
            d = [event |-> x.event, operation |-> x.operation,
                 truth |-> SecurityTruth(x.operation, log[x.event])]
      BY DEF SecurityDiagnostics
    <3>2. x.event \in DOMAIN log /\ x.operation \in operations
      BY <1>0, PassesGoWhereEventsFit DEF Passes, Observation
    <3>3. d.truth # None
      BY DEF SecurityDiagnostics
    <3> QED
      BY <1>0, <3>1, <3>2, <3>3 DEF FindingsTyped
  <2>3. Cardinality(SecurityDiagnostics) =
          SumFunction([s \in SecurityTruths |->
              Cardinality({d \in SecurityDiagnostics : truthOf[d] = s})])
    <3> HIDE DEF truthOf
    <3> QED
      BY <1>0, <2>1, <2>2, FindingsAreFinite, CountedByValue
  <2>4. SecuritySection.observedEvaluations
          = SumFunction([s \in SecurityTruths |-> SecurityTruthCount(s)])
    BY DEF SecuritySection, SumOver
  <2>5. [s \in SecurityTruths |-> SecurityTruthCount(s)]
          = [s \in SecurityTruths |->
                Cardinality({d \in SecurityDiagnostics : truthOf[d] = s})]
    <3>1. \A s : {d \in SecurityDiagnostics : truthOf[d] = s}
                   = {d \in SecurityDiagnostics : d.truth = s}
      OBVIOUS
    <3> QED
      BY <3>1 DEF SecurityTruthCount
  <2> QED
    BY <2>3, <2>4, <2>5
<1>6. SecuritySection.observedEvaluations =
        Cardinality({i \in DOMAIN log : \E o \in operations :
            Fitting(log[i]) = {o} /\ SecurityTruth(o, log[i]) # None})
  BY <1>0, <1>5, EvaluatedOnce
<1> QED
  BY <1>1, <1>2, <1>3, <1>4, <1>6 DEF SectionsAgree, SumOver

-----------------------------------------------------------------------------
(* The failures and the status of the report                               *)

\* The codes of findings, which come before SEMANTIC_FAIL_CLOSED.
FindingCodes == {SemanticCodes[n] : n \in 1..13}

\* Each failure of a finding has one of them.
LEMMA FindingsComeFirst ==
    /\ DOMAIN SemanticCodes = 1..14
    /\ SemanticCodes[14] = "SEMANTIC_FAIL_CLOSED"
    /\ "SEMANTIC_FAIL_CLOSED" \notin FindingCodes
    /\ \A c \in DOMAIN PayloadFailureCode : PayloadFailureCode[c] \in FindingCodes
    /\ \A t \in DOMAIN RequestFailureCode : RequestFailureCode[t] \in FindingCodes
    /\ \A t \in DOMAIN SecurityFailureCode : SecurityFailureCode[t] \in FindingCodes
<1>1. DOMAIN SemanticCodes = 1..14
  BY DEF SemanticCodes
<1>2. /\ SemanticCodes[1] = "SEMANTIC_HTTP_MISSING_SECURITY"
      /\ SemanticCodes[2] = "SEMANTIC_HTTP_UNAVAILABLE_SECURITY"
      /\ SemanticCodes[3] = "SEMANTIC_HTTP_UNSUPPORTED_SECURITY"
      /\ SemanticCodes[4] = "SEMANTIC_HTTP_INVALID_REQUEST_PARAMETER"
      /\ SemanticCodes[5] = "SEMANTIC_HTTP_UNAVAILABLE_REQUEST_PARAMETER"
      /\ SemanticCodes[6] = "SEMANTIC_HTTP_UNSUPPORTED_REQUEST_PARAMETER"
      /\ SemanticCodes[7] = "SEMANTIC_HTTP_INVALID_BODY"
      /\ SemanticCodes[8] = "SEMANTIC_HTTP_MISSING_BODY"
      /\ SemanticCodes[9] = "SEMANTIC_HTTP_MISSING_CONTENT_TYPE"
      /\ SemanticCodes[10] = "SEMANTIC_HTTP_MEDIA_TYPE_MISMATCH"
      /\ SemanticCodes[11] = "SEMANTIC_HTTP_UNSUPPORTED_MEDIA_TYPE"
      /\ SemanticCodes[12] = "SEMANTIC_HTTP_UNSUPPORTED_SCHEMA_FORMAT"
      /\ SemanticCodes[13] = "SEMANTIC_HTTP_UNSUPPORTED_SCHEMA"
      /\ SemanticCodes[14] = "SEMANTIC_FAIL_CLOSED"
  BY DEF SemanticCodes
<1>3. FindingCodes =
        {"SEMANTIC_HTTP_MISSING_SECURITY", "SEMANTIC_HTTP_UNAVAILABLE_SECURITY",
         "SEMANTIC_HTTP_UNSUPPORTED_SECURITY",
         "SEMANTIC_HTTP_INVALID_REQUEST_PARAMETER",
         "SEMANTIC_HTTP_UNAVAILABLE_REQUEST_PARAMETER",
         "SEMANTIC_HTTP_UNSUPPORTED_REQUEST_PARAMETER",
         "SEMANTIC_HTTP_INVALID_BODY", "SEMANTIC_HTTP_MISSING_BODY",
         "SEMANTIC_HTTP_MISSING_CONTENT_TYPE", "SEMANTIC_HTTP_MEDIA_TYPE_MISMATCH",
         "SEMANTIC_HTTP_UNSUPPORTED_MEDIA_TYPE",
         "SEMANTIC_HTTP_UNSUPPORTED_SCHEMA_FORMAT",
         "SEMANTIC_HTTP_UNSUPPORTED_SCHEMA"}
  BY <1>2 DEF FindingCodes
<1>4. \A c \in DOMAIN PayloadFailureCode : PayloadFailureCode[c] \in FindingCodes
  BY <1>3 DEF PayloadFailureCode
<1>5. \A t \in DOMAIN RequestFailureCode : RequestFailureCode[t] \in FindingCodes
  BY <1>3 DEF RequestFailureCode
<1>6. \A t \in DOMAIN SecurityFailureCode : SecurityFailureCode[t] \in FindingCodes
  BY <1>3 DEF SecurityFailureCode
<1> QED
  BY <1>1, <1>2, <1>3, <1>4, <1>5, <1>6

\* A finding that fails is a failure of kind "semantic" with a rank of its own.
LEMMA FindingFailures ==
    \A f \in SemanticFailures :
        /\ f.kind = "semantic" /\ f # FailClosed
        /\ SemanticCodeRank(f) \in 1..13
<1> SUFFICES ASSUME NEW f \in SemanticFailures
             PROVE  /\ f.kind = "semantic" /\ f # FailClosed
                    /\ SemanticCodeRank(f) \in 1..13
  OBVIOUS
<1>1. f.kind = "semantic" /\ f.code \in FindingCodes
  <2>1. CASE f \in PayloadFailures
    BY <2>1, FindingsComeFirst DEF PayloadFailures, Failure
  <2>2. CASE f \in RequestFailures
    BY <2>2, FindingsComeFirst DEF RequestFailures, Failure
  <2>3. CASE f \in SecurityFailures
    BY <2>3, FindingsComeFirst DEF SecurityFailures, Failure
  <2> QED
    BY <2>1, <2>2, <2>3 DEF SemanticFailures
<1>2. f.code # "SEMANTIC_FAIL_CLOSED"
  BY <1>1, FindingsComeFirst
<1>3. f # FailClosed
  BY <1>2 DEF FailClosed, Failure
<1>4. \E n \in DOMAIN SemanticCodes : SemanticCodes[n] = f.code
  BY <1>1, FindingsComeFirst DEF FindingCodes
<1>5. SemanticCodeRank(f) = CHOOSE n \in DOMAIN SemanticCodes : SemanticCodes[n] = f.code
  BY <1>1 DEF SemanticCodeRank
<1>6. /\ SemanticCodeRank(f) \in DOMAIN SemanticCodes
      /\ SemanticCodes[SemanticCodeRank(f)] = f.code
  BY <1>4, <1>5
<1>7. SemanticCodeRank(f) \in 1..14 /\ SemanticCodeRank(f) # 14
  BY <1>2, <1>6, FindingsComeFirst
<1> QED
  BY <1>1, <1>3, <1>7

\* The fail-closed status has the last one.
LEMMA FailClosedIsLast == SemanticCodeRank(FailClosed) = 14
<1>1. /\ FailClosed.kind = "semantic"
      /\ FailClosed.code = "SEMANTIC_FAIL_CLOSED"
  BY DEF FailClosed, Failure
<1>2. SemanticCodeRank(FailClosed) =
        CHOOSE n \in DOMAIN SemanticCodes : SemanticCodes[n] = "SEMANTIC_FAIL_CLOSED"
  BY <1>1 DEF SemanticCodeRank
<1>3. \A n \in DOMAIN SemanticCodes : SemanticCodes[n] = "SEMANTIC_FAIL_CLOSED" <=> n = 14
  BY FindingsComeFirst DEF FindingCodes
<1> QED
  BY <1>2, <1>3, FindingsComeFirst

\* Besides findings only the other gates fail a run on what it has judged.
LEMMA GateFailuresAreKnown ==
    ASSUME NEW setting \in Settings
    PROVE  /\ SemanticFailures \subseteq EvaluateGateFailures(setting)
           /\ \A f \in EvaluateGateFailures(setting) :
                  f \in SemanticFailures \/ f.kind \in {"regression", "threshold"}
<1> DEFINE missing == Gates!MissingCoveredOperations(setting.baseline, operations,
                                                     CoveredOperations)
           kinds == Gates!GateFailures(setting.policy, SemanticFailures # {}, operations,
                                       CoveredOperations, RawAggregate, missing)
<1>1. kinds \ {"semantic"} \subseteq {"regression", "threshold"}
  <2>1. \A p, a, c, g : Gates!ThresholdFailures(p, a, c, g) \subseteq {"threshold"}
    BY DEF Gates!ThresholdFailures
  <2>2. \A p, m : Gates!RegressionFailures(p, m) \subseteq {"regression"}
    BY DEF Gates!RegressionFailures
  <2> QED
    BY <2>1, <2>2 DEF Gates!GateFailures
<1>2. EvaluateGateFailures(setting) =
        SemanticFailures \cup {Failure(kind, None, None) : kind \in kinds \ {"semantic"}}
  BY DEF EvaluateGateFailures
<1> HIDE DEF kinds
<1> QED
  BY <1>1, <1>2 DEF Failure

\* An operation that an event fits and fails has a failure.
LEMMA FaultIsAFailure ==
    ASSUME FindingsTyped, NEW o \in FaultyOperations
    PROVE  \E f \in SemanticFailures : f.operation = o
<1>1. PICK i \in DOMAIN log : Fitting(log[i]) = {o} /\ ~Passing(o, log[i])
  BY DEF FaultyOperations
<1>2. o \in operations
  BY DEF FaultyOperations
<1>3. o \in LookUp(log[i])
  BY <1>1, <1>2, LookUpIsFitting
<1> DEFINE x == [event |-> i, operation |-> o]
<1>4. /\ x \in Observations(PayloadLookUp)
      /\ x \in Observations(RequestLookUp)
      /\ x \in Observations(SecurityLookUp)
  BY <1>3 DEF Observations, PayloadLookUp, RequestLookUp, SecurityLookUp
<1>5. ASSUME NEW t \in Targets,
             PayloadCode(t, o, log[i]) \notin
                 {None, "VALID", "NO_DECLARED_CONTENT", "RECORDER_OMITTED"}
      PROVE  \E f \in SemanticFailures : f.operation = o
  <2> DEFINE d == [event |-> i, operation |-> o, target |-> t,
                   code |-> PayloadCode(t, o, log[i])]
  <2>1. d.code \in DOMAIN PayloadFailureCode /\ d.code # None
    BY <1>2, <1>5 DEF FindingsTyped, PayloadState, PayloadFailureCode
  <2>2. d \in PayloadDiagnostics
    BY <1>4, <2>1 DEF PayloadDiagnostics
  <2>3. Failure("semantic", PayloadFailureCode[d.code], d.operation) \in PayloadFailures
    BY <2>1, <2>2 DEF PayloadFailures
  <2> QED
    BY <2>3 DEF SemanticFailures, Failure
<1>6. ASSUME NEW p \in DOMAIN ParameterTruths(o, log[i]),
             ParameterTruths(o, log[i])[p] # "captured-valid"
      PROVE  \E f \in SemanticFailures : f.operation = o
  <2> DEFINE d == [event |-> i, operation |-> o, parameter |-> p,
                   truth |-> ParameterTruths(o, log[i])[p]]
  <2>1. d.truth \in DOMAIN RequestFailureCode
    BY <1>2, <1>6 DEF FindingsTyped, RequestTruths, RequestFailureCode
  <2>2. d \in RequestDiagnosticsOf(x)
    BY DEF RequestDiagnosticsOf
  <2>3. d \in RequestDiagnostics
    BY <1>4, <2>2 DEF RequestDiagnostics
  <2>4. Failure("semantic", RequestFailureCode[d.truth], d.operation) \in RequestFailures
    BY <2>1, <2>3 DEF RequestFailures
  <2> QED
    BY <2>4 DEF SemanticFailures, Failure
<1>7. ASSUME SecurityTruth(o, log[i]) \notin {None, "satisfied", "optional", "clear"}
      PROVE  \E f \in SemanticFailures : f.operation = o
  <2> DEFINE d == [event |-> i, operation |-> o, truth |-> SecurityTruth(o, log[i])]
  <2>1. d.truth \in DOMAIN SecurityFailureCode /\ d.truth # None
    BY <1>2, <1>7 DEF FindingsTyped, SecurityTruths, SecurityFailureCode
  <2>2. d \in SecurityDiagnostics
    BY <1>4, <2>1 DEF SecurityDiagnostics
  <2>3. Failure("semantic", SecurityFailureCode[d.truth], d.operation) \in SecurityFailures
    BY <2>1, <2>2 DEF SecurityFailures
  <2> QED
    BY <2>3 DEF SemanticFailures, Failure
<1> QED
  BY <1>1, <1>5, <1>6, <1>7 DEF Passing, Range

\* Where each call passes and fits one operation nothing fails, and only there.
LEMMA FaultsFail ==
    ASSUME FindingsTyped, IsFiniteSet(operations)
    PROVE  SemanticFailures # {} <=> FaultyOperations # {}
<1>1. FaultyOperations # {} => SemanticFailures # {}
  BY FaultIsAFailure
<1>2. ASSUME NEW pass \in Passes, NEW x \in Observations(pass),
             ~Passing(x.operation, log[x.event])
      PROVE  FaultyOperations # {}
  <2>1. PICK i \in DOMAIN log, o \in operations :
          x = Observation(i, o) /\ Fitting(log[i]) = {o}
    BY PassesGoWhereEventsFit
  <2>2. o \in FaultyOperations
    BY <1>2, <2>1 DEF FaultyOperations, Observation
  <2> QED
    BY <2>2
<1>3. ASSUME NEW f \in PayloadFailures
      PROVE  FaultyOperations # {}
  <2>1. PICK d \in PayloadDiagnostics : d.code \in DOMAIN PayloadFailureCode
    BY DEF PayloadFailures
  <2>2. PICK x \in Observations(PayloadLookUp), t \in Targets :
          d = [event |-> x.event, operation |-> x.operation, target |-> t,
               code |-> PayloadCode(t, x.operation, log[x.event])]
    BY DEF PayloadDiagnostics
  <2>3. PayloadCode(t, x.operation, log[x.event]) \notin
          {None, "VALID", "NO_DECLARED_CONTENT", "RECORDER_OMITTED"}
    BY <2>1, <2>2 DEF PayloadFailureCode, None
  <2>4. ~Passing(x.operation, log[x.event])
    BY <2>3 DEF Passing
  <2> QED
    BY <1>2, <2>4 DEF Passes
<1>4. ASSUME NEW f \in RequestFailures
      PROVE  FaultyOperations # {}
  <2>1. PICK d \in RequestDiagnostics : d.truth \in DOMAIN RequestFailureCode
    BY DEF RequestFailures
  <2>2. PICK x \in Observations(RequestLookUp) : d \in RequestDiagnosticsOf(x)
    BY DEF RequestDiagnostics
  <2>3. d.truth \in Range(ParameterTruths(x.operation, log[x.event]))
    BY <2>2 DEF RequestDiagnosticsOf, Range
  <2>4. d.truth # "captured-valid"
    BY <2>1 DEF RequestFailureCode
  <2>5. ~Passing(x.operation, log[x.event])
    BY <2>3, <2>4 DEF Passing
  <2> QED
    BY <1>2, <2>5 DEF Passes
<1>5. ASSUME NEW f \in SecurityFailures
      PROVE  FaultyOperations # {}
  <2>1. PICK d \in SecurityDiagnostics : d.truth \in DOMAIN SecurityFailureCode
    BY DEF SecurityFailures
  <2>2. PICK x \in Observations(SecurityLookUp) :
          d = [event |-> x.event, operation |-> x.operation,
               truth |-> SecurityTruth(x.operation, log[x.event])]
    BY DEF SecurityDiagnostics
  <2>3. SecurityTruth(x.operation, log[x.event]) \notin
          {None, "satisfied", "optional", "clear"}
    BY <2>1, <2>2 DEF SecurityFailureCode, None
  <2>4. ~Passing(x.operation, log[x.event])
    BY <2>3 DEF Passing
  <2> QED
    BY <1>2, <2>4 DEF Passes
<1> QED
  BY <1>1, <1>3, <1>4, <1>5 DEF SemanticFailures

\* A count tells whether there are any of a kind.
LEMMA CountsOfDiagnostics ==
    ASSUME TypeOK
    PROVE  \A kind : DiagnosticCount(kind) > 0 <=> DiagnosedAs(kind)
<1> SUFFICES ASSUME NEW kind
             PROVE  DiagnosticCount(kind) > 0 <=> DiagnosedAs(kind)
  OBVIOUS
<1> DEFINE of == {i \in DOMAIN diagnostics : diagnostics[i].kind = kind}
<1>1. IsFiniteSet(DOMAIN diagnostics)
  <2>1. diagnostics \in Seq(DiagnosticType)
    BY DEF TypeOK
  <2>2. /\ DOMAIN diagnostics = 1..Len(diagnostics)
        /\ 1 \in Int /\ Len(diagnostics) \in Int
    BY <2>1
  <2> QED
    BY <2>2, FS_Interval
<1>2. IsFiniteSet(of)
  BY <1>1, FS_Subset
<1>3. of # {} <=> DiagnosedAs(kind)
  BY DEF DiagnosedAs
<1>4. DiagnosticCount(kind) = Cardinality(of)
  BY DEF DiagnosticCount
<1> HIDE DEF of
<1>5. Cardinality(of) \in Nat /\ (Cardinality(of) = 0 <=> of = {})
  BY <1>2, FS_CardinalityType, FS_EmptySet
<1> QED
  BY <1>3, <1>4, <1>5

\* Where the loop went on, its diagnostics tell what fits no operation or several.
LEMMA DiagnosticsTellTheLog ==
    ASSUME TypeOK, LogInv, ~thrown, IsFiniteSet(operations)
    PROVE  /\ DiagnosticCount("ambiguous") > 0 <=>
                  \E i \in DOMAIN log : Cardinality(Fitting(log[i])) > 1
           /\ ~(DiagnosticCount("ambiguous") > 0) /\ ~(DiagnosticCount("unmatched") > 0) <=>
                  \A i \in DOMAIN log : \E o \in operations : Fitting(log[i]) = {o}
<1>1. \A kind \in {"unmatched", "ambiguous"} :
        DiagnosticCount(kind) > 0 <=> \E i \in DOMAIN log : FittingKind(log[i]) = kind
  BY CountsOfDiagnostics DEF LogInv
<1>2. ASSUME NEW event
      PROVE  FittingKind(event) = "ambiguous" <=> Cardinality(Fitting(event)) > 1
  <2> DEFINE fitting == Fitting(event)
  <2>1. fitting \subseteq operations /\ IsFiniteSet(fitting)
    BY FittingInScope, FS_Subset
  <2>2. FittingKind(event) = IF fitting = {} THEN "unmatched"
                             ELSE IF \E o \in operations : fitting = {o} THEN "matched"
                             ELSE "ambiguous"
    BY DEF FittingKind
  <2> HIDE DEF fitting
  <2>3. /\ Cardinality(fitting) \in Nat
        /\ Cardinality(fitting) = 0 <=> fitting = {}
        /\ Cardinality(fitting) = 1 <=> \E o : fitting = {o}
    BY <2>1, FS_CardinalityType, FS_EmptySet, FS_Singleton
  <2>4. (\E o : fitting = {o}) <=> \E o \in operations : fitting = {o}
    BY <2>1
  <2>5. FittingKind(event) = "ambiguous" <=>
          Cardinality(fitting) # 0 /\ Cardinality(fitting) # 1
    BY <2>2, <2>3, <2>4
  <2>6. FittingKind(event) = "ambiguous" <=> Cardinality(fitting) > 1
    BY <2>3, <2>5
  <2> QED
    BY <2>6 DEF fitting
<1>3. \A event : FittingKind(event) \notin {"unmatched", "ambiguous"} <=>
                     \E o \in operations : Fitting(event) = {o}
  BY DEF FittingKind
<1> QED
  BY <1>1, <1>2, <1>3

\* What the status says of any log, however much is declared.
StatusTellsOfAnySize(status) ==
    /\ status = "invalid" <=>
           \E i \in DOMAIN log : Cardinality(Fitting(log[i])) > 1
    /\ status = "ok" =>
           /\ Blameless
           /\ WrittenOperations # {}
           /\ \A o \in WrittenOperations :
                  \E i \in DOMAIN log : Fitting(log[i]) = {o}
    /\ Blameless /\ FullyCovered => status = "ok"

\* What the report tells of the log.  Left out is only what the rounding of very
\* many statuses or parameters may hide of a report that is "ok".
ReportTellsOfAnySize ==
    ~thrown =>
        /\ SameSuites
        /\ SectionsAgree(BuildReport)
        /\ \A setting \in Settings :
               StatusTellsOfAnySize(ResolveReportStatus(setting))

\* The report has a finding that fails exactly where the log has one.
LEMMA SemanticFailuresTell ==
    ASSUME TypeOK, ContractInv, NEW setting \in Settings
    PROVE  (\E f \in GovernanceDiagnostics(setting) : f.kind = "semantic")
             <=> FaultyOperations # {}
<1>1. \A f \in SemanticFailures : f.kind = "semantic"
  BY FindingFailures, FindingsAreTyped
<1>2. GovernanceDiagnostics(setting) = EvaluateGateFailures(setting)
  BY GateFailuresAreKnown DEF GovernanceDiagnostics, SemanticFailures
<1>3. SemanticFailures # {} <=> FaultyOperations # {}
  BY ContractsAreFinite, FindingsAreTyped, FaultsFail
<1> QED
  BY <1>1, <1>2, <1>3, GateFailuresAreKnown

\* Full dimensions have exactly 100%, however large they are.
LEMMA FullIsFull ==
    ASSUME NEW total \in Nat, NEW percent, percent = SummarizeDimension(total, total)
    PROVE  /\ total = 0 => percent = NotApplicable
           /\ total # 0 => percent = FullPercent
BY AllCoveredIsFull DEF SummarizeDimension

\* What is covered in full is called COVERED, in sum.
LEMMA FullCoverageIsCovered ==
    ASSUME TypeOK, ContractInv, LogInv, ~thrown, FullyCovered
    PROVE  CoveredOperations = operations /\ StateFromPercent(AggregatePercent) = "COVERED"
<1>0. IsFiniteSet(operations)
  BY ContractsAreFinite
<1>1. WrittenOperations = operations
  BY WrittenInScope
<1>2. CoveredOperations = operations
  BY <1>0, <1>1, SuitesAreTheSame DEF FullyCovered, CoveredOperations, EventsAt
<1> DEFINE declared == Cardinality(operations)
           whole    == [o \in operations |-> StatusesOf(o)]
           all      == [o \in operations |-> RequiredOf(o)]
           statuses == SumFunction([o \in operations |-> Cardinality(StatusesOf(o))])
           required == SumFunction([o \in operations |-> Cardinality(RequiredOf(o))])
<1>3. declared \in Nat /\ declared # 0
  BY <1>0, <1>1, FS_CardinalityType, FS_EmptySet DEF FullyCovered
<1>4. /\ \A o \in operations : IsFiniteSet(StatusesOf(o)) /\ IsFiniteSet(RequiredOf(o))
      /\ \E o \in operations : StatusesOf(o) # {}
      /\ \E o \in operations : RequiredOf(o) # {}
  BY ContractsAreFinite DEF FullyCovered, Complete, RequiredOf
<1>5. statuses \in Nat /\ statuses # 0
  <2>1. [o \in operations |-> Cardinality(whole[o])]
          = [o \in operations |-> Cardinality(StatusesOf(o))]
    OBVIOUS
  <2>2. statuses = SumFunction([o \in operations |-> Cardinality(whole[o])])
    BY <2>1
  <2>3. /\ \A o \in operations : IsFiniteSet(whole[o]) /\ whole[o] \subseteq whole[o]
        /\ \E o \in operations : whole[o] # {}
    BY <1>4
  <2> HIDE DEF whole, statuses
  <2> QED BY <1>0, <2>2, <2>3, CountsTell
<1>6. required \in Nat /\ required # 0
  <2>1. [o \in operations |-> Cardinality(all[o])]
          = [o \in operations |-> Cardinality(RequiredOf(o))]
    OBVIOUS
  <2>2. required = SumFunction([o \in operations |-> Cardinality(all[o])])
    BY <2>1
  <2>3. /\ \A o \in operations : IsFiniteSet(all[o]) /\ all[o] \subseteq all[o]
        /\ \E o \in operations : all[o] # {}
    BY <1>4
  <2> HIDE DEF all, required
  <2> QED BY <1>0, <2>2, <2>3, CountsTell
<1>7. /\ [o \in operations |-> Cardinality(StatusesHit(o))]
           = [o \in operations |-> Cardinality(StatusesOf(o))]
      /\ [o \in operations |-> Cardinality(RequiredHit(o))]
           = [o \in operations |-> Cardinality(RequiredOf(o))]
  BY DEF FullyCovered, Complete
<1>8. /\ OperationsPercent = SummarizeDimension(declared, declared)
      /\ StatusPercent = SummarizeDimension(statuses, statuses)
      /\ ParametersPercent = SummarizeDimension(required, required)
  BY <1>2, <1>7 DEF OperationsPercent, StatusPercent, ParametersPercent
<1> HIDE DEF declared, statuses, required
<1>9. /\ OperationsPercent = FullPercent
      /\ StatusPercent = FullPercent
      /\ ParametersPercent = FullPercent
  BY <1>3, <1>5, <1>6, <1>8, FullIsFull
<1>10. FullPercent \in 0..FullPercent \cup {NotApplicable}
  BY DEF FullPercent
<1>11. StateFromPercent(AggregatePercent) = "COVERED"
  BY <1>9, <1>10, AggregateState DEF AggregatePercent
<1> QED BY <1>2, <1>11

\* Without operations there is no aggregate.
LEMMA NothingIsNotCovered ==
    ASSUME ContractInv, operations = {}
    PROVE  StateFromPercent(AggregatePercent) # "COVERED"
<1>1. Cardinality(operations) = 0
  BY FS_EmptySet
<1>2. OperationsPercent = NotApplicable
  BY <1>1 DEF OperationsPercent, SummarizeDimension
<1>3. AggregatePercent = NotApplicable
  BY <1>2 DEF AggregatePercent, SummarizeAggregate
<1> QED BY <1>3 DEF StateFromPercent

\* The status: what makes it "invalid", what it takes to be "ok", and what is
\* enough for that.
LEMMA StatusTellsAnySize ==
    ASSUME TypeOK, ContractInv, LogInv, ~thrown, NEW setting \in Settings
    PROVE  StatusTellsOfAnySize(ResolveReportStatus(setting))
<1> DEFINE ambiguous == DiagnosticCount("ambiguous") > 0
           unmatched == DiagnosticCount("unmatched") > 0
           failing   == \E f \in GovernanceDiagnostics(setting) : f.kind = "semantic"
           status    == ResolveReportStatus(setting)
           fitted    == \A i \in DOMAIN log : \E o \in operations : Fitting(log[i]) = {o}
           full      == StateFromPercent(AggregatePercent) = "COVERED"
<1>0. IsFiniteSet(operations) /\ FindingsTyped
  BY ContractsAreFinite, FindingsAreTyped
<1>1. /\ ambiguous <=> \E i \in DOMAIN log : Cardinality(Fitting(log[i])) > 1
      /\ ~ambiguous /\ ~unmatched <=> fitted
  BY <1>0, DiagnosticsTellTheLog
<1>2. failing <=> FaultyOperations # {}
  BY SemanticFailuresTell
<1>3. Blameless <=> fitted /\ FaultyOperations = {}
  BY DEF Blameless, FaultyOperations
<1>4. FullyCovered => CoveredOperations = operations /\ full
  BY FullCoverageIsCovered
<1>5. full => operations # {}
  BY NothingIsNotCovered
<1>6. WrittenOperations = operations
  BY WrittenInScope
<1>7. CoveredOperations = operations =>
        \A o \in operations : \E i \in DOMAIN log : Fitting(log[i]) = {o}
  BY <1>0, SuitesAreTheSame DEF CoveredOperations, EventsAt
<1>8. status = IF ambiguous THEN "invalid"
               ELSE IF failing \/ CoveredOperations # operations \/ ~full \/ unmatched
               THEN "partial"
               ELSE "ok"
  BY DEF ResolveReportStatus
<1> HIDE DEF ambiguous, unmatched, failing, status, fitted, full
<1>9. status = "invalid" <=> ambiguous
  BY <1>8
<1>10. status = "ok" =>
         Blameless /\ operations # {} /\ CoveredOperations = operations
  BY <1>1, <1>2, <1>3, <1>5, <1>8
<1>11. Blameless /\ FullyCovered => status = "ok"
  BY <1>1, <1>2, <1>3, <1>4, <1>8
<1> QED
  BY <1>1, <1>6, <1>7, <1>9, <1>10, <1>11 DEF StatusTellsOfAnySize, status

\* However much a document declares, the status is "invalid" exactly if some
\* event fits several operations; it is "ok" if nothing failed and nothing is
\* missing, and only if every event fits one operation and fails nothing there
\* and every operation of the document has an event; and the sections agree:
\* resolveReportStatus, mergeGovernanceDiagnostics and buildReport.
THEOREM ReportsOfAnySizeTellTheLog == Spec => []ReportTellsOfAnySize
<1> DEFINE Inv == TypeOK /\ DeclaredRouteIsNeverMisattributed /\ ContractInv /\ LogInv
<1>1. Init => Inv
  BY InitEstablishes, ContractInvInitially, LogInvInitially DEF CoverageInv
<1>2. Inv /\ [Next]_vars => Inv'
  BY StepPreserves, ContractInvKept, LogInvKept DEF CoverageInv
<1>3. Inv => ReportTellsOfAnySize
  <2> SUFFICES ASSUME Inv, ~thrown
               PROVE  /\ SameSuites
                      /\ SectionsAgree(BuildReport)
                      /\ \A setting \in Settings :
                             StatusTellsOfAnySize(ResolveReportStatus(setting))
    BY DEF ReportTellsOfAnySize
  <2>1. SameSuites
    BY ContractsAreFinite, SuitesAreTheSame
  <2> QED
    BY <2>1, SectionsDoAgree, StatusTellsAnySize
<1> QED
  BY <1>1, <1>2, <1>3, PTL DEF Spec

\* Within the sizes that rounding can tell apart "ok" also means that no status
\* and no parameter is missing.
LEMMA StatusTells ==
    ASSUME TypeOK, ContractInv, LogInv, ~thrown, WithinRounding,
           NEW setting \in Settings
    PROVE  StatusTellsTheLog(ResolveReportStatus(setting))
<1> DEFINE status == ResolveReportStatus(setting)
<1>0. IsFiniteSet(operations)
  BY ContractsAreFinite
<1>1. StatusTellsOfAnySize(status)
  BY StatusTellsAnySize
<1>2. status = "ok" =>
        CoveredOperations = operations /\ StateFromPercent(AggregatePercent) = "COVERED"
  BY DEF ResolveReportStatus
<1>3. CoveredOperations = operations /\ StateFromPercent(AggregatePercent) = "COVERED"
        => FullyCovered
  <2>1. WrittenOperations = operations
    BY WrittenInScope
  <2>2. SummariesMatchOperations
    BY SummariesExact
  <2>3. CoveredOperations = operations <=>
          \A o \in operations : \E i \in DOMAIN log : Fitting(log[i]) = {o}
    BY <1>0, SuitesAreTheSame DEF CoveredOperations, EventsAt
  <2>4. StateFromPercent(AggregatePercent) = "COVERED" <=>
          /\ operations # {} /\ CoveredOperations = operations
          /\ Complete(StatusesOf, StatusesHit) /\ Complete(RequiredOf, RequiredHit)
    <3> DEFINE op == StateFromPercent(OperationsPercent)
               st == StateFromPercent(StatusPercent)
               pa == StateFromPercent(ParametersPercent)
    <3>1. /\ op = "COVERED" <=> operations # {} /\ CoveredOperations = operations
          /\ AllOf(st, StatusesOf, StatusesHit)
          /\ AllOf(pa, RequiredOf, RequiredHit)
          /\ StateFromPercent(AggregatePercent) = "COVERED" <=> {op, st, pa} = {"COVERED"}
      BY <2>1, <2>2 DEF SummariesMatchOperations
    <3>2. /\ st = "COVERED" <=> Complete(StatusesOf, StatusesHit)
          /\ pa = "COVERED" <=> Complete(RequiredOf, RequiredHit)
      BY <3>1 DEF AllOf, Complete
    <3> HIDE DEF op, st, pa
    <3>3. {op, st, pa} = {"COVERED"} <=> op = "COVERED" /\ st = "COVERED" /\ pa = "COVERED"
      OBVIOUS
    <3> QED
      BY <3>1, <3>2, <3>3
  <2> QED
    BY <2>1, <2>3, <2>4 DEF FullyCovered
<1> HIDE DEF status
<1>4. status = "ok" <=> Blameless /\ FullyCovered
  BY <1>1, <1>2, <1>3 DEF StatusTellsOfAnySize
<1> QED
  BY <1>1, <1>4 DEF StatusTellsTheLog, StatusTellsOfAnySize, status

\* The status of a report is what the log and the document say, and its sections
\* do not contradict each other, for every document, log, finding, policy and
\* baseline within what the rounding can tell apart: resolveReportStatus,
\* mergeGovernanceDiagnostics and the sections of buildReport.
THEOREM ReportsTellTheLog ==
    ASSUME WithinRounding
    PROVE  Spec => []ReportTellsTheLog
<1> DEFINE Inv == TypeOK /\ DeclaredRouteIsNeverMisattributed /\ ContractInv /\ LogInv
<1>1. Init => Inv
  BY InitEstablishes, ContractInvInitially, LogInvInitially DEF CoverageInv
<1>2. Inv /\ [Next]_vars => Inv'
  BY StepPreserves, ContractInvKept, LogInvKept DEF CoverageInv
<1>3. Inv => ReportTellsTheLog
  <2> SUFFICES ASSUME Inv, ~thrown
               PROVE  /\ SameSuites
                      /\ SectionsAgree(BuildReport)
                      /\ \A setting \in Settings :
                             StatusTellsTheLog(ResolveReportStatus(setting))
    BY DEF ReportTellsTheLog
  <2>1. SameSuites
    BY ContractsAreFinite, SuitesAreTheSame
  <2> QED
    BY <2>1, SectionsDoAgree, StatusTells
<1> QED
  BY <1>1, <1>2, <1>3, PTL DEF Spec

-----------------------------------------------------------------------------
(* The summary                                                             *)

\* The failures of a run: those of findings, one for the fail-closed status,
\* and others that are not "semantic".
Known(failures) ==
    /\ SemanticFailures \subseteq failures
    /\ \A f \in failures :
           \/ f \in SemanticFailures \cup {FailClosed}
           \/ f.kind \in {"input", "regression", "threshold", "runtime"}

LEMMA FailuresAreKnown ==
    ASSUME NEW setting \in Settings, NEW others \in SUBSET OtherFailures
    PROVE  Known(others \cup JudgedFailures(setting))
<1>1. \A f \in others : f.kind \in {"input", "runtime"}
  BY DEF OtherFailures, Failure
<1> QED
  BY <1>1, GateFailuresAreKnown DEF Known, JudgedFailures

\* The class of a failure decides, and within one class its code.
Weight(f) == 20 * Gates!Precedence[f.kind] + SemanticCodeRank(f)

\* Some failure is the primary one: the weights are numbers, of which one is the
\* least.
LEMMA PrimaryFailureExists ==
    ASSUME NEW failures, Known(failures), failures # {}
    PROVE  PrimaryFailures(failures) # {}
<1>1. \A f \in failures :
        /\ Gates!Precedence[f.kind] \in 0..4
        /\ SemanticCodeRank(f) \in 0..14
  <2> SUFFICES ASSUME NEW f \in failures
               PROVE  /\ Gates!Precedence[f.kind] \in 0..4
                      /\ SemanticCodeRank(f) \in 0..14
    OBVIOUS
  <2>1. CASE f \in SemanticFailures \cup {FailClosed}
    <3>1. f.kind = "semantic"
      BY <2>1, FindingFailures DEF FailClosed, Failure
    <3>2. SemanticCodeRank(f) \in 0..14
      BY <2>1, FindingFailures, FailClosedIsLast
    <3> QED
      BY <3>1, <3>2 DEF Gates!Precedence
  <2>2. CASE f.kind \in {"input", "regression", "threshold", "runtime"}
    BY <2>2 DEF Gates!Precedence, SemanticCodeRank
  <2> QED
    BY <2>1, <2>2 DEF Known
<1>2. \A f \in failures : Weight(f) \in Nat
  BY <1>1 DEF Weight
<1>3. {Weight(f) : f \in failures} \in SUBSET Nat /\ {Weight(f) : f \in failures} # {}
  BY <1>2
<1>4. PICK n \in {Weight(f) : f \in failures} :
        \A m \in {Weight(f) : f \in failures} : n <= m
  BY <1>3, LeastOfNumbers
<1>5. PICK p \in failures : n = Weight(p)
  BY <1>4
<1>6. \A g \in failures : ~Precedes(g, p)
  <2> SUFFICES ASSUME NEW g \in failures, Precedes(g, p) PROVE FALSE
    OBVIOUS
  <2>1. Weight(p) <= Weight(g)
    BY <1>4, <1>5
  <2>2. Weight(g) < Weight(p)
    <3> DEFINE a == Gates!Precedence[g.kind]
               b == Gates!Precedence[p.kind]
               c == SemanticCodeRank(g)
               d == SemanticCodeRank(p)
    <3>1. a \in 0..4 /\ b \in 0..4 /\ c \in 0..14 /\ d \in 0..14
      BY <1>1
    <3>2. a < b \/ (a = b /\ c < d)
      BY DEF Precedes
    <3> HIDE DEF a, b, c, d
    <3>3. 20 * a + c < 20 * b + d
      BY <3>1, <3>2
    <3> QED
      BY <3>3 DEF a, b, c, d, Weight
  <2> QED
    BY <1>2, <2>1, <2>2
<1> QED
  BY <1>6 DEF PrimaryFailures

\* It is of the kind that gives the exit code; if findings failed it is one of
\* theirs before the fail-closed status.
LEMMA PrimaryGivesExitCode ==
    ASSUME NEW failures, Known(failures), NEW p \in PrimaryFailures(failures),
           NEW exit, exit = Gates!ExitCode({f.kind : f \in failures})
    PROVE  /\ exit # 0 /\ Gates!EXIT[p.kind] = exit
           /\ exit = Gates!EXIT.semantic => (p = FailClosed <=> SemanticFailures = {})
<1> DEFINE kinds == {f.kind : f \in failures}
           rank(k) == Gates!Precedence[k]
           Five == {"input", "semantic", "regression", "threshold", "runtime"}
<1>0. /\ \A j, k \in Five : rank(j) = rank(k) => j = k
      /\ \A k \in Five : rank(k) \in Nat
      /\ \A k \in Five : /\ Gates!EXIT[k] # 0
                         /\ Gates!EXIT[k] = Gates!EXIT.semantic => k = "semantic"
  BY DEF Gates!Precedence, Gates!EXIT
<1>1. p \in failures /\ \A g \in failures : ~Precedes(g, p)
  BY DEF PrimaryFailures
<1>2. kinds \subseteq Five
  BY FindingFailures DEF Known, FailClosed, Failure
<1>3. p.kind \in kinds
  BY <1>1
<1>4. \A k \in kinds : rank(p.kind) <= rank(k)
  BY <1>0, <1>1, <1>2 DEF Precedes
<1> HIDE DEF kinds, Five, rank
<1>5. \A k \in kinds : rank(k) <= rank(p.kind) => k = p.kind
  BY <1>0, <1>2, <1>3, <1>4
<1>6. Gates!PrimaryFailure(kinds) =
        CHOOSE k \in kinds : \A other \in kinds : rank(k) <= rank(other)
  BY DEF Gates!PrimaryFailure, rank
<1>7. Gates!PrimaryFailure(kinds) = p.kind
  BY <1>3, <1>4, <1>5, <1>6
<1>8. exit = Gates!EXIT[p.kind]
  BY <1>3, <1>7 DEF Gates!ExitCode, kinds
<1>9. exit # 0 /\ (exit = Gates!EXIT.semantic => p.kind = "semantic")
  BY <1>0, <1>2, <1>3, <1>8
<1>10. ASSUME p.kind = "semantic"
       PROVE  p = FailClosed <=> SemanticFailures = {}
  <2>1. p \in SemanticFailures \cup {FailClosed}
    BY <1>1, <1>10 DEF Known
  <2>2. ASSUME NEW s \in SemanticFailures, p = FailClosed PROVE FALSE
    <3>1. s \in failures /\ s.kind = p.kind
      BY <1>10, FindingFailures DEF Known
    <3>2. SemanticCodeRank(s) < SemanticCodeRank(p)
      BY <2>2, FindingFailures, FailClosedIsLast
    <3> QED
      BY <1>1, <3>1, <3>2 DEF Precedes
  <2> QED
    BY <2>1, <2>2
<1> QED
  BY <1>8, <1>9, <1>10

\* What the first issue tells.
LEMMA FirstIssueTellsExitCode ==
    ASSUME NEW failures, Known(failures)
    PROVE  LET summary == SummaryOutput(failures)
           IN  /\ \A x \in summary.first : TellsExitCode(x, summary.exit)
               /\ summary.exit # 0 => summary.first # {}
<1> DEFINE issues == CollectIssues(failures)
           first  == FirstIssues(issues, failures)
           exit   == Gates!ExitCode({f.kind : f \in failures})
<1>1. SummaryOutput(failures).first = first /\ SummaryOutput(failures).exit = exit
  BY DEF SummaryOutput
<1>2. CASE failures = {}
  <2>1. exit = 0
    BY <1>2 DEF Gates!ExitCode
  <2>2. \A x \in issues : x.rank \in {1, 2}
    BY <1>2 DEF CollectIssues, DiagnosticIssues, PayloadIssues, RequestIssues,
                SecurityIssues, UncoveredIssues, Issue
  <2>3. first \subseteq issues
    BY <1>2 DEF FirstIssues, SortedFirst
  <2> QED
    BY <1>1, <2>1, <2>2, <2>3 DEF TellsExitCode
<1>3. CASE failures # {}
  <2>1. \A x \in first : x.rank = 0 /\ x.about \in PrimaryFailures(failures)
    BY <1>3 DEF FirstIssues
  <2>2. \A x \in first : TellsExitCode(x, exit)
    BY <2>1, PrimaryGivesExitCode DEF TellsExitCode
  <2>3. PICK p \in PrimaryFailures(failures) : TRUE
    BY <1>3, PrimaryFailureExists
  <2>4. Issue(0, p) \in issues
    BY <2>3 DEF CollectIssues, PrimaryFailures
  <2>5. Issue(0, p) \in first
    BY <1>3, <2>3, <2>4 DEF FirstIssues, Issue
  <2> QED
    BY <1>1, <2>2, <2>5
<1> QED
  BY <1>2, <1>3

\* Put together, with what is listed.
LEMMA SummaryShowsVerdict ==
    ASSUME FindingsTyped, NEW failures, Known(failures)
    PROVE  ShowsVerdict(SummaryOutput(failures))
<1> DEFINE listed == SummaryOutput(failures).listed
<1>1. listed = {x.about : x \in CollectIssues(failures)}
  BY DEF SummaryOutput
<1>2. \A n, a : Issue(n, a) \in CollectIssues(failures) => a \in listed
  <2> SUFFICES ASSUME NEW n, NEW a, Issue(n, a) \in CollectIssues(failures)
               PROVE  a \in listed
    OBVIOUS
  <2>1. Issue(n, a).about = a
    BY DEF Issue
  <2> QED
    BY <1>1, <2>1
<1> HIDE DEF listed
<1>3. ToSet(diagnostics) \cup (operations \ CoveredOperations) \subseteq listed
  <2>1. ASSUME NEW d \in ToSet(diagnostics)
        PROVE  d \in listed
    <3>1. \E n : Issue(n, d) \in DiagnosticIssues
      BY DEF DiagnosticIssues
    <3> QED
      BY <1>2, <3>1 DEF CollectIssues
  <2>2. ASSUME NEW o \in operations \ CoveredOperations
        PROVE  o \in listed
    <3>1. Issue(2, o) \in UncoveredIssues
      BY DEF UncoveredIssues
    <3> QED
      BY <1>2, <3>1 DEF CollectIssues
  <2> QED
    BY <2>1, <2>2
<1>4. SemanticFailures \subseteq listed
  <2> SUFFICES ASSUME NEW f \in SemanticFailures PROVE f \in listed
    OBVIOUS
  <2>1. Issue(0, f) \in CollectIssues(failures)
    BY DEF CollectIssues, Known
  <2> QED
    BY <1>2, <2>1
<1>5. FaultyOperations \subseteq {f.operation : f \in SemanticFailures \cap listed}
  BY <1>4, FaultIsAFailure
<1> QED
  BY <1>3, <1>5, FirstIssueTellsExitCode DEF ShowsVerdict, listed

\* The first line of the summary is the failure that gave the exit code, and
\* everything that is wrong is listed, for every document, log, finding, policy
\* and baseline: selectPrimaryFailure, collectIssues and prioritizePrimaryIssue.
THEOREM VerdictsAreShown == Spec => []VerdictIsShown
<1>1. Init => CoverageInv /\ ContractInv
  BY InitEstablishes, ContractInvInitially
<1>2. CoverageInv /\ ContractInv /\ [Next]_vars => (CoverageInv /\ ContractInv)'
  BY StepPreserves, ContractInvKept
<1>3. CoverageInv /\ ContractInv => VerdictIsShown
  BY FindingsAreTyped, FailuresAreKnown, SummaryShowsVerdict
     DEF VerdictIsShown, CoverageInv
<1> QED
  BY <1>1, <1>2, <1>3, PTL DEF Spec

-----------------------------------------------------------------------------
(* The percentages of any document                                         *)

\* What the percentages of a report say, however much the document declares:
\* there is no percentage exactly of what declares nothing, none exceeds 100%,
\* what is covered in full has exactly 100%, and the aggregate is missing
\* exactly if one of the three is, and else lies between the lowest and the
\* highest of them.
PercentagesTell ==
    LET percents == {OperationsPercent, StatusPercent, ParametersPercent}
    IN  /\ percents \cup {AggregatePercent} \subseteq 0..FullPercent \cup {NotApplicable}
        /\ OperationsPercent = NotApplicable <=> operations = {}
        /\ StatusPercent = NotApplicable <=> \A o \in operations : StatusesOf(o) = {}
        /\ ParametersPercent = NotApplicable <=> \A o \in operations : RequiredOf(o) = {}
        /\ OperationsPercent # NotApplicable /\ CoveredOperations = operations =>
              OperationsPercent = FullPercent
        /\ StatusPercent # NotApplicable
              /\ (\A o \in operations : StatusesHit(o) = StatusesOf(o)) =>
              StatusPercent = FullPercent
        /\ ParametersPercent # NotApplicable
              /\ (\A o \in operations : RequiredHit(o) = RequiredOf(o)) =>
              ParametersPercent = FullPercent
        /\ AggregatePercent = NotApplicable <=> NotApplicable \in percents
        /\ AggregatePercent # NotApplicable =>
              \E low, high \in percents :
                  low <= AggregatePercent /\ AggregatePercent <= high

\* A dimension's percentage, of any size.
LEMMA DimensionOfAnySize ==
    ASSUME NEW total \in Nat, NEW covered \in 0..total,
           NEW percent, percent = SummarizeDimension(covered, total)
    PROVE  /\ percent \in 0..FullPercent \cup {NotApplicable}
           /\ percent = NotApplicable <=> total = 0
           /\ percent # NotApplicable /\ covered = total => percent = FullPercent
<1>1. CASE total = 0
  BY <1>1 DEF SummarizeDimension
<1>2. CASE total # 0
  <2>1. SummarizeDimension(total, total) = FullPercent
    BY <1>2, FullIsFull
  <2>2. /\ percent <= FullPercent
        /\ percent \in Nat
        /\ percent # NotApplicable
    <3>1. /\ SummarizeDimension(covered, total) <= SummarizeDimension(total, total)
          /\ SummarizeDimension(covered, total) # NotApplicable
          /\ SummarizeDimension(covered, total) \in Nat
      <4>1. covered \in Nat /\ covered <= total
        OBVIOUS
      <4>2. /\ SummarizeDimension(covered, total) <= SummarizeDimension(total, total)
            /\ SummarizeDimension(covered, total) = NotApplicable <=> total = 0
            /\ total # 0 => SummarizeDimension(covered, total) \in Nat
        BY <4>1, DimensionGrows
      <4> QED
        BY <1>2, <4>2
    <3> QED
      BY <2>1, <3>1
  <2>3. percent \in 0..FullPercent
    <3>1. FullPercent \in Nat
      BY DEF FullPercent
    <3> QED
      BY <2>2, <3>1
  <2> QED
    BY <1>2, <2>1, <2>2, <2>3
<1> QED
  BY <1>1, <1>2

\* A rounded weighted mean does not leave the range of its parts.
LEMMA MeanIsBetween ==
    ASSUME NEW o \in Nat, NEW s \in Nat, NEW p \in Nat,
           NEW low \in {o, s, p}, NEW high \in {o, s, p},
           low <= o, low <= s, low <= p, o <= high, s <= high, p <= high
    PROVE  /\ (60 * o + 25 * s + 15 * p + 50) \div 100 \in Nat
           /\ low <= (60 * o + 25 * s + 15 * p + 50) \div 100
           /\ (60 * o + 25 * s + 15 * p + 50) \div 100 <= high
<1> DEFINE n == 60 * o + 25 * s + 15 * p + 50
<1>1. /\ low \in Nat /\ high \in Nat /\ n \in Nat
      /\ 100 * low + 50 <= n /\ n <= 100 * high + 50
  OBVIOUS
<1> HIDE DEF n
<1>2. n \div 100 \in Nat /\ low <= n \div 100 /\ n \div 100 <= high
  BY <1>1, Z3
<1> QED
  BY <1>2 DEF n

\* Three numbers have a lowest and a highest.
LEMMA LowestAndHighest ==
    ASSUME NEW o \in Nat, NEW s \in Nat, NEW p \in Nat
    PROVE  \E low, high \in {o, s, p} :
               /\ low <= o /\ low <= s /\ low <= p
               /\ o <= high /\ s <= high /\ p <= high
<1>1. \E low \in {o, s, p} : low <= o /\ low <= s /\ low <= p
  OBVIOUS
<1>2. \E high \in {o, s, p} : o <= high /\ s <= high /\ p <= high
  OBVIOUS
<1> QED
  BY <1>1, <1>2

\* The aggregate, of dimensions of any size.
LEMMA AggregateOfAnySize ==
    ASSUME NEW o \in 0..FullPercent \cup {NotApplicable},
           NEW s \in 0..FullPercent \cup {NotApplicable},
           NEW p \in 0..FullPercent \cup {NotApplicable},
           NEW percent, percent = SummarizeAggregate(o, s, p)
    PROVE  /\ percent \in 0..FullPercent \cup {NotApplicable}
           /\ percent = NotApplicable <=> NotApplicable \in {o, s, p}
           /\ percent # NotApplicable =>
                 \E low, high \in {o, s, p} : low <= percent /\ percent <= high
<1>1. CASE NotApplicable \in {o, s, p}
  BY <1>1 DEF SummarizeAggregate
<1>2. CASE NotApplicable \notin {o, s, p}
  <2>1. /\ o \in 0..FullPercent /\ s \in 0..FullPercent /\ p \in 0..FullPercent
    BY <1>2
  <2>2. /\ o \in Nat /\ s \in Nat /\ p \in Nat
        /\ \A n \in {o, s, p} : n <= FullPercent
    BY <2>1 DEF FullPercent
  <2>3. PICK low \in {o, s, p}, high \in {o, s, p} :
               /\ low <= o /\ low <= s /\ low <= p
               /\ o <= high /\ s <= high /\ p <= high
    BY <2>2, LowestAndHighest
  <2>4. percent = (60 * o + 25 * s + 15 * p + 50) \div 100
    BY <1>2 DEF SummarizeAggregate
  <2>5. percent \in Nat /\ low <= percent /\ percent <= high
    <3>1. /\ (60 * o + 25 * s + 15 * p + 50) \div 100 \in Nat
          /\ low <= (60 * o + 25 * s + 15 * p + 50) \div 100
          /\ (60 * o + 25 * s + 15 * p + 50) \div 100 <= high
      BY <2>2, <2>3, MeanIsBetween
    <3> QED
      BY <2>4, <3>1
  <2>6. percent \in 0..FullPercent
    <3>1. high <= FullPercent /\ high \in Nat /\ FullPercent \in Nat
      BY <2>2 DEF FullPercent
    <3>2. percent \in Nat /\ percent <= FullPercent
      BY <2>5, <3>1
    <3> QED
      BY <3>1, <3>2
  <2>7. percent # NotApplicable
    BY <2>5 DEF NotApplicable
  <2> QED
    BY <1>2, <2>5, <2>6, <2>7
<1> QED
  BY <1>1, <1>2

LEMMA PercentagesDoTell ==
    ASSUME ContractInv
    PROVE  PercentagesTell
<1> DEFINE declared == Cardinality(operations)
           observed == Cardinality(CoveredOperations)
           whole    == [o \in operations |-> StatusesOf(o)]
           part     == [o \in operations |-> StatusesHit(o)]
           statuses == SumFunction([o \in operations |-> Cardinality(StatusesOf(o))])
           hit      == SumFunction([o \in operations |-> Cardinality(StatusesHit(o))])
           all      == [o \in operations |-> RequiredOf(o)]
           met      == [o \in operations |-> RequiredHit(o)]
           required == SumFunction([o \in operations |-> Cardinality(RequiredOf(o))])
           found    == SumFunction([o \in operations |-> Cardinality(RequiredHit(o))])
<1>0. IsFiniteSet(operations)
  BY ContractsAreFinite
<1>1. /\ declared \in Nat /\ observed \in 0..declared
      /\ declared = 0 <=> operations = {}
      /\ CoveredOperations = operations => observed = declared
  <2>1. CoveredOperations \subseteq operations
    BY DEF CoveredOperations
  <2>2. observed <= declared /\ IsFiniteSet(CoveredOperations)
    BY <1>0, <2>1, FS_Subset
  <2>3. declared \in Nat /\ observed \in Nat
    BY <1>0, <2>2, FS_CardinalityType
  <2>4. declared = 0 <=> operations = {}
    BY <1>0, FS_EmptySet
  <2>5. CoveredOperations = operations => observed = declared
    OBVIOUS
  <2> HIDE DEF declared, observed
  <2> QED
    BY <2>2, <2>3, <2>4, <2>5
<1>2. /\ \A o \in operations : IsFiniteSet(whole[o]) /\ part[o] \subseteq whole[o]
      /\ \A o \in operations : IsFiniteSet(all[o]) /\ met[o] \subseteq all[o]
  BY ContractsAreFinite DEF StatusesHit, CoveredStatuses, RequiredHit,
                            CoveredParameters, RequiredOf
<1>3. /\ \A o \in operations : whole[o] = StatusesOf(o) /\ part[o] = StatusesHit(o)
      /\ \A o \in operations : all[o] = RequiredOf(o) /\ met[o] = RequiredHit(o)
  OBVIOUS
<1>4. /\ [o \in operations |-> Cardinality(whole[o])]
           = [o \in operations |-> Cardinality(StatusesOf(o))]
      /\ [o \in operations |-> Cardinality(part[o])]
           = [o \in operations |-> Cardinality(StatusesHit(o))]
      /\ [o \in operations |-> Cardinality(all[o])]
           = [o \in operations |-> Cardinality(RequiredOf(o))]
      /\ [o \in operations |-> Cardinality(met[o])]
           = [o \in operations |-> Cardinality(RequiredHit(o))]
  OBVIOUS
<1>5. /\ statuses = SumFunction([o \in operations |-> Cardinality(whole[o])])
      /\ hit = SumFunction([o \in operations |-> Cardinality(part[o])])
      /\ required = SumFunction([o \in operations |-> Cardinality(all[o])])
      /\ found = SumFunction([o \in operations |-> Cardinality(met[o])])
  BY <1>4
<1>6. /\ OperationsPercent = SummarizeDimension(observed, declared)
      /\ StatusPercent = SummarizeDimension(hit, statuses)
      /\ ParametersPercent = SummarizeDimension(found, required)
  BY DEF OperationsPercent, StatusPercent, ParametersPercent
<1> HIDE DEF declared, observed, whole, part, statuses, hit, all, met, required, found
<1>7. /\ statuses \in Nat /\ hit \in 0..statuses
      /\ statuses # 0 <=> \E o \in operations : whole[o] # {}
      /\ hit = statuses <=> \A o \in operations : part[o] = whole[o]
  <2>1. \A o \in operations : IsFiniteSet(whole[o]) /\ part[o] \subseteq whole[o]
    BY <1>2
  <2>2. statuses = SumFunction([o \in operations |-> Cardinality(whole[o])])
    BY <1>5
  <2>3. hit = SumFunction([o \in operations |-> Cardinality(part[o])])
    BY <1>5
  <2> QED
    BY <1>0, <2>1, <2>2, <2>3, CountsTell
<1>8. /\ required \in Nat /\ found \in 0..required
      /\ required # 0 <=> \E o \in operations : all[o] # {}
      /\ found = required <=> \A o \in operations : met[o] = all[o]
  <2>1. \A o \in operations : IsFiniteSet(all[o]) /\ met[o] \subseteq all[o]
    BY <1>2
  <2>2. required = SumFunction([o \in operations |-> Cardinality(all[o])])
    BY <1>5
  <2>3. found = SumFunction([o \in operations |-> Cardinality(met[o])])
    BY <1>5
  <2> QED
    BY <1>0, <2>1, <2>2, <2>3, CountsTell
<1>9. /\ OperationsPercent \in 0..FullPercent \cup {NotApplicable}
      /\ OperationsPercent = NotApplicable <=> declared = 0
      /\ OperationsPercent # NotApplicable /\ observed = declared =>
            OperationsPercent = FullPercent
  BY <1>1, <1>6, DimensionOfAnySize
<1>10. /\ StatusPercent \in 0..FullPercent \cup {NotApplicable}
       /\ StatusPercent = NotApplicable <=> statuses = 0
       /\ StatusPercent # NotApplicable /\ hit = statuses =>
             StatusPercent = FullPercent
  BY <1>6, <1>7, DimensionOfAnySize
<1>11. /\ ParametersPercent \in 0..FullPercent \cup {NotApplicable}
       /\ ParametersPercent = NotApplicable <=> required = 0
       /\ ParametersPercent # NotApplicable /\ found = required =>
             ParametersPercent = FullPercent
  BY <1>6, <1>8, DimensionOfAnySize
<1>12. LET percents == {OperationsPercent, StatusPercent, ParametersPercent}
       IN  /\ AggregatePercent \in 0..FullPercent \cup {NotApplicable}
           /\ AggregatePercent = NotApplicable <=> NotApplicable \in percents
           /\ AggregatePercent # NotApplicable =>
                 \E low, high \in percents :
                     low <= AggregatePercent /\ AggregatePercent <= high
  BY <1>9, <1>10, <1>11, AggregateOfAnySize DEF AggregatePercent
<1>13. /\ StatusPercent = NotApplicable <=> \A o \in operations : StatusesOf(o) = {}
       /\ (\A o \in operations : StatusesHit(o) = StatusesOf(o)) => hit = statuses
  BY <1>3, <1>7, <1>10
<1>14. /\ ParametersPercent = NotApplicable <=> \A o \in operations : RequiredOf(o) = {}
       /\ (\A o \in operations : RequiredHit(o) = RequiredOf(o)) => found = required
  BY <1>3, <1>8, <1>11
<1> QED
  BY <1>1, <1>9, <1>10, <1>11, <1>12, <1>13, <1>14 DEF PercentagesTell

\* Whatever the document declares and the log holds, the percentages that gates,
\* statuses and the baseline are read from say what PercentagesTell states:
\* summarizeDimension and summarizeAggregate.
THEOREM PercentagesAreSound == Spec => []PercentagesTell
<1>1. ContractInv => PercentagesTell
  BY PercentagesDoTell
<1> QED
  BY <1>1, ContractInvInitially, ContractInvKept, PTL DEF Spec

=============================================================================
