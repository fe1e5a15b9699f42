-------------------------- MODULE ServiceRegistryProofs --------------------------
(***************************************************************************)
(* For any endpoints, offers and group size: why the registry overshoots   *)
(* its limit by no more than the requests that are open, why only a stale  *)
(* discovery breaks the slots, and why the group of a run pays each of its *)
(* services in full with what the wallet holds.                            *)
(***************************************************************************)
EXTENDS ServiceRegistry, FiniteSetTheorems, SequenceTheorems, FunctionTheorems,
        WellFoundedInduction, TLAPS
--------------------------------------------------------------------------------
(* Sums over finite sets. *)

\* A non-empty set of subsets of a finite set has a smallest one: sums are
\* reasoned about by the smallest counterexample.
LEMMA SmallestSubset ==
    ASSUME NEW S, IsFiniteSet(S), NEW B \in SUBSET SUBSET S, B # {}
    PROVE  \E m \in B : \A s \in B : s \subseteq m => s = m
<1>1. B \subseteq FiniteSubsetsOf(S)
  BY FS_Subset DEF FiniteSubsetsOf
<1>2. PICK m \in B : \A s \in B : ~(<<s, m>> \in StrictSubsetOrdering(S))
  BY <1>1, FS_StrictSubsetOrderingWellFounded, WFMin
<1>3. QED BY <1>2 DEF StrictSubsetOrdering

AnyOf(s) == CHOOSE x \in s : TRUE

SumStep(f, it, s) == IF s = {} THEN 0 ELSE f[AnyOf(s)] + it[s \ {AnyOf(s)}]

\* The function SumFunctionOnSet chooses, and one with the same values.
Sums(f, S, it) == it = [s \in SUBSET S |-> SumStep(f, it, s)]
Good(f, S, g) == g \in [SUBSET S -> Nat] /\ \A s \in SUBSET S : g[s] = SumStep(f, g, s)

LEMMA SumChosen ==
    ASSUME NEW f, NEW S
    PROVE  SumFunctionOnSet(f, S) = (CHOOSE it : Sums(f, S, it))[S]
BY Zenon DEF SumFunctionOnSet, FoldFunctionOnSet, MapThenFoldSet, Sums, SumStep, AnyOf

LEMMA GoodUnique ==
    ASSUME NEW S, IsFiniteSet(S), NEW f, NEW g, Good(f, S, g), NEW it, Sums(f, S, it)
    PROVE  it = g
<1> DEFINE B == {s \in SUBSET S : it[s] # g[s]}
<1>0. B \in SUBSET SUBSET S
  OBVIOUS
<1>1. ASSUME B # {} PROVE FALSE
  <2> HIDE DEF B
  <2>1. PICK m \in B : \A s \in B : s \subseteq m => s = m
    BY <1>0, <1>1, SmallestSubset
  <2> USE DEF B
  <2>2. m \in SUBSET S /\ it[m] = SumStep(f, it, m) /\ g[m] = SumStep(f, g, m)
    BY DEF Sums, Good
  <2>3. CASE m = {}
    BY <2>1, <2>2, <2>3 DEF SumStep
  <2>4. CASE m # {}
    <3>1. AnyOf(m) \in m
      BY <2>4 DEF AnyOf
    <3>2. m \ {AnyOf(m)} \notin B
      BY <2>1, <3>1
    <3>3. it[m \ {AnyOf(m)}] = g[m \ {AnyOf(m)}]
      BY <2>2, <3>2
    <3>4. QED BY <2>1, <2>2, <2>4, <3>3 DEF SumStep
  <2>5. QED BY <2>3, <2>4
<1>2. \A s \in SUBSET S : it[s] = g[s]
  BY <1>1
<1>3. it = [s \in SUBSET S |-> it[s]] /\ g = [s \in SUBSET S |-> g[s]]
  BY DEF Sums, Good
<1>4. QED BY <1>2, <1>3

LEMMA GoodSums ==
    ASSUME NEW S, NEW f, NEW g, Good(f, S, g)
    PROVE  Sums(f, S, g)
<1>1. g = [s \in SUBSET S |-> g[s]]
  BY DEF Good
<1>2. QED BY <1>1 DEF Good, Sums

\* Such a function restricted to a smaller set.
LEMMA GoodRestricts ==
    ASSUME NEW S, NEW f, NEW g, Good(f, S, g), NEW T \in SUBSET S
    PROVE  Good(f, T, [s \in SUBSET T |-> g[s]])
<1> DEFINE h == [s \in SUBSET T |-> g[s]]
<1>1. h \in [SUBSET T -> Nat]
  BY DEF Good
<1>2. ASSUME NEW s \in SUBSET T PROVE h[s] = SumStep(f, h, s)
  <2>1. s \ {AnyOf(s)} \in SUBSET T /\ s \in SUBSET S
    OBVIOUS
  <2>2. QED BY <2>1 DEF SumStep, Good
<1>3. QED BY <1>1, <1>2 DEF Good

LEMMA GoodExists ==
    ASSUME NEW S, IsFiniteSet(S), NEW f, \A x \in S : f[x] \in Nat
    PROVE  \E g : Good(f, S, g)
<1> DEFINE H(s) == CHOOSE g : Good(f, s, g)
           B == {T \in SUBSET S : ~ \E g : Good(f, T, g)}
<1>1. SUFFICES ASSUME B # {} PROVE FALSE
  OBVIOUS
<1>2. PICK T \in B : \A s \in B : s \subseteq T => s = T
  <2>1. B \in SUBSET SUBSET S
    OBVIOUS
  <2> HIDE DEF B
  <2>2. QED BY <1>1, <2>1, SmallestSubset
<1>3. T \in SUBSET S /\ IsFiniteSet(T)
  BY FS_Subset
<1>4. \A s \in SUBSET T : s # T => Good(f, s, H(s))
  BY <1>2, <1>3
<1> DEFINE g == [s \in SUBSET T |->
                    IF s # T THEN H(s)[s]
                    ELSE IF T = {} THEN 0
                    ELSE f[AnyOf(T)] + H(T \ {AnyOf(T)})[T \ {AnyOf(T)}]]
<1> HIDE DEF H
<1>5. ASSUME NEW s \in SUBSET T PROVE g[s] \in Nat /\ g[s] = SumStep(f, g, s)
  <2>1. s # {} => AnyOf(s) \in s /\ s \ {AnyOf(s)} \in SUBSET T /\ s \ {AnyOf(s)} # T
    BY DEF AnyOf
  <2>2. CASE s # T
    <3>1. Good(f, s, H(s)) /\ IsFiniteSet(s) /\ g[s] = H(s)[s]
      BY <1>3, <1>4, <2>2, FS_Subset
    <3>2. H(s)[s] \in Nat /\ H(s)[s] = SumStep(f, H(s), s)
      BY <3>1 DEF Good
    <3>3. CASE s = {}
      BY <3>1, <3>2, <3>3 DEF SumStep
    <3>4. CASE s # {}
      <4> DEFINE u == s \ {AnyOf(s)}
                 k == [v \in SUBSET u |-> H(s)[v]]
      <4>1. u \in SUBSET T /\ u # T /\ u \in SUBSET s /\ IsFiniteSet(u)
        BY <1>3, <2>1, <3>4, FS_Subset
      <4>2. Good(f, u, k) /\ Good(f, u, H(u))
        BY <1>4, <3>1, <4>1, GoodRestricts
      <4> HIDE DEF u, k
      <4>3. k = H(u)
        BY <4>1, <4>2, GoodSums, GoodUnique
      <4>4. H(s)[u] = H(u)[u]
        BY <4>3 DEF k
      <4>5. g[u] = H(u)[u]
        BY <4>1
      <4>6. g[s] = f[AnyOf(s)] + g[u]
        BY <3>1, <3>2, <3>4, <4>4, <4>5 DEF SumStep, u
      <4>7. QED BY <3>1, <3>2, <3>4, <4>6 DEF SumStep, u
    <3>5. QED BY <3>3, <3>4
  <2>3. CASE s = T /\ T # {}
    <3> DEFINE u == T \ {AnyOf(T)}
    <3>1. AnyOf(T) \in S /\ u \in SUBSET T /\ u # T
      BY <1>3, <2>1, <2>3
    <3>2. Good(f, u, H(u)) /\ g[u] = H(u)[u]
      BY <1>4, <3>1
    <3>3. H(u)[u] \in Nat /\ f[AnyOf(T)] \in Nat
      BY <3>1, <3>2 DEF Good
    <3>4. g[s] = f[AnyOf(T)] + H(u)[u]
      BY <2>3
    <3>5. QED BY <2>3, <3>2, <3>3, <3>4 DEF SumStep
  <2>4. CASE s = T /\ T = {}
    BY <2>4 DEF SumStep
  <2>5. QED BY <2>2, <2>3, <2>4
<1> HIDE DEF g
<1>6. g \in [SUBSET T -> Nat]
  <2>1. g = [s \in SUBSET T |-> g[s]]
    BY DEF g
  <2>2. QED BY <2>1, <1>5
<1>7. Good(f, T, g)
  BY <1>5, <1>6 DEF Good
<1>8. QED BY <1>2, <1>7

\* The sum over a finite set is a natural number, and what is left when one
\* element is taken out is the sum over the others.
LEMMA SumChosenFirst ==
    ASSUME NEW S, IsFiniteSet(S), NEW f, \A x \in S : f[x] \in Nat
    PROVE  /\ SumFunctionOnSet(f, S) \in Nat
           /\ S = {} => SumFunctionOnSet(f, S) = 0
           /\ S # {} => SumFunctionOnSet(f, S)
                          = f[AnyOf(S)] + SumFunctionOnSet(f, S \ {AnyOf(S)})
<1>1. ASSUME NEW T \in SUBSET S, NEW g, Good(f, T, g)
      PROVE  SumFunctionOnSet(f, T) = g[T]
  <2>1. IsFiniteSet(T) /\ Sums(f, T, g)
    BY <1>1, FS_Subset, GoodSums
  <2>2. Sums(f, T, CHOOSE it : Sums(f, T, it))
    BY <2>1
  <2> DEFINE it0 == CHOOSE it : Sums(f, T, it)
  <2> HIDE DEF it0
  <2>3. Sums(f, T, it0) /\ SumFunctionOnSet(f, T) = it0[T]
    BY <2>2, SumChosen DEF it0
  <2>4. it0 = g
    BY <1>1, <2>1, <2>3, GoodUnique
  <2>5. QED BY <2>3, <2>4
<1>2. PICK g : Good(f, S, g)
  BY GoodExists
<1>3. SumFunctionOnSet(f, S) = g[S] /\ g[S] \in Nat /\ g[S] = SumStep(f, g, S)
  BY <1>1, <1>2 DEF Good
<1>4. ASSUME S # {}
      PROVE  g[S] = f[AnyOf(S)] + SumFunctionOnSet(f, S \ {AnyOf(S)})
  <2> DEFINE u == S \ {AnyOf(S)}
  <2>1. SumFunctionOnSet(f, u) = [s \in SUBSET u |-> g[s]][u]
    BY <1>1, <1>2, GoodRestricts
  <2>2. QED BY <1>3, <1>4, <2>1 DEF SumStep
<1>5. QED BY <1>3, <1>4 DEF SumStep

LEMMA SumRemove ==
    ASSUME NEW S, IsFiniteSet(S), NEW f, \A x \in S : f[x] \in Nat, NEW x \in S
    PROVE  SumFunctionOnSet(f, S) = f[x] + SumFunctionOnSet(f, S \ {x})
<1> DEFINE sum == [T \in SUBSET S |-> SumFunctionOnSet(f, T)]
           B == {T \in SUBSET S : \E y \in T : sum[T] # f[y] + sum[T \ {y}]}
<1>1. \A T \in SUBSET S : /\ sum[T] \in Nat
                          /\ T # {} => AnyOf(T) \in T /\ sum[T] = f[AnyOf(T)] + sum[T \ {AnyOf(T)}]
  <2> TAKE T \in SUBSET S
  <2>1. IsFiniteSet(T) /\ \A y \in T : f[y] \in Nat
    BY FS_Subset
  <2>2. T # {} => AnyOf(T) \in T
    BY DEF AnyOf
  <2>3. T \ {AnyOf(T)} \in SUBSET S
    OBVIOUS
  <2>4. QED BY <2>1, <2>2, <2>3, SumChosenFirst
<1>2. SumFunctionOnSet(f, S) = sum[S] /\ SumFunctionOnSet(f, S \ {x}) = sum[S \ {x}]
  OBVIOUS
<1> HIDE DEF sum
<1>3. ASSUME B # {} PROVE FALSE
  <2>1. PICK T \in B : \A s \in B : s \subseteq T => s = T
    <3>1. B \in SUBSET SUBSET S
      OBVIOUS
    <3> HIDE DEF B
    <3>2. QED BY <1>3, <3>1, SmallestSubset
  <2>2. PICK y \in T : sum[T] # f[y] + sum[T \ {y}]
    OBVIOUS
  <2> DEFINE z == AnyOf(T)
  <2>3. z \in T /\ sum[T] = f[z] + sum[T \ {z}] /\ z # y
    BY <1>1, <2>2
  <2> HIDE DEF z
  <2>4. sum[T \ {z}] = f[y] + sum[(T \ {z}) \ {y}]
    <3>1. T \ {z} \notin B /\ y \in T \ {z} /\ T \ {z} \in SUBSET S
      BY <2>1, <2>3
    <3>2. QED BY <3>1
  <2>5. sum[T \ {y}] = f[z] + sum[(T \ {y}) \ {z}]
    <3>1. T \ {y} \notin B /\ z \in T \ {y} /\ T \ {y} \in SUBSET S
      BY <2>1, <2>3
    <3>2. QED BY <3>1
  <2>6. (T \ {y}) \ {z} = (T \ {z}) \ {y}
    OBVIOUS
  <2>7. f[y] \in Nat /\ f[z] \in Nat /\ sum[(T \ {y}) \ {z}] \in Nat
    <3>1. (T \ {y}) \ {z} \in SUBSET S
      OBVIOUS
    <3>2. QED BY <1>1, <2>3, <3>1
  <2> DEFINE rest == sum[(T \ {y}) \ {z}]
  <2>8. sum[T] = f[z] + (f[y] + rest) /\ sum[T \ {y}] = f[z] + rest
    BY <2>3, <2>4, <2>5, <2>6
  <2>9. rest \in Nat /\ f[y] \in Nat /\ f[z] \in Nat
    BY <2>7
  <2> HIDE DEF B, rest
  <2>10. QED BY <2>2, <2>8, <2>9
<1>4. sum[S] = f[x] + sum[S \ {x}]
  BY <1>3
<1>5. QED BY <1>2, <1>4

\* A sum covers another when each element of that one has an element of its own
\* here that is at least as much.
LEMMA SumCovers ==
    ASSUME NEW S, NEW T, IsFiniteSet(T), NEW e \in Injection(S, T),
           NEW f, NEW g, \A x \in S : f[x] \in Nat, \A y \in T : g[y] \in Nat,
           \A x \in S : f[x] <= g[e[x]]
    PROVE  /\ SumFunctionOnSet(f, S) \in Nat /\ SumFunctionOnSet(g, T) \in Nat
           /\ SumFunctionOnSet(f, S) <= SumFunctionOnSet(g, T)
<1> DEFINE F == [U \in SUBSET S |-> SumFunctionOnSet(f, U)]
           G == [V \in SUBSET T |-> SumFunctionOnSet(g, V)]
           Covered(U) == \A V \in SUBSET T : (\A x \in U : e[x] \in V) => F[U] <= G[V]
           B == {U \in SUBSET S : ~Covered(U)}
<1>1. IsFiniteSet(S) /\ e \in [S -> T] /\ \A x, y \in S : e[x] = e[y] => x = y
  BY FS_Injection DEF Injection, IsInjective
<1>2. \A U \in SUBSET S : /\ F[U] \in Nat /\ (U = {} => F[U] = 0)
                          /\ \A x \in U : F[U] = f[x] + F[U \ {x}]
  <2> TAKE U \in SUBSET S
  <2>1. IsFiniteSet(U) /\ \A x \in U : f[x] \in Nat /\ U \ {x} \in SUBSET S
    BY <1>1, FS_Subset
  <2>2. F[U] = SumFunctionOnSet(f, U)
        /\ \A x \in U : F[U \ {x}] = SumFunctionOnSet(f, U \ {x})
    BY <2>1
  <2> HIDE DEF F
  <2>3. SumFunctionOnSet(f, U) \in Nat /\ (U = {} => SumFunctionOnSet(f, U) = 0)
    BY <2>1, SumChosenFirst
  <2>4. \A x \in U : SumFunctionOnSet(f, U) = f[x] + SumFunctionOnSet(f, U \ {x})
    BY <2>1, SumRemove
  <2>5. QED BY <2>2, <2>3, <2>4
<1>3. \A V \in SUBSET T : G[V] \in Nat /\ \A y \in V : G[V] = g[y] + G[V \ {y}]
  <2> TAKE V \in SUBSET T
  <2>1. IsFiniteSet(V) /\ \A y \in V : g[y] \in Nat /\ V \ {y} \in SUBSET T
    BY FS_Subset
  <2>2. G[V] = SumFunctionOnSet(g, V)
        /\ \A y \in V : G[V \ {y}] = SumFunctionOnSet(g, V \ {y})
    BY <2>1
  <2> HIDE DEF G
  <2>3. SumFunctionOnSet(g, V) \in Nat
    BY <2>1, SumChosenFirst
  <2>4. \A y \in V : SumFunctionOnSet(g, V) = g[y] + SumFunctionOnSet(g, V \ {y})
    BY <2>1, SumRemove
  <2>5. QED BY <2>2, <2>3, <2>4
<1>4. SumFunctionOnSet(f, S) = F[S] /\ SumFunctionOnSet(g, T) = G[T]
  OBVIOUS
<1> HIDE DEF F, G
<1>5. ASSUME B # {} PROVE FALSE
  <2>1. PICK U \in B : \A s \in B : s \subseteq U => s = U
    <3>1. B \in SUBSET SUBSET S
      OBVIOUS
    <3> HIDE DEF B
    <3>2. QED BY <1>1, <1>5, <3>1, SmallestSubset
  <2>2. U \in SUBSET S /\ ~Covered(U)
    OBVIOUS
  <2>3. PICK V \in SUBSET T : (\A x \in U : e[x] \in V) /\ ~(F[U] <= G[V])
    BY <2>2
  <2>4. F[U] \in Nat /\ G[V] \in Nat
    BY <1>2, <1>3, <2>2
  <2>5. PICK x : x \in U
    BY <1>2, <2>2, <2>3, <2>4
  <2>6. Covered(U \ {x})
    BY <2>1, <2>2, <2>5
  <2>7. /\ U \ {x} \in SUBSET S /\ V \ {e[x]} \in SUBSET T
        /\ \A z \in U \ {x} : e[z] \in V \ {e[x]}
    BY <1>1, <2>2, <2>3, <2>5
  <2>8. F[U \ {x}] <= G[V \ {e[x]}]
    BY <2>6, <2>7
  <2>9. /\ F[U] = f[x] + F[U \ {x}] /\ G[V] = g[e[x]] + G[V \ {e[x]}]
        /\ F[U \ {x}] \in Nat /\ G[V \ {e[x]}] \in Nat
    BY <1>2, <1>3, <2>2, <2>3, <2>5, <2>7
  <2>10. f[x] \in Nat /\ g[e[x]] \in Nat /\ f[x] <= g[e[x]]
    BY <1>1, <2>2, <2>5
  <2> HIDE DEF B, Covered
  <2>11. QED BY <2>3, <2>8, <2>9, <2>10
<1>6. F[S] <= G[T] /\ F[S] \in Nat /\ G[T] \in Nat
  BY <1>1, <1>2, <1>3, <1>5
<1>7. QED BY <1>4, <1>6
--------------------------------------------------------------------------------
(* Ranks. *)

\* The places of n things are n.
LEMMA IntervalSize ==
    ASSUME NEW n \in Nat
    PROVE  IsFiniteSet(1 .. n) /\ Cardinality(1 .. n) = n
<1>1. 1 \in Int /\ n \in Int
  OBVIOUS
<1>2. IsFiniteSet(1 .. n) /\ Cardinality(1 .. n) = IF 1 > n THEN 0 ELSE n - 1 + 1
  BY <1>1, FS_Interval
<1>3. QED BY <1>2

StrictOrder(R, S) ==
    /\ \A i \in S : <<i, i>> \notin R
    /\ \A i, j, k \in S : <<i, j>> \in R /\ <<j, k>> \in R => <<i, k>> \in R
    /\ \A i, j \in S : i # j => <<i, j>> \in R \/ <<j, i>> \in R

Below(R, S, i) == {j \in S : <<j, i>> \in R}

\* In a finite total order every rank below the number of elements is taken: a
\* sort by that order finds an element for each place.
LEMMA EveryRankTaken ==
    ASSUME NEW S, IsFiniteSet(S), NEW R, StrictOrder(R, S),
           NEW k \in 0 .. Cardinality(S) - 1
    PROVE  \E i \in S : Cardinality(Below(R, S, i)) = k
<1> DEFINE n == Cardinality(S)
           rank == [i \in S |-> Cardinality(Below(R, S, i))]
<1>1. n \in Nat
  BY FS_CardinalityType
<1>2. \A i \in S : rank[i] \in 0 .. n - 1
  <2> TAKE i \in S
  <2>1. IsFiniteSet(S \ {i}) /\ Cardinality(S \ {i}) = n - 1
    BY FS_RemoveElement
  <2>2. Below(R, S, i) \in SUBSET (S \ {i})
    BY DEF Below, StrictOrder
  <2>3. IsFiniteSet(Below(R, S, i)) /\ Cardinality(Below(R, S, i)) <= n - 1
    BY <2>1, <2>2, FS_Subset
  <2>4. Cardinality(Below(R, S, i)) \in Nat
    BY <2>3, FS_CardinalityType
  <2>5. QED BY <2>3, <2>4, <1>1
<1>3. ASSUME NEW i \in S, NEW j \in S, <<i, j>> \in R PROVE rank[i] # rank[j]
  <2>1. Below(R, S, i) \in SUBSET Below(R, S, j)
    BY <1>3 DEF Below, StrictOrder
  <2>2. i \in Below(R, S, j) /\ i \notin Below(R, S, i)
    BY <1>3 DEF Below, StrictOrder
  <2>3. Below(R, S, j) \in SUBSET S
    BY DEF Below
  <2>4. IsFiniteSet(Below(R, S, j))
    BY <2>3, FS_Subset
  <2>5. Cardinality(Below(R, S, i)) # Cardinality(Below(R, S, j))
    BY <2>1, <2>2, <2>4, FS_Subset
  <2>6. QED BY <2>5
<1>4. \A i, j \in S : i # j => rank[i] # rank[j]
  BY <1>3 DEF StrictOrder
<1> HIDE DEF rank
<1>5. SUFFICES ASSUME \A i \in S : rank[i] # k PROVE FALSE
  BY DEF rank
<1>6. rank \in [S -> (0 .. n - 1) \ {k}]
  BY <1>2, <1>5 DEF rank
<1>7. /\ IsFiniteSet((0 .. n - 1) \ {k})
      /\ Cardinality((0 .. n - 1) \ {k}) < n
  <2>1. IsFiniteSet(0 .. n - 1) /\ Cardinality(0 .. n - 1) = n
    BY <1>1, FS_Interval
  <2>2. /\ IsFiniteSet((0 .. n - 1) \ {k})
        /\ Cardinality((0 .. n - 1) \ {k}) =
              IF k \in 0 .. n - 1 THEN Cardinality(0 .. n - 1) - 1 ELSE Cardinality(0 .. n - 1)
    BY <2>1, FS_RemoveElement
  <2>3. QED BY <2>1, <2>2, <1>1
<1>8. \E i, j \in S : i # j /\ rank[i] = rank[j]
  BY <1>6, <1>7, FS_PigeonHole
<1>9. QED BY <1>4, <1>8
--------------------------------------------------------------------------------
(* The operators of the registry. *)

\* The services sorted by slot are services, as many as were sorted.
LEMMA InSlotOrderType ==
    ASSUME NEW services \in Seq(Service), NEW S \in SUBSET DOMAIN services
    PROVE  /\ InSlotOrder(services, S) \in Seq(Service)
           /\ Len(InSlotOrder(services, S)) = Cardinality(S)
           /\ Cardinality(S) \in Nat /\ Cardinality(S) <= Len(services)
<1> DEFINE R == {p \in S \X S : Precedes(services, p[1], p[2])}
<1>1. Len(services) \in Nat /\ DOMAIN services = 1 .. Len(services)
  BY LenProperties
<1>2. IsFiniteSet(1 .. Len(services)) /\ Cardinality(1 .. Len(services)) = Len(services)
  BY <1>1, LenProperties, IntervalSize
<1>3. IsFiniteSet(S) /\ Cardinality(S) <= Len(services)
  BY <1>1, <1>2, FS_Subset
<1>4. Cardinality(S) \in Nat
  BY <1>3, FS_CardinalityType
<1>5. \A i \in S : i \in Nat /\ services[i] \in Service /\ services[i].paymentIndex \in Nat
  <2>1. \A i \in S : i \in Nat /\ services[i] \in Service
    BY <1>1, ElementOfSeq
  <2>2. \A x \in Service : x.paymentIndex \in Nat
    BY DEF Service
  <2>3. QED BY <2>1, <2>2
<1>6. \A i, j \in S : <<i, j>> \in R <=> Precedes(services, i, j)
  <2> TAKE i, j \in S
  <2>1. <<i, j>> \in S \X S /\ <<i, j>>[1] = i /\ <<i, j>>[2] = j
    OBVIOUS
  <2>2. <<i, j>> \in R <=> Precedes(services, <<i, j>>[1], <<i, j>>[2])
    BY <2>1, Zenon
  <2>3. QED BY <2>1, <2>2
<1>7. StrictOrder(R, S)
  <2>1. \A i \in S : ~Precedes(services, i, i)
    BY <1>5 DEF Precedes
  <2>2. \A i, j, l \in S : Precedes(services, i, j) /\ Precedes(services, j, l)
            => Precedes(services, i, l)
    BY <1>5 DEF Precedes
  <2>3. \A i, j \in S : i # j => Precedes(services, i, j) \/ Precedes(services, j, i)
    BY <1>5 DEF Precedes
  <2> HIDE DEF R
  <2>4. QED BY <1>6, <2>1, <2>2, <2>3 DEF StrictOrder
<1>8. \A i \in S : Below(R, S, i) = Before(services, S, i)
  BY <1>6 DEF Below, Before
<1> HIDE DEF R
<1>9. ASSUME NEW k \in 1 .. Cardinality(S)
      PROVE  services[CHOOSE i \in S : Cardinality(Before(services, S, i)) = k - 1] \in Service
  <2>1. k - 1 \in 0 .. Cardinality(S) - 1
    BY <1>4
  <2>2. \E i \in S : Cardinality(Below(R, S, i)) = k - 1
    BY <2>1, <1>3, <1>7, EveryRankTaken
  <2>3. \E i \in S : Cardinality(Before(services, S, i)) = k - 1
    BY <2>2, <1>8
  <2>4. (CHOOSE i \in S : Cardinality(Before(services, S, i)) = k - 1) \in S
    BY <2>3
  <2>5. QED BY <2>4, <1>5
<1>10. InSlotOrder(services, S) \in [1 .. Cardinality(S) -> Service]
  BY <1>9 DEF InSlotOrder
<1>11. InSlotOrder(services, S) \in Seq(Service)
  BY <1>4, <1>10, SeqDef
<1>12. Len(InSlotOrder(services, S)) = Cardinality(S)
  BY <1>4, <1>10, <1>11, LenProperties
<1>13. QED BY <1>3, <1>4, <1>11, <1>12

\* Re-slotted services are services, and their slots are contiguous.
LEMMA ReslotType ==
    ASSUME NEW services \in Seq(Service)
    PROVE  /\ Reslot(services) \in Seq(Service) /\ Len(Reslot(services)) = Len(services)
           /\ InPlace(Reslot(services))
<1>1. Len(services) \in Nat /\ \A k \in 1 .. Len(services) : services[k] \in Service
  BY LenProperties, ElementOfSeq
<1>2. ASSUME NEW k \in 1 .. Len(services)
      PROVE  /\ [services[k] EXCEPT !.paymentIndex = FIRST_EXTERNAL_SLOT + k - 1] \in Service
             /\ [services[k] EXCEPT !.paymentIndex = FIRST_EXTERNAL_SLOT + k - 1].paymentIndex
                    = FIRST_EXTERNAL_SLOT + k - 1
  <2>1. services[k] \in Service /\ FIRST_EXTERNAL_SLOT + k - 1 \in Nat
    BY <1>1 DEF FIRST_EXTERNAL_SLOT
  <2>2. QED BY <2>1 DEF Service
<1>3. Reslot(services) \in [1 .. Len(services) -> Service]
  BY <1>2 DEF Reslot
<1>4. Reslot(services) \in Seq(Service)
  BY <1>1, <1>3, SeqDef
<1>5. Len(Reslot(services)) = Len(services) /\ DOMAIN Reslot(services) = 1 .. Len(services)
  BY <1>1, <1>3, <1>4, LenProperties
<1>6. InPlace(Reslot(services))
  BY <1>2, <1>5 DEF InPlace, Reslot
<1>7. QED BY <1>4, <1>5, <1>6
--------------------------------------------------------------------------------
(* Types. *)

\* The option a challenge is joined with can be paid by our groups.
LEMMA ChooseOptionType ==
    ASSUME NEW offer \in Seq(Option), CanJoin(offer)
    PROVE  /\ ChooseOption(offer) \in Option
           /\ ChooseOption(offer).scheme = "exact" /\ ChooseOption(offer).network = Network
           /\ ChooseOption(offer).asset = Asset /\ ChooseOption(offer).amount \in Nat
<1> DEFINE S == Compatible(offer)
           Cheaper(i, j) == \/ offer[i].amount < offer[j].amount
                            \/ offer[i].amount = offer[j].amount /\ i < j
           R == {p \in S \X S : Cheaper(p[1], p[2])}
<1>1. Len(offer) \in Nat /\ DOMAIN offer = 1 .. Len(offer)
  BY LenProperties
<1>2. S \in SUBSET (1 .. Len(offer)) /\ S # {}
  BY <1>1 DEF Compatible, ParsedOptions, CanJoin
<1>3. IsFiniteSet(S)
  BY <1>1, <1>2, IntervalSize, FS_Subset
<1>4. \A i \in S : i \in Nat /\ offer[i] \in Option /\ offer[i].amount \in Nat
  <2>1. \A i \in S : i \in Nat /\ offer[i] \in Option
    BY <1>1, <1>2, ElementOfSeq
  <2>2. \A o \in Option : o.amount \in Nat \union {NotAtomic}
    BY DEF Option
  <2>3. \A i \in S : offer[i].amount # NotAtomic
    BY DEF Compatible, ParsedOptions
  <2>4. QED BY <2>1, <2>2, <2>3
<1>5. Cardinality(S) \in Nat /\ Cardinality(S) # 0
  BY <1>2, <1>3, FS_CardinalityType, FS_EmptySet
<1>6. \A i, j \in S : <<i, j>> \in R <=> Cheaper(i, j)
  <2> TAKE i, j \in S
  <2>1. <<i, j>> \in S \X S /\ <<i, j>>[1] = i /\ <<i, j>>[2] = j
    OBVIOUS
  <2>2. <<i, j>> \in R <=> Cheaper(<<i, j>>[1], <<i, j>>[2])
    BY <2>1, Zenon
  <2>3. QED BY <2>1, <2>2
<1>7. StrictOrder(R, S)
  <2>1. \A i \in S : ~Cheaper(i, i)
    BY <1>4
  <2>2. \A i, j, l \in S : Cheaper(i, j) /\ Cheaper(j, l) => Cheaper(i, l)
    BY <1>4
  <2>3. \A i, j \in S : i # j => Cheaper(i, j) \/ Cheaper(j, i)
    BY <1>4
  <2> HIDE DEF R, Cheaper
  <2>4. QED BY <1>6, <2>1, <2>2, <2>3 DEF StrictOrder
<1> HIDE DEF R, S, Cheaper
<1>8. PICK i \in S : Cardinality(Below(R, S, i)) = 0
  <2>1. 0 \in 0 .. Cardinality(S) - 1
    BY <1>5
  <2>2. QED BY <2>1, <1>3, <1>7, EveryRankTaken
<1>9. Below(R, S, i) = {}
  <2>1. Below(R, S, i) \in SUBSET S
    BY DEF Below
  <2>2. QED BY <1>3, <1>8, <2>1, FS_Subset, FS_EmptySet
<1>10. \A j \in S : ~Cheaper(j, i)
  BY <1>6, <1>9 DEF Below
<1>11. \A j \in S : \/ offer[i].amount < offer[j].amount
                    \/ offer[i].amount = offer[j].amount /\ i <= j
  <2> TAKE j \in S
  <2>1. offer[i].amount \in Nat /\ offer[j].amount \in Nat /\ i \in Nat /\ j \in Nat
    BY <1>4
  <2>2. ~Cheaper(j, i)
    BY <1>10
  <2>3. QED BY <2>1, <2>2 DEF Cheaper
<1>12. PICK c \in S : ChooseOption(offer) = offer[c]
  BY <1>11 DEF ChooseOption, S
<1>13. offer[c].scheme = "exact" /\ offer[c].network = Network /\ offer[c].asset = Asset
  BY DEF Compatible, S
<1>14. QED BY <1>4, <1>12, <1>13

\* A registered service is one of our services, and the registry has one more
\* entry at most.
LEMMA PutType ==
    ASSUME registry \in Seq(Service), NEW service \in Service
    PROVE  /\ Put(service) \in Seq(Service)
           /\ Len(registry) \in Nat /\ Len(Put(service)) <= Len(registry) + 1
<1>1. /\ Len(registry) \in Nat /\ DOMAIN registry = 1 .. Len(registry)
      /\ \A i \in 1 .. Len(registry) : registry[i] \in Service
  BY LenProperties, ElementOfSeq
<1>2. CASE Registered(service.id) = {}
  BY <1>1, <1>2, AppendProperties DEF Put
<1>3. CASE Registered(service.id) # {}
  <2>1. Put(service) = [i \in 1 .. Len(registry) |->
                           IF registry[i].id = service.id THEN service ELSE registry[i]]
    BY <1>1, <1>3 DEF Put
  <2>2. Put(service) \in [1 .. Len(registry) -> Service]
    BY <1>1, <2>1
  <2>3. Put(service) \in Seq(Service)
    BY <1>1, <2>2, SeqDef
  <2>4. Len(Put(service)) = Len(registry)
    BY <1>1, <2>2, <2>3, LenProperties
  <2>5. QED BY <1>1, <2>3, <2>4
<1>4. QED BY <1>2, <1>3

\* What a probe brings is a service.
LEMMA DiscoveredType ==
    ASSUME TypeOK, NEW h \in Handler, probes[h] # IdleProbe, CanJoin(offers[probes[h].url])
    PROVE  Discovered(probes[h].url, probes[h].slot) \in Service
<1>1. probes[h] \in [url : Url, slot : Nat]
  BY DEF TypeOK
<1>2. probes[h].url \in Url /\ probes[h].slot \in Nat
  BY <1>1
<1>3. offers[probes[h].url] \in Seq(Option)
  BY <1>2, RegistryAssumption DEF TypeOK
<1>4. IdOf[probes[h].url] \in Id
  BY <1>2, RegistryAssumption
<1>5. QED BY <1>2, <1>3, <1>4, ChooseOptionType DEF Discovered, Service, Option
--------------------------------------------------------------------------------
(* The registry's steps. *)

\* What a step does to the registry and the probes, told by its cases.
LEMMA TypeInit == Init => TypeOK
<1> SUFFICES ASSUME Init PROVE TypeOK
  OBVIOUS
<1>1. registry \in Seq(Service)
  BY EmptySeq DEF Init
<1>2. QED BY <1>1 DEF Init, TypeOK

LEMMA TypeStep == TypeOK /\ [Next]_vars => TypeOK'
<1> SUFFICES ASSUME TypeOK, [Next]_vars PROVE TypeOK'
  OBVIOUS
<1> USE DEF TypeOK
<1>1. ASSUME NEW h \in Handler, NEW u \in Url, DiscoverStart(h, u) PROVE TypeOK'
  <2>1. nextSlot \in Nat
    BY LenProperties DEF nextSlot, FIRST_EXTERNAL_SLOT
  <2>2. probes' \in [Handler -> [url : Url, slot : Nat] \union {IdleProbe}]
    BY <1>1, <2>1 DEF DiscoverStart
  <2>3. QED BY <1>1, <2>2 DEF DiscoverStart, runVars
<1>2. ASSUME NEW h \in Handler, DiscoverAnswered(h) PROVE TypeOK'
  <2>1. Discovered(probes[h].url, probes[h].slot) \in Service
    BY <1>2, DiscoveredType DEF DiscoverAnswered
  <2>2. registry' \in Seq(Service)
    BY <1>2, <2>1, PutType DEF DiscoverAnswered
  <2>3. probes' \in [Handler -> [url : Url, slot : Nat] \union {IdleProbe}]
    BY <1>2 DEF DiscoverAnswered
  <2>4. QED BY <1>2, <2>2, <2>3 DEF DiscoverAnswered, runVars
<1>3. ASSUME NEW h \in Handler, DiscoverFails(h) PROVE TypeOK'
  BY <1>3 DEF DiscoverFails, runVars
<1>4. ASSUME NEW id \in Id, Deregister(id) PROVE TypeOK'
  <2>1. InSlotOrder(registry, (DOMAIN registry) \ Registered(id)) \in Seq(Service)
    BY InSlotOrderType
  <2>2. registry' \in Seq(Service)
    BY <1>4, <2>1, ReslotType DEF Deregister
  <2>3. QED BY <1>4, <2>2 DEF Deregister, runVars
<1>5. CASE Reset
  BY <1>5, EmptySeq DEF Reset, runVars
<1>6. ASSUME NEW u \in Url, NEW offer \in Offers[u], Reprice(u, offer) PROVE TypeOK'
  BY <1>6 DEF Reprice, runVars
<1>7. ASSUME NEW r \in Run, QuoteRun(r) PROVE TypeOK'
  <2>1. InSlotOrder(registry, DOMAIN registry) \in Seq(Service)
    BY InSlotOrderType
  <2>2. QED BY <1>7, <2>1 DEF QuoteRun
<1>8. ASSUME NEW r \in Run, NEW fees \in Fees, BuildGroup(r, fees) PROVE TypeOK'
  <2>1. accepted' \in [Run -> SUBSET (Nat \X Option)] /\ DOMAIN group' = Run
    BY <1>8 DEF BuildGroup
  <2>2. \A x \in Run : /\ group'[x] # None => snapshot'[x] # None
                       /\ accepted'[x] # {} => group'[x] # None
    <3> TAKE x \in Run
    <3>1. CASE x = r
      BY <3>1, <1>8 DEF BuildGroup
    <3>2. CASE x # r
      BY <3>2, <1>8 DEF BuildGroup
    <3>3. QED BY <3>1, <3>2
  <2>3. QED BY <1>8, <2>1, <2>2 DEF BuildGroup
<1>9. ASSUME NEW r \in Run, NEW i \in 1 .. MAX_EXTERNAL_SERVICES, VerifyExternal(r, i)
      PROVE  TypeOK'
  <2>1. PICK n \in DOMAIN offers[snapshot[r][i].url] :
            accepted' = [accepted EXCEPT ![r] = @ \union {<<i, offers[snapshot[r][i].url][n]>>}]
    BY <1>9 DEF VerifyExternal
  <2>2. snapshot[r] \in Seq(Service) /\ i \in DOMAIN snapshot[r]
    BY <1>9 DEF VerifyExternal
  <2>3. i \in Nat /\ snapshot[r][i] \in Service
    BY <2>2, LenProperties, ElementOfSeq
  <2>4. \A s \in Service : s.url \in Url
    BY DEF Service
  <2>5. offers[snapshot[r][i].url] \in Seq(Option)
    BY <2>3, <2>4, RegistryAssumption
  <2>6. offers[snapshot[r][i].url][n] \in Option
    BY <2>5, LenProperties, ElementOfSeq
  <2>7. accepted' \in [Run -> SUBSET (Nat \X Option)]
    BY <2>1, <2>3, <2>6
  <2>8. \A x \in Run : accepted'[x] # {} => group[x] # None
    BY <1>9, <2>1 DEF VerifyExternal
  <2>9. QED BY <1>9, <2>7, <2>8 DEF VerifyExternal
<1>10. CASE UNCHANGED vars
  BY <1>10 DEF vars
<1>11. QED
  BY <1>1, <1>2, <1>3, <1>4, <1>5, <1>6, <1>7, <1>8, <1>9, <1>10 DEF Next

\* Type correctness.
THEOREM RegistryTypes == Spec => []TypeOK
<1>1. QED BY TypeInit, TypeStep, PTL DEF Spec
--------------------------------------------------------------------------------
(* The limit. *)

ProbingCount == Cardinality(Probing)

LEMMA ProbingFinite == IsFiniteSet(Probing) /\ ProbingCount \in Nat
                       /\ Cardinality(Handler) \in Nat /\ ProbingCount <= Cardinality(Handler)
<1>1. Probing \in SUBSET Handler
  BY DEF Probing
<1>2. IsFiniteSet(Probing) /\ ProbingCount <= Cardinality(Handler)
  BY <1>1, RegistryAssumption, FS_Subset DEF ProbingCount
<1>3. QED BY <1>2, RegistryAssumption, FS_CardinalityType DEF ProbingCount

\* A discovery that ends makes room for the service it may bring.
LEMMA ProbeEnds ==
    ASSUME TypeOK, NEW h \in Handler, probes[h] # IdleProbe,
           probes' = [probes EXCEPT ![h] = IdleProbe]
    PROVE  ProbingCount' = ProbingCount - 1
<1>1. Probing' = Probing \ {h} /\ h \in Probing
  BY DEF Probing, TypeOK
<1>2. QED BY <1>1, ProbingFinite, FS_RemoveElement DEF ProbingCount

LEMMA LimitStep == TypeOK /\ OvershootBounded /\ [Next]_vars => OvershootBounded'
<1> SUFFICES ASSUME TypeOK, OvershootBounded, [Next]_vars PROVE OvershootBounded'
  OBVIOUS
<1> DEFINE limit == MAX_EXTERNAL_SERVICES + Cardinality(Handler) - 1
           n == Len(registry)
<1>1. /\ ProbingCount \in Nat /\ ProbingCount' \in Nat /\ n \in Nat
      /\ Cardinality(Handler) \in Nat /\ ProbingCount' <= Cardinality(Handler)
      /\ MAX_EXTERNAL_SERVICES \in Int /\ MAX_EXTERNAL_SERVICES >= 0
  <2>1. Probing' \in SUBSET Handler
    BY DEF Probing
  <2>2. ProbingCount' \in Nat /\ ProbingCount' <= Cardinality(Handler)
    BY <2>1, RegistryAssumption, FS_Subset, FS_CardinalityType DEF ProbingCount
  <2>3. MAX_EXTERNAL_SERVICES \in Int /\ MAX_EXTERNAL_SERVICES >= 0
    BY RegistryAssumption DEF MAX_EXTERNAL_SERVICES, FIRST_EXTERNAL_SLOT
  <2>4. QED BY <2>2, <2>3, ProbingFinite, LenProperties DEF TypeOK
<1>2. n + ProbingCount <= limit
  BY DEF OvershootBounded, ProbingCount
<1>3. SUFFICES n' + ProbingCount' <= limit
  BY DEF OvershootBounded, ProbingCount
<1>4. ASSUME NEW h \in Handler, NEW u \in Url, DiscoverStart(h, u)
      PROVE  n' + ProbingCount' <= limit
  <2>1. n + 1 <= MAX_EXTERNAL_SERVICES /\ n' = n
    BY <1>1, <1>4 DEF DiscoverStart, RoomFor, nextSlot, FIRST_EXTERNAL_SLOT
  <2>2. QED BY <1>1, <2>1
<1>5. ASSUME NEW h \in Handler, DiscoverAnswered(h) PROVE n' + ProbingCount' <= limit
  <2>1. Discovered(probes[h].url, probes[h].slot) \in Service
    BY <1>5, DiscoveredType DEF DiscoverAnswered
  <2>2. n' \in Nat /\ n' <= n + 1
    BY <1>5, <2>1, PutType, LenProperties DEF DiscoverAnswered, TypeOK
  <2>3. ProbingCount' = ProbingCount - 1
    BY <1>5, ProbeEnds DEF DiscoverAnswered
  <2>4. QED BY <1>1, <1>2, <2>2, <2>3
<1>6. ASSUME NEW h \in Handler, DiscoverFails(h) PROVE n' + ProbingCount' <= limit
  <2>1. ProbingCount' = ProbingCount - 1 /\ n' = n
    BY <1>6, ProbeEnds DEF DiscoverFails
  <2>2. QED BY <1>1, <1>2, <2>1
<1>7. ASSUME NEW id \in Id, Deregister(id) PROVE n' + ProbingCount' <= limit
  <2> DEFINE kept == InSlotOrder(registry, (DOMAIN registry) \ Registered(id))
  <2>1. kept \in Seq(Service) /\ Len(kept) <= n
    BY InSlotOrderType DEF TypeOK
  <2>2. n' = Len(kept)
    BY <1>7, <2>1, ReslotType DEF Deregister
  <2>3. ProbingCount' = ProbingCount
    BY <1>7 DEF Deregister, ProbingCount, Probing
  <2>4. Len(kept) \in Nat
    BY <2>1, LenProperties
  <2>5. QED BY <1>1, <1>2, <2>1, <2>2, <2>3, <2>4
<1>8. CASE Reset
  <2>1. n' = 0 /\ ProbingCount' = ProbingCount
    BY <1>8, EmptySeq DEF Reset, ProbingCount, Probing
  <2>2. QED BY <1>1, <1>2, <2>1
<1>9. ASSUME UNCHANGED <<registry, probes>> PROVE n' + ProbingCount' <= limit
  BY <1>2, <1>9 DEF ProbingCount, Probing
<1>10. CASE UNCHANGED vars
  BY <1>9, <1>10 DEF vars
<1>11. QED
  BY <1>4, <1>5, <1>6, <1>7, <1>8, <1>9, <1>10
  DEF Next, Reprice, QuoteRun, BuildGroup, VerifyExternal

\* services.ts counts the registry before the probe and adds to it after: however
\* many discoveries overlap, the limit is exceeded by the other open ones at most.
THEOREM OvershootTheorem == Spec => []OvershootBounded
<1>1. Init => OvershootBounded
  <2> SUFFICES ASSUME Init PROVE OvershootBounded
    OBVIOUS
  <2>1. Probing = {} /\ Len(registry) = 0
    BY EmptySeq DEF Init, Probing
  <2>2. Cardinality(Handler) \in Nat /\ Cardinality(Handler) # 0
    BY RegistryAssumption, FS_EmptySet, FS_CardinalityType
  <2>3. MAX_EXTERNAL_SERVICES \in Int /\ MAX_EXTERNAL_SERVICES >= 0
    BY RegistryAssumption DEF MAX_EXTERNAL_SERVICES, FIRST_EXTERNAL_SLOT
  <2>4. QED BY <2>1, <2>2, <2>3, FS_EmptySet DEF OvershootBounded
<1>2. QED BY <1>1, LimitStep, RegistryTypes, PTL DEF Spec
--------------------------------------------------------------------------------
(* The slots. *)

\* A step leaves the slots in place, or is the end of a stale discovery.
LEMMA SlotsStep ==
    TypeOK /\ [Next]_vars =>
        (InPlace(registry) => InPlace(registry') \/ \E h \in Handler : StaleDiscovery(h))
<1> SUFFICES ASSUME TypeOK, [Next]_vars, InPlace(registry)
             PROVE  InPlace(registry') \/ \E h \in Handler : StaleDiscovery(h)
  OBVIOUS
<1>1. ASSUME NEW h \in Handler, DiscoverAnswered(h), ~StaleDiscovery(h)
      PROVE  InPlace(registry')
  <2> DEFINE service == Discovered(probes[h].url, probes[h].slot)
  <2>1. probes'[h] = IdleProbe
    BY <1>1 DEF DiscoverAnswered, TypeOK
  <2>2. probes[h].slot = nextSlot /\ Registered(IdOf[probes[h].url]) = {}
    BY <1>1, <2>1 DEF StaleDiscovery, DiscoverAnswered
  <2>3. service \in Service
    BY <1>1, DiscoveredType DEF DiscoverAnswered
  <2>4. service.id = IdOf[probes[h].url] /\ service.paymentIndex = nextSlot
    BY <2>2 DEF Discovered
  <2> HIDE DEF service
  <2>5. registry' = Append(registry, service)
    BY <1>1, <2>2, <2>4 DEF DiscoverAnswered, Put, service
  <2>6. /\ registry \in Seq(Service) /\ Len(registry) \in Nat
        /\ DOMAIN registry = 1 .. Len(registry)
    BY LenProperties DEF TypeOK
  <2>7. /\ DOMAIN registry' = 1 .. Len(registry) + 1
        /\ \A i \in 1 .. Len(registry) : registry'[i] = registry[i]
        /\ registry'[Len(registry) + 1] = service
    BY <2>3, <2>5, <2>6, AppendProperties, LenProperties
  <2>8. nextSlot = FIRST_EXTERNAL_SLOT + (Len(registry) + 1) - 1
    BY <2>6 DEF nextSlot, FIRST_EXTERNAL_SLOT
  <2>9. ASSUME NEW k \in 1 .. Len(registry) + 1
        PROVE  registry'[k].paymentIndex = FIRST_EXTERNAL_SLOT + k - 1
    <3>1. CASE k = Len(registry) + 1
      BY <3>1, <2>4, <2>7, <2>8
    <3>2. CASE k \in 1 .. Len(registry)
      BY <3>2, <2>6, <2>7 DEF InPlace
    <3>3. QED BY <2>6, <3>1, <3>2
  <2>10. QED BY <2>7, <2>9 DEF InPlace
<1>2. ASSUME NEW id \in Id, Deregister(id) PROVE InPlace(registry')
  <2>1. InSlotOrder(registry, (DOMAIN registry) \ Registered(id)) \in Seq(Service)
    BY InSlotOrderType DEF TypeOK
  <2>2. QED BY <1>2, <2>1, ReslotType DEF Deregister
<1>3. CASE Reset
  <2>1. DOMAIN registry' = {}
    BY <1>3 DEF Reset
  <2>2. QED BY <2>1 DEF InPlace
<1>4. ASSUME UNCHANGED registry PROVE InPlace(registry')
  BY <1>4 DEF InPlace
<1>5. QED
  BY <1>1, <1>2, <1>3, <1>4
  DEF Next, vars, DiscoverStart, DiscoverFails, Reprice, QuoteRun, BuildGroup, VerifyExternal

\* However discoveries, deletions and resets interleave, slots that are in place
\* stay so unless a discovery returns with a slot or an id that is out of date.
THEOREM SlotsTheorem == Spec => OnlyStaleDiscoveryBreaksSlots
<1>1. QED
  BY RegistryTypes, SlotsStep, PTL DEF Spec, OnlyStaleDiscoveryBreaksSlots
--------------------------------------------------------------------------------
(* The groups of the runs. *)

\* A group is the one of its run's services at fees the wallet could meet.
OfItsServices(r) ==
    group[r] # None =>
        \E fees \in Fees : /\ group[r] = Transactions(snapshot[r], fees)
                           /\ HoldingSuffices(GrandTotal(snapshot[r], fees))

\* What was accepted was asked by a service of the run, once, for its own account
\* and for no more than the run had declared.
WithinTheTerms(r) ==
    \A a \in accepted[r] :
        /\ a[1] \in DOMAIN snapshot[r]
        /\ a[2].payTo = snapshot[r][a[1]].chosen.payTo
        /\ a[2].amount \in Nat /\ a[2].amount <= snapshot[r][a[1]].chosen.amount
        /\ \A b \in accepted[r] : a[1] = b[1] => a = b

GroupInv == TypeOK /\ \A r \in Run : OfItsServices(r) /\ WithinTheTerms(r)

LEMMA UntouchedKeeps ==
    ASSUME GroupInv, NEW r \in Run, group'[r] = group[r], snapshot'[r] = snapshot[r],
           accepted'[r] = accepted[r]
    PROVE  OfItsServices(r)' /\ WithinTheTerms(r)'
<1>1. OfItsServices(r) /\ WithinTheTerms(r)
  BY DEF GroupInv
<1>2. OfItsServices(r)'
  <2>1. SUFFICES ASSUME group'[r] # None
        PROVE  \E fees \in Fees : /\ group'[r] = Transactions(snapshot'[r], fees)
                                  /\ HoldingSuffices(GrandTotal(snapshot'[r], fees))
    BY DEF OfItsServices
  <2>2. PICK fees \in Fees : /\ group[r] = Transactions(snapshot[r], fees)
                             /\ HoldingSuffices(GrandTotal(snapshot[r], fees))
    BY <1>1, <2>1 DEF OfItsServices
  <2>3. QED BY <2>2
<1>3. WithinTheTerms(r)'
  BY <1>1 DEF WithinTheTerms
<1>4. QED BY <1>2, <1>3

LEMMA QuoteKeeps ==
    ASSUME GroupInv, NEW r \in Run, QuoteRun(r), NEW x \in Run
    PROVE  OfItsServices(x)' /\ WithinTheTerms(x)'
<1>1. CASE x = r
  <2>1. group[r] = None /\ accepted[r] = {}
    BY DEF QuoteRun, GroupInv, TypeOK
  <2>2. group'[r] = None /\ accepted'[r] = {}
    BY <2>1 DEF QuoteRun
  <2>3. QED BY <1>1, <2>2 DEF OfItsServices, WithinTheTerms
<1>2. CASE x # r
  BY <1>2, UntouchedKeeps DEF QuoteRun, GroupInv, TypeOK
<1>3. QED BY <1>1, <1>2

LEMMA BuildKeeps ==
    ASSUME GroupInv, NEW r \in Run, NEW fees \in Fees, BuildGroup(r, fees), NEW x \in Run
    PROVE  OfItsServices(x)' /\ WithinTheTerms(x)'
<1>1. CASE x = r
  <2>1. group'[r] = Transactions(snapshot'[r], fees) /\ accepted'[r] = {}
    BY DEF BuildGroup, GroupInv, TypeOK
  <2>2. HoldingSuffices(GrandTotal(snapshot'[r], fees))
    BY DEF BuildGroup
  <2>3. QED BY <1>1, <2>1, <2>2 DEF OfItsServices, WithinTheTerms
<1>2. CASE x # r
  BY <1>2, UntouchedKeeps DEF BuildGroup, GroupInv, TypeOK
<1>3. QED BY <1>1, <1>2

\* A service accepts an option it asks for, within what the run declared.
LEMMA AcceptKeeps ==
    ASSUME GroupInv, NEW r \in Run, NEW i \in 1 .. MAX_EXTERNAL_SERVICES,
           VerifyExternal(r, i), NEW x \in Run
    PROVE  OfItsServices(x)' /\ WithinTheTerms(x)'
<1> DEFINE service == snapshot[r][i]
           asked(n) == offers[service.url][n]
<1>1. PICK n \in DOMAIN offers[service.url] :
          /\ GateAccepts(group[r], service.paymentIndex, service.chosen, asked(n))
          /\ \A a \in accepted[r] : a[1] # i
          /\ accepted' = [accepted EXCEPT ![r] = @ \union {<<i, asked(n)>>}]
  BY DEF VerifyExternal
<1>2. group' = group /\ snapshot' = snapshot /\ i \in DOMAIN snapshot[r] /\ group[r] # None
  BY DEF VerifyExternal
<1>3. CASE x = r
  <2>1. snapshot[r] \in Seq(Service)
    BY <1>2 DEF GroupInv, TypeOK
  <2>2. service \in Service
    BY <1>2, <2>1, LenProperties, ElementOfSeq
  <2>3. service.url \in Url /\ service.chosen.amount \in Nat
    BY <2>2 DEF Service
  <2>4. offers[service.url] \in Seq(Option)
    BY <2>3, RegistryAssumption DEF GroupInv, TypeOK
  <2>5. asked(n) \in Option
    BY <2>4, LenProperties, ElementOfSeq
  <2>6. /\ asked(n).payTo = service.chosen.payTo
        /\ asked(n).amount \in Nat /\ asked(n).amount <= service.chosen.amount
    BY <1>1, <2>3, <2>5 DEF GateAccepts, Covers, Option
  <2> DEFINE new == <<i, asked(n)>>
  <2>7. new[1] = i /\ new[2] = asked(n)
    OBVIOUS
  <2> HIDE DEF asked, new
  <2>8. accepted'[r] = accepted[r] \union {new}
    BY <1>1 DEF GroupInv, TypeOK, new
  <2>9. WithinTheTerms(r)
    BY DEF GroupInv
  <2>10. WithinTheTerms(r)'
    BY <1>1, <1>2, <2>6, <2>7, <2>8, <2>9 DEF WithinTheTerms
  <2>11. OfItsServices(r)'
    BY <1>2 DEF GroupInv, OfItsServices
  <2>12. QED BY <1>3, <2>10, <2>11
<1>4. CASE x # r
  BY <1>1, <1>2, <1>4, UntouchedKeeps DEF GroupInv, TypeOK
<1>5. QED BY <1>3, <1>4

LEMMA GroupInit == Init => GroupInv
<1>1. Init => \A r \in Run : OfItsServices(r) /\ WithinTheTerms(r)
  BY DEF Init, OfItsServices, WithinTheTerms
<1>2. QED BY <1>1, TypeInit DEF GroupInv

LEMMA GroupStep == GroupInv /\ [Next]_vars => GroupInv'
<1> SUFFICES ASSUME GroupInv, [Next]_vars PROVE GroupInv'
  OBVIOUS
<1>1. TypeOK'
  BY TypeStep DEF GroupInv
<1>2. ASSUME NEW x \in Run PROVE OfItsServices(x)' /\ WithinTheTerms(x)'
  <2>1. CASE UNCHANGED runVars
    BY <2>1, UntouchedKeeps DEF runVars
  <2>2. CASE \E r \in Run : QuoteRun(r)
    BY <2>2, QuoteKeeps
  <2>3. CASE \E r \in Run, fees \in Fees : BuildGroup(r, fees)
    BY <2>3, BuildKeeps
  <2>4. CASE \E r \in Run, i \in 1 .. MAX_EXTERNAL_SERVICES : VerifyExternal(r, i)
    BY <2>4, AcceptKeeps
  <2>5. QED
    BY <2>1, <2>2, <2>3, <2>4
    DEF Next, vars, runVars, DiscoverStart, DiscoverAnswered, DiscoverFails, Deregister,
        Reset, Reprice
<1>3. QED BY <1>1, <1>2 DEF GroupInv

LEMMA GroupInvariance == Spec => []GroupInv
<1>1. QED BY GroupInit, GroupStep, PTL DEF Spec

\* The transactions of a group: its fee payer, its checks, its services, its order.
LEMMA TransactionsAre ==
    ASSUME NEW services \in Seq(Service), NEW fees \in Fees
    PROVE  LET n == Len(services)
               txns == Transactions(services, fees)
           IN  /\ n \in Nat /\ DOMAIN services = 1 .. n
               /\ GroupSize(services) = n + 5 /\ DOMAIN txns = 0 .. n + 4
               /\ txns[0] = FeePayment(n + 5)
               /\ \A i \in 1 .. 3 : txns[i] = Transfer(Checks[i], fees[i]) /\ fees[i] \in Nat
               /\ \A i \in 1 .. n :
                    /\ txns[i + 3] = Transfer(services[i].chosen.payTo, services[i].chosen.amount)
                    /\ services[i].chosen.amount \in Nat
               /\ txns[n + 4] = Transfer(Supplier, OrderTotal)
<1> DEFINE n == Len(services)
           txns == Transactions(services, fees)
<1>1. n \in Nat /\ DOMAIN services = 1 .. n
  BY LenProperties
<1>2. GroupSize(services) = n + 5 /\ GroupSize(services) - 1 = n + 4 /\ GroupSize(services) - 2 = n + 3
  BY <1>1 DEF GroupSize
<1>3. \A i \in 1 .. n : services[i].chosen.amount \in Nat
  <2>1. \A s \in Service : s.chosen.amount \in Nat
    BY DEF Service
  <2>2. QED BY <1>1, <2>1, ElementOfSeq
<1>4. \A i \in 1 .. 3 : fees[i] \in Nat
  BY RegistryAssumption
<1>5. ASSUME NEW slot \in 0 .. n + 4
      PROVE  /\ slot = 0 => txns[slot] = FeePayment(n + 5)
             /\ slot \in 1 .. 3 => txns[slot] = Transfer(Checks[slot], fees[slot])
             /\ slot \in 4 .. n + 3 =>
                    txns[slot] = Transfer(services[slot - 3].chosen.payTo,
                                          services[slot - 3].chosen.amount)
             /\ slot = n + 4 => txns[slot] = Transfer(Supplier, OrderTotal)
  <2>1. txns[slot] = CASE slot = 0 -> FeePayment(n + 5)
                      [] slot \in 1 .. 3 -> Transfer(Checks[slot], fees[slot])
                      [] slot \in 4 .. n + 3 ->
                            Transfer(services[slot - 3].chosen.payTo,
                                     services[slot - 3].chosen.amount)
                      [] slot = n + 4 -> Transfer(Supplier, OrderTotal)
    BY <1>2 DEF Transactions
  <2> HIDE DEF txns
  <2>2. QED BY <1>1, <2>1
<1>6. DOMAIN txns = 0 .. n + 4
  BY <1>2 DEF Transactions
<1> HIDE DEF txns
<1>7. ASSUME NEW i \in 1 .. n
      PROVE  txns[i + 3] = Transfer(services[i].chosen.payTo, services[i].chosen.amount)
  <2>1. i + 3 \in 0 .. n + 4 /\ i + 3 \in 4 .. n + 3 /\ (i + 3) - 3 = i
    BY <1>1
  <2>2. QED BY <1>5, <2>1
<1>8. 0 \in 0 .. n + 4 /\ n + 4 \in 0 .. n + 4 /\ \A i \in 1 .. 3 : i \in 0 .. n + 4
  BY <1>1
<1>9. QED BY <1>1, <1>2, <1>3, <1>4, <1>5, <1>6, <1>7, <1>8 DEF txns

\* A service's place is three before the slot of its transfer: no two share one.
LEMMA PlacesToSlots ==
    ASSUME NEW n \in Nat, NEW S \in SUBSET (1 .. n), NEW T \in SUBSET (0 .. n + 4),
           \A i \in S : i + 3 \in T
    PROVE  /\ [i \in S |-> i + 3] \in Injection(S, T)
           /\ IsFiniteSet(T)
<1>1. IsFiniteSet(T)
  <2>1. 0 \in Int /\ n + 4 \in Int
    OBVIOUS
  <2>2. IsFiniteSet(0 .. n + 4)
    BY <2>1, FS_Interval
  <2>3. QED BY <2>2, FS_Subset
<1>2. \A i, j \in S : i + 3 = j + 3 => i = j
  OBVIOUS
<1>3. QED BY <1>1, <1>2 DEF Injection, IsInjective

\* However discoveries and deletions race, a run's group has a transfer for each
\* of its services, and the order payment comes last.
THEOREM TransferTheorem == Spec => []EachServiceHasItsTransfer
<1>1. ASSUME GroupInv PROVE EachServiceHasItsTransfer
  <2>1. ASSUME NEW r \in Run, group[r] # None
        PROVE  /\ \A i \in DOMAIN snapshot[r] :
                    LET terms == snapshot[r][i].chosen
                    IN  TransfersTo(group[r], terms.payTo, terms.amount)
                            >= ServicesAsking(snapshot[r], terms.payTo, terms.amount)
               /\ group[r][Cardinality(DOMAIN group[r]) - 1] = Transfer(Supplier, OrderTotal)
    <3> DEFINE services == snapshot[r]
               n == Len(services)
    <3>1. PICK fees \in Fees : group[r] = Transactions(services, fees)
      BY <1>1, <2>1 DEF GroupInv, OfItsServices
    <3>2. services \in Seq(Service)
      BY <1>1, <2>1 DEF GroupInv, TypeOK
    <3> DEFINE txns == group[r]
    <3>3. /\ n \in Nat /\ DOMAIN services = 1 .. n /\ DOMAIN txns = 0 .. n + 4
          /\ \A i \in 1 .. n :
                txns[i + 3] = Transfer(services[i].chosen.payTo, services[i].chosen.amount)
          /\ txns[n + 4] = Transfer(Supplier, OrderTotal)
      BY <3>1, <3>2, TransactionsAre
    <3> HIDE DEF services, n, txns
    <3>4. ASSUME NEW a, NEW amount
          PROVE  TransfersTo(txns, a, amount) >= ServicesAsking(services, a, amount)
      <4> DEFINE S == {i \in 1 .. n : services[i].chosen.payTo = a
                                      /\ services[i].chosen.amount = amount}
                 T == {slot \in 0 .. n + 4 : txns[slot] = Transfer(a, amount)}
      <4>1. \A i \in S : i + 3 \in T
        <5> TAKE i \in S
        <5>1. i \in 1 .. n /\ i + 3 \in 0 .. n + 4
          BY <3>3
        <5>2. QED BY <3>3, <5>1
      <4>2. S \in SUBSET (1 .. n) /\ T \in SUBSET (0 .. n + 4)
        OBVIOUS
      <4>3. TransfersTo(txns, a, amount) = Cardinality(T)
        BY <3>3 DEF TransfersTo
      <4>4. ServicesAsking(services, a, amount) = Cardinality(S)
        BY <3>3 DEF ServicesAsking
      <4> HIDE DEF S, T
      <4>5. [i \in S |-> i + 3] \in Injection(S, T) /\ IsFiniteSet(T)
        BY <3>3, <4>1, <4>2, PlacesToSlots
      <4>6. IsFiniteSet(S) /\ Cardinality(S) <= Cardinality(T)
        BY <4>5, FS_Injection
      <4>7. Cardinality(S) \in Nat /\ Cardinality(T) \in Nat
        BY <4>5, <4>6, FS_CardinalityType
      <4>8. QED BY <4>3, <4>4, <4>6, <4>7
    <3>5. Cardinality(DOMAIN txns) - 1 = n + 4
      <4>1. 0 \in Int /\ n + 4 \in Int
        BY <3>3
      <4>2. Cardinality(0 .. n + 4) = IF 0 > n + 4 THEN 0 ELSE n + 4 - 0 + 1
        BY <4>1, FS_Interval
      <4>3. QED BY <3>3, <4>2
    <3>6. QED BY <3>3, <3>4, <3>5 DEF services, txns
  <2>2. QED BY <2>1 DEF EachServiceHasItsTransfer
<1>2. QED BY <1>1, GroupInvariance, PTL

\* The fees of the services of a group are the sum of its transfers to them.
LEMMA ExternalFeesType ==
    ASSUME NEW services \in Seq(Service)
    PROVE  ExternalFees(services) \in Nat
<1> DEFINE f == [i \in DOMAIN services |-> services[i].chosen.amount]
<1>1. Len(services) \in Nat /\ DOMAIN services = 1 .. Len(services)
  BY LenProperties
<1>2. \A i \in DOMAIN services : f[i] \in Nat
  <2>1. \A s \in Service : s.chosen.amount \in Nat
    BY DEF Service
  <2>2. QED BY <1>1, <2>1, ElementOfSeq
<1>3. IsFiniteSet(DOMAIN services) /\ DOMAIN f = DOMAIN services
  BY <1>1, IntervalSize
<1> HIDE DEF f
<1>4. SumFunctionOnSet(f, DOMAIN services) \in Nat
  BY <1>2, <1>3, SumChosenFirst
<1>5. QED BY <1>3, <1>4 DEF ExternalFees, SumFunction, f

\* What the group takes from the buyer is the total the wallet was asked for.
LEMMA BuyerPays ==
    ASSUME NEW services \in Seq(Service), NEW fees \in Fees,
           NEW amounts, \A i \in 1 .. 3 : amounts[i] = fees[i],
           \A i \in 1 .. Len(services) : amounts[i + 3] = services[i].chosen.amount,
           amounts[Len(services) + 4] = OrderTotal
    PROVE  SumFunctionOnSet(amounts, 1 .. Len(services) + 4) <= GrandTotal(services, fees)
<1> DEFINE n == Len(services)
           f == [i \in DOMAIN services |-> services[i].chosen.amount]
           Sum(S) == SumFunctionOnSet(amounts, S)
           All == 1 .. n + 4
           Rest == 4 .. n + 3
<1>1. /\ n \in Nat /\ DOMAIN services = 1 .. n
      /\ \A i \in 1 .. n : services[i].chosen.amount \in Nat
      /\ \A i \in 1 .. 3 : fees[i] \in Nat
  BY TransactionsAre
<1>2. \A slot \in All : amounts[slot] \in Nat
  <2> TAKE slot \in All
  <2>1. CASE slot \in 1 .. 3
    BY <1>1, <2>1
  <2>2. CASE slot \in 4 .. n + 3
    <3>1. slot - 3 \in 1 .. n /\ (slot - 3) + 3 = slot
      BY <1>1, <2>2
    <3>2. amounts[slot] = services[slot - 3].chosen.amount
      BY <3>1
    <3>3. QED BY <1>1, <3>1, <3>2
  <2>3. CASE slot = n + 4
    BY <2>3, RegistryAssumption
  <2>4. QED BY <1>1, <2>1, <2>2, <2>3
<1>3. IsFiniteSet(All)
  <2>1. n + 4 \in Nat
    BY <1>1
  <2>2. QED BY <2>1, IntervalSize
<1> HIDE DEF n
<1>4. \A S \in SUBSET All : Sum(S) \in Nat /\ \A x \in S : Sum(S) = amounts[x] + Sum(S \ {x})
  <2> TAKE S \in SUBSET All
  <2>1. IsFiniteSet(S) /\ \A x \in S : amounts[x] \in Nat
    BY <1>2, <1>3, FS_Subset
  <2>2. QED BY <2>1, SumChosenFirst, SumRemove
<1>5. Sum(Rest) \in Nat /\ Sum(Rest) <= ExternalFees(services)
  <2> DEFINE e == [slot \in Rest |-> slot - 3]
  <2>1. e \in Injection(Rest, DOMAIN services)
    BY <1>1 DEF Injection, IsInjective
  <2>2. \A slot \in Rest : amounts[slot] \in Nat /\ amounts[slot] <= f[e[slot]]
    <3> TAKE slot \in Rest
    <3>1. slot - 3 \in 1 .. n /\ (slot - 3) + 3 = slot
      BY <1>1
    <3>2. amounts[slot] = services[slot - 3].chosen.amount
      BY <3>1 DEF n
    <3>3. f[e[slot]] = services[slot - 3].chosen.amount
      BY <1>1, <3>1
    <3>4. QED BY <1>1, <3>1, <3>2, <3>3
  <2>3. IsFiniteSet(DOMAIN services) /\ DOMAIN f = DOMAIN services
    BY <1>1, IntervalSize
  <2>4. \A i \in DOMAIN services : f[i] \in Nat
    BY <1>1
  <2> HIDE DEF e, f
  <2>5. Sum(Rest) \in Nat /\ Sum(Rest) <= SumFunctionOnSet(f, DOMAIN services)
    BY <2>1, <2>2, <2>3, <2>4, SumCovers
  <2>6. ExternalFees(services) = SumFunctionOnSet(f, DOMAIN services)
    BY <2>3 DEF ExternalFees, SumFunction, f
  <2>7. QED BY <2>5, <2>6
<1> DEFINE A1 == All \ {n + 4}
           A2 == A1 \ {1}
           A3 == A2 \ {2}
<1>6. /\ A1 \in SUBSET All /\ A2 \in SUBSET All /\ A3 \in SUBSET All
      /\ n + 4 \in All /\ 1 \in A1 /\ 2 \in A2 /\ 3 \in A3 /\ A3 \ {3} = Rest
  BY SMTT(30), <1>1
<1>7. Sum(All) = amounts[n + 4] + (amounts[1] + (amounts[2] + (amounts[3] + Sum(Rest))))
  <2>1. Sum(All) = amounts[n + 4] + Sum(A1)
    BY <1>4, <1>6
  <2>2. Sum(A1) = amounts[1] + Sum(A2)
    BY <1>4, <1>6
  <2>3. Sum(A2) = amounts[2] + Sum(A3)
    BY <1>4, <1>6
  <2>4. Sum(A3) = amounts[3] + Sum(Rest)
    BY ZenonT(60), <1>4, <1>6
  <2> HIDE DEF All, A1, A2, A3, Rest, Sum
  <2>5. QED BY <2>1, <2>2, <2>3, <2>4
<1>8. /\ amounts[1] = fees[1] /\ amounts[2] = fees[2] /\ amounts[3] = fees[3]
      /\ amounts[n + 4] = OrderTotal /\ OrderTotal \in Nat
      /\ fees[1] \in Nat /\ fees[2] \in Nat /\ fees[3] \in Nat
  BY <1>1, RegistryAssumption DEF n
<1>9. ExternalFees(services) \in Nat
  BY ExternalFeesType
<1> HIDE DEF Rest, f
<1>10. SumFunctionOnSet(amounts, All) <= GrandTotal(services, fees)
  <2> HIDE DEF All
  <2> DEFINE rest == Sum(Rest)
             all == Sum(All)
  <2>1. all = OrderTotal + (fees[1] + (fees[2] + (fees[3] + rest)))
    BY <1>7, <1>8
  <2>2. rest \in Nat /\ rest <= ExternalFees(services)
    BY <1>5
  <2> DEFINE external == ExternalFees(services)
             f1 == fees[1]
             f2 == fees[2]
             f3 == fees[3]
  <2>3. f1 \in Nat /\ f2 \in Nat /\ f3 \in Nat /\ external \in Nat /\ OrderTotal \in Nat
    BY <1>8, <1>9
  <2>4. all = OrderTotal + (f1 + (f2 + (f3 + rest))) /\ rest \in Nat /\ rest <= external
    BY <2>1, <2>2
  <2> HIDE DEF rest, all, external, f1, f2, f3
  <2>5. all <= f1 + f2 + f3 + external + OrderTotal
    BY <2>3, <2>4
  <2>6. QED BY <2>5 DEF GrandTotal, all, external, f1, f2, f3
<1>11. QED BY <1>10 DEF n

\* What a group takes from the buyer was in the wallet when it was built, the
\* buyer pays no network fee, and the fee payer's covers every transaction.
THEOREM FundedTheorem == Spec => []GroupIsFunded
<1>1. ASSUME GroupInv, NEW r \in Run, group[r] # None
      PROVE  LET txns == group[r]
                 buyers == {slot \in DOMAIN txns : txns[slot].from = Buyer}
             IN  /\ SumFunctionOnSet([slot \in DOMAIN txns |-> txns[slot].amount + txns[slot].fee],
                                     buyers) <= Balance
                 /\ SumFunction([slot \in DOMAIN txns |-> txns[slot].fee])
                         >= MIN_TXN_FEE * Cardinality(DOMAIN txns)
  <2> DEFINE services == snapshot[r]
             n == Len(services)
             txns == group[r]
             amounts == [slot \in DOMAIN txns |-> txns[slot].amount + txns[slot].fee]
             fee == [slot \in DOMAIN txns |-> txns[slot].fee]
             buyers == {slot \in DOMAIN txns : txns[slot].from = Buyer}
  <2>1. PICK fees \in Fees : /\ txns = Transactions(services, fees)
                             /\ HoldingSuffices(GrandTotal(services, fees))
    BY <1>1 DEF GroupInv, OfItsServices
  <2>2. services \in Seq(Service)
    BY <1>1 DEF GroupInv, TypeOK
  <2>3. /\ n \in Nat /\ DOMAIN services = 1 .. n /\ DOMAIN txns = 0 .. n + 4
        /\ txns[0] = FeePayment(n + 5)
        /\ \A i \in 1 .. 3 : txns[i] = Transfer(Checks[i], fees[i]) /\ fees[i] \in Nat
        /\ \A i \in 1 .. n :
              /\ txns[i + 3] = Transfer(services[i].chosen.payTo, services[i].chosen.amount)
              /\ services[i].chosen.amount \in Nat
        /\ txns[n + 4] = Transfer(Supplier, OrderTotal)
    BY SMTT(30), <2>1, <2>2, TransactionsAre
  <2> HIDE DEF services, n, txns
  <2>4. ASSUME NEW slot \in 1 .. n + 4
        PROVE  \E to, amount : amount \in Nat /\ txns[slot] = Transfer(to, amount)
    <3>1. CASE slot \in 1 .. 3
      BY <2>3, <3>1
    <3>2. CASE slot \in 4 .. n + 3
      <4>1. slot - 3 \in 1 .. n /\ (slot - 3) + 3 = slot
        BY <2>3, <3>2
      <4>2. txns[slot] = Transfer(services[slot - 3].chosen.payTo, services[slot - 3].chosen.amount)
        BY <2>3, <4>1
      <4>3. QED BY <2>3, <4>1, <4>2
    <3>3. CASE slot = n + 4
      BY <2>3, <3>3, RegistryAssumption
    <3>4. QED BY <2>3, <3>1, <3>2, <3>3
  <2>5. \A slot \in 1 .. n + 4 : txns[slot].from = Buyer /\ txns[slot].fee = 0 /\ txns[slot].amount \in Nat
    <3> TAKE slot \in 1 .. n + 4
    <3>1. PICK to, amount : amount \in Nat /\ txns[slot] = Transfer(to, amount)
      BY <2>4
    <3>2. QED BY <3>1 DEF Transfer
  <2>6. txns[0].from = FeePayer /\ txns[0].fee = MIN_TXN_FEE * (n + 5)
    BY <2>3 DEF FeePayment
  <2>7. buyers = 1 .. n + 4
    <3>1. \A slot \in DOMAIN txns : slot = 0 \/ slot \in 1 .. n + 4
      BY <2>3
    <3>2. \A slot \in 1 .. n + 4 : slot \in DOMAIN txns
      BY <2>3
    <3>3. FeePayer # Buyer
      BY RegistryAssumption
    <3>4. 0 \notin 1 .. n + 4
      BY <2>3
    <3>5. QED BY <2>5, <2>6, <3>1, <3>2, <3>3, <3>4
  <2>8. SumFunctionOnSet(amounts, buyers) <= Balance
    <3>1. /\ \A i \in 1 .. 3 : i \in 1 .. n + 4
          /\ \A i \in 1 .. n : i + 3 \in 1 .. n + 4
          /\ n + 4 \in 1 .. n + 4
      BY <2>3
    <3>2. \A slot \in 1 .. n + 4 : amounts[slot] = txns[slot].amount
      <4> TAKE slot \in 1 .. n + 4
      <4>1. slot \in DOMAIN txns
        BY <2>3
      <4>2. QED BY <2>5, <4>1
    <3> HIDE DEF amounts
    <3>3. /\ \A i \in 1 .. 3 : amounts[i] = fees[i]
          /\ \A i \in 1 .. n : amounts[i + 3] = services[i].chosen.amount
          /\ amounts[n + 4] = OrderTotal
      <4>1. \A i \in 1 .. 3 : amounts[i] = fees[i]
        BY <2>3, <3>1, <3>2 DEF Transfer
      <4>2. ASSUME NEW i \in 1 .. n PROVE amounts[i + 3] = services[i].chosen.amount
        <5>1. amounts[i + 3] = txns[i + 3].amount
          BY <3>1, <3>2
        <5>2. txns[i + 3] = Transfer(services[i].chosen.payTo, services[i].chosen.amount)
          BY <2>3
        <5>3. QED BY <5>1, <5>2 DEF Transfer
      <4>3. amounts[n + 4] = OrderTotal
        BY <2>3, <3>1, <3>2 DEF Transfer
      <4>4. QED BY <4>1, <4>2, <4>3
    <3>4. SumFunctionOnSet(amounts, 1 .. n + 4) <= GrandTotal(services, fees)
      BY <2>2, <3>3, BuyerPays DEF n, services
    <3>5. GrandTotal(services, fees) <= Balance
      BY <2>1 DEF HoldingSuffices
    <3>6. GrandTotal(services, fees) \in Nat
      <4>1. /\ fees[1] \in Nat /\ fees[2] \in Nat /\ fees[3] \in Nat
            /\ ExternalFees(services) \in Nat /\ OrderTotal \in Nat
        BY <2>2, <2>3, ExternalFeesType, RegistryAssumption
      <4>2. QED BY <4>1 DEF GrandTotal
    <3>7. SumFunctionOnSet(amounts, 1 .. n + 4) \in Nat
      <4>1. n + 4 \in Nat /\ \A slot \in 1 .. n + 4 : amounts[slot] \in Nat
        BY <2>3, <2>5, <3>2
      <4>2. IsFiniteSet(1 .. n + 4)
        BY <4>1, IntervalSize
      <4>3. QED BY <4>1, <4>2, SumChosenFirst
    <3>8. Balance \in Nat
      BY RegistryAssumption
    <3> HIDE DEF buyers
    <3>9. SumFunctionOnSet(amounts, 1 .. n + 4) <= Balance
      BY <3>4, <3>5, <3>6, <3>7, <3>8
    <3>10. QED BY <2>7, <3>9
  <2>9. SumFunction(fee) >= MIN_TXN_FEE * Cardinality(DOMAIN txns)
    <3> DEFINE All == 0 .. n + 4
    <3>1. 0 \in Int /\ n + 4 \in Int /\ ~(0 > n + 4)
      BY <2>3
    <3>2. IsFiniteSet(All) /\ Cardinality(All) = n + 5
      <4>1. IsFiniteSet(All) /\ Cardinality(All) = IF 0 > n + 4 THEN 0 ELSE n + 4 - 0 + 1
        BY <3>1, FS_Interval
      <4>2. QED BY <2>3, <4>1
    <3>3. DOMAIN fee = All /\ 0 \in All
      BY <2>3
    <3>4. fee[0] = MIN_TXN_FEE * (n + 5) /\ fee[0] \in Nat
      BY <2>3, <2>6, <3>3 DEF MIN_TXN_FEE
    <3>5. \A slot \in All : fee[slot] \in Nat
      <4> TAKE slot \in All
      <4>1. slot = 0 \/ slot \in 1 .. n + 4
        BY <2>3
      <4>2. slot \in DOMAIN txns
        BY <2>3
      <4>3. QED BY <2>5, <3>4, <4>1, <4>2
    <3> HIDE DEF fee, All
    <3>6. SumFunctionOnSet(fee, All) = fee[0] + SumFunctionOnSet(fee, All \ {0})
      BY <3>2, <3>3, <3>5, SumRemove
    <3>7. IsFiniteSet(All \ {0}) /\ \A slot \in All \ {0} : fee[slot] \in Nat
      BY <3>2, <3>5, FS_RemoveElement
    <3>8. SumFunctionOnSet(fee, All \ {0}) \in Nat
      BY <3>7, SumChosenFirst
    <3>9. SumFunctionOnSet(fee, All) >= fee[0]
      BY <3>4, <3>6, <3>8
    <3>10. SumFunction(fee) >= MIN_TXN_FEE * (n + 5)
      BY <3>3, <3>4, <3>9 DEF SumFunction
    <3>11. Cardinality(DOMAIN txns) = n + 5
      BY <2>3, <3>2 DEF All
    <3>12. QED BY <3>10, <3>11
  <2>10. QED BY <2>8, <2>9 DEF txns
<1>2. GroupInv => GroupIsFunded
  BY <1>1 DEF GroupIsFunded
<1>3. QED BY <1>2, GroupInvariance, PTL

\* What a run's group sends to an account covers everything the services behind
\* that account asked for when they accepted, whatever slots they were told.
THEOREM AcceptedTheorem == Spec => []AcceptedArePaidInFull
<1>1. ASSUME GroupInv, NEW r \in Run, NEW a \in Account, group[r] # None
      PROVE  SumFunctionOnSet([x \in accepted[r] |-> x[2].amount],
                              {x \in accepted[r] : x[2].payTo = a})
                <= SumFunctionOnSet([slot \in DOMAIN group[r] |-> group[r][slot].amount],
                                    {slot \in DOMAIN group[r] : group[r][slot].to = a})
  <2> DEFINE services == snapshot[r]
             n == Len(services)
             txns == group[r]
             f == [x \in accepted[r] |-> x[2].amount]
             g == [slot \in DOMAIN txns |-> txns[slot].amount]
             S == {x \in accepted[r] : x[2].payTo = a}
             T == {slot \in DOMAIN txns : txns[slot].to = a}
             e == [x \in S |-> x[1] + 3]
  <2>1. PICK fees \in Fees : txns = Transactions(services, fees)
    BY <1>1 DEF GroupInv, OfItsServices
  <2>2. services \in Seq(Service) /\ WithinTheTerms(r)
    BY <1>1 DEF GroupInv, TypeOK
  <2>3. /\ n \in Nat /\ DOMAIN services = 1 .. n /\ DOMAIN txns = 0 .. n + 4
        /\ txns[0] = FeePayment(n + 5)
        /\ \A i \in 1 .. 3 : txns[i] = Transfer(Checks[i], fees[i]) /\ fees[i] \in Nat
        /\ \A i \in 1 .. n :
              /\ txns[i + 3] = Transfer(services[i].chosen.payTo, services[i].chosen.amount)
              /\ services[i].chosen.amount \in Nat
        /\ txns[n + 4] = Transfer(Supplier, OrderTotal)
    BY SMTT(30), <2>1, <2>2, TransactionsAre
  <2>4. \A x \in accepted[r] :
            /\ x[1] \in 1 .. n /\ x[2].payTo = services[x[1]].chosen.payTo
            /\ x[2].amount \in Nat /\ x[2].amount <= services[x[1]].chosen.amount
            /\ \A y \in accepted[r] : x[1] = y[1] => x = y
    BY <2>2, <2>3 DEF WithinTheTerms
  <2> HIDE DEF services, n, txns
  <2>5. ASSUME NEW slot \in 0 .. n + 4 PROVE txns[slot].amount \in Nat
    <3>1. CASE slot = 0
      BY <2>3, <3>1 DEF FeePayment
    <3>2. CASE slot \in 1 .. 3
      BY <2>3, <3>2 DEF Transfer
    <3>3. CASE slot \in 4 .. n + 3
      <4>1. slot - 3 \in 1 .. n /\ (slot - 3) + 3 = slot
        BY <2>3, <3>3
      <4>2. txns[slot] = Transfer(services[slot - 3].chosen.payTo, services[slot - 3].chosen.amount)
        BY <2>3, <4>1
      <4>3. QED BY <2>3, <4>1, <4>2 DEF Transfer
    <3>4. CASE slot = n + 4
      BY <2>3, <3>4, RegistryAssumption DEF Transfer
    <3>5. QED BY <2>3, <3>1, <3>2, <3>3, <3>4
  <2>6. ASSUME NEW x \in S
        PROVE  /\ x[1] + 3 \in T /\ x[1] \in Nat /\ f[x] \in Nat /\ f[x] <= g[x[1] + 3]
    <3>1. x \in accepted[r] /\ x[2].payTo = a /\ x[1] \in 1 .. n /\ f[x] = x[2].amount
      BY <2>4
    <3>2. x[1] + 3 \in DOMAIN txns /\ x[1] \in Nat
      BY SMTT(30), <2>3, <3>1
    <3>3. txns[x[1] + 3] = Transfer(services[x[1]].chosen.payTo, services[x[1]].chosen.amount)
      BY <2>3, <3>1
    <3>4. txns[x[1] + 3].to = a /\ txns[x[1] + 3].amount = services[x[1]].chosen.amount
      BY <2>4, <3>1, <3>3 DEF Transfer
    <3>5. g[x[1] + 3] = services[x[1]].chosen.amount
      BY <3>2, <3>4
    <3>6. QED BY <2>4, <3>1, <3>2, <3>4, <3>5
  <2>7. \A x, y \in S : x[1] + 3 = y[1] + 3 => x = y
    <3> TAKE x, y \in S
    <3>1. x[1] \in Nat /\ y[1] \in Nat
      BY <2>6
    <3>2. x[1] = y[1] => x = y
      BY <2>4
    <3>3. QED BY <3>1, <3>2
  <2>8. e \in Injection(S, T) /\ \A x \in S : f[x] <= g[e[x]]
    <3>1. e \in [S -> T]
      BY <2>6
    <3>2. \A x, y \in S : e[x] = e[y] => x = y
      BY <2>7
    <3>3. \A x \in S : f[x] <= g[e[x]]
      BY <2>6
    <3> HIDE DEF e, S, T
    <3>4. QED BY <3>1, <3>2, <3>3 DEF Injection, IsInjective
  <2>9. \A slot \in T : g[slot] \in Nat
    BY <2>3, <2>5
  <2>10. IsFiniteSet(T)
    <3>1. 0 \in Int /\ n + 4 \in Int
      BY <2>3
    <3>2. IsFiniteSet(0 .. n + 4)
      BY <3>1, FS_Interval
    <3>3. T \in SUBSET (0 .. n + 4)
      BY <2>3
    <3>4. QED BY <3>2, <3>3, FS_Subset
  <2>11. \A x \in S : f[x] \in Nat
    BY <2>6
  <2> HIDE DEF e, S, T, f, g
  <2>12. SumFunctionOnSet(f, S) <= SumFunctionOnSet(g, T)
    BY <2>8, <2>9, <2>10, <2>11, SumCovers
  <2>13. QED BY <2>12 DEF S, T, f, g, txns
<1>2. GroupInv => AcceptedArePaidInFull
  BY <1>1 DEF AcceptedArePaidInFull
<1>3. QED BY <1>2, GroupInvariance, PTL
================================================================================
