---------------------------- MODULE Sums_proofs ----------------------------
(***************************************************************************)
(* Sums over finite sets, for the ledger's books: SumFunctionOnSet of the  *)
(* community module Functions. An induction over the subsets of a finite   *)
(* set is written as a least counterexample: the subsets for which a claim *)
(* fails are a set F, a non-empty F has a member with no smaller one in F  *)
(* (LeastSubset), and that member is shown not to be in F after all.       *)
(***************************************************************************)
EXTENDS Integers, FiniteSets, Functions, FiniteSetTheorems, TLAPS

\* `g` is the recursive function behind a sum of `f` over subsets of `S`.
Sums(g, S, f) ==
    g = [s \in SUBSET S |->
            IF s = {} THEN 0
            ELSE f[CHOOSE x \in s : TRUE] + g[s \ {CHOOSE x \in s : TRUE}]]

\* What the definition of a sum comes down to.
LEMMA SumUnfold ==
    ASSUME NEW S, NEW f
    PROVE  SumFunctionOnSet(f, S) = (CHOOSE g : Sums(g, S, f))[S]
  BY DEF SumFunctionOnSet, FoldFunctionOnSet, MapThenFoldSet, Sums

\* Inclusion is well founded on the subsets of a finite set.
LEMMA LeastSubset ==
    ASSUME NEW S, IsFiniteSet(S), NEW F, F \subseteq SUBSET S, F # {}
    PROVE  \E T \in F : \A U \in F : U \subseteq T => U = T
  <1>1. FiniteSubsetsOf(S) = SUBSET S
    BY FS_FiniteSubsetsOfFinite
  <1>2. IsWellFoundedOn(StrictSubsetOrdering(S), SUBSET S)
    BY <1>1, FS_StrictSubsetOrderingWellFounded
  <1>3. PICK T \in F : \A U \in F : ~ (<<U, T>> \in StrictSubsetOrdering(S))
    BY <1>2, WFMin
  <1>4. ASSUME NEW U \in F, U \subseteq T
        PROVE  U = T
    <2>1. <<U, T>> \in StrictSubsetOrdering(S) <=> (U \subseteq T /\ U # T)
      BY DEF StrictSubsetOrdering
    <2> QED BY <1>3, <1>4, <2>1
  <1> QED BY <1>4

\* A set of naturals has a least one.
LEMMA LeastNumber ==
    ASSUME NEW F, F \subseteq Nat, F # {}
    PROVE  \E n \in F : \A m \in F : n <= m
  <1>1. PICK n \in F : \A m \in F : ~ (<<m, n>> \in OpToRel(<, Nat))
    BY NatLessThanWellFounded, WFMin
  <1>2. ASSUME NEW m \in F
        PROVE  n <= m
    <2>1. m \in Nat /\ n \in Nat
      OBVIOUS
    <2>2. <<m, n>> \in OpToRel(<, Nat) <=> m < n
      BY <2>1 DEF OpToRel
    <2>3. ~ (m < n)
      BY <1>1, <2>2, Zenon
    <2> QED BY <2>1, <2>3
  <1> QED BY <1>2

\* Two of them agree where both are defined.
LEMMA SumsAgree ==
    ASSUME NEW S, NEW T, NEW f, NEW g, NEW h, Sums(g, S, f), Sums(h, T, f),
           NEW v, IsFiniteSet(v), v \subseteq S, v \subseteq T
    PROVE  g[v] = h[v]
  <1> DEFINE F == {u \in SUBSET v : g[u] # h[u]}
  <1> SUFFICES ASSUME F # {} PROVE FALSE
    OBVIOUS
  <1>0. F \subseteq SUBSET v
    OBVIOUS
  <1>1. PICK u \in F : \A w \in F : w \subseteq u => w = u
    <2> HIDE DEF F
    <2> QED BY <1>0, LeastSubset
  <1> DEFINE x == CHOOSE x \in u : TRUE
  <1>2. /\ g[u] = IF u = {} THEN 0 ELSE f[x] + g[u \ {x}]
        /\ h[u] = IF u = {} THEN 0 ELSE f[x] + h[u \ {x}]
    <2>1. u \in SUBSET S /\ u \in SUBSET T
      OBVIOUS
    <2> HIDE DEF F
    <2> QED BY <2>1 DEF Sums
  <1>3. CASE u = {}
    BY <1>2, <1>3
  <1>4. CASE u # {}
    <2>1. x \in u
      BY <1>4
    <2> HIDE DEF x
    <2>2. u \ {x} \notin F
      BY <1>1, <2>1
    <2>3. g[u \ {x}] = h[u \ {x}]
      BY <2>2
    <2> QED BY <1>2, <1>4, <2>3
  <1> QED BY <1>3, <1>4

\* There is one for every finite set.
LEMMA SumsExist ==
    ASSUME NEW S, IsFiniteSet(S), NEW f
    PROVE  \E g : Sums(g, S, f)
  <1> DEFINE F == {T \in SUBSET S : ~ \E g : Sums(g, T, f)}
  <1> SUFFICES ASSUME F # {} PROVE FALSE
    OBVIOUS
  <1>0. F \subseteq SUBSET S
    OBVIOUS
  <1>1. PICK T \in F : \A U \in F : U \subseteq T => U = T
    <2> HIDE DEF F
    <2> QED BY <1>0, LeastSubset
  <1> DEFINE G(U) == CHOOSE g : Sums(g, U, f)
             c(s) == CHOOSE x \in s : TRUE
             h == [s \in SUBSET T |-> IF s = {} THEN 0
                                      ELSE f[c(s)] + G(s \ {c(s)})[s \ {c(s)}]]
  <1>2. ASSUME NEW U, U \subseteq T, U # T
        PROVE  Sums(G(U), U, f)
    <2>1. U \notin F
      BY <1>1, <1>2
    <2>2. \E g : Sums(g, U, f)
      BY <2>1, <1>2
    <2> QED BY <2>2
  <1> HIDE DEF G
  <1>3. ASSUME NEW u, u \subseteq T, u # T
        PROVE  h[u] = G(u)[u]
    <2>1. Sums(G(u), u, f)
      BY <1>2, <1>3
    <2>2. G(u)[u] = IF u = {} THEN 0 ELSE f[c(u)] + G(u)[u \ {c(u)}]
      BY <2>1 DEF Sums
    <2>3. h[u] = IF u = {} THEN 0 ELSE f[c(u)] + G(u \ {c(u)})[u \ {c(u)}]
      BY <1>3
    <2>4. CASE u = {}
      BY <2>2, <2>3, <2>4
    <2>5. CASE u # {}
      <3> DEFINE v == u \ {c(u)}
      <3>1. c(u) \in u
        BY <2>5
      <3>2. v \subseteq u /\ v \subseteq T /\ v # T
        BY <3>1, <1>3
      <3>3. IsFiniteSet(v)
        BY <3>2, FS_Subset
      <3>4. Sums(G(v), v, f)
        BY <3>2, <1>2
      <3> HIDE DEF v
      <3>5. G(u)[v] = G(v)[v]
        BY <2>1, <3>2, <3>3, <3>4, SumsAgree
      <3> QED BY <2>2, <2>3, <2>5, <3>5 DEF v
    <2> QED BY <2>4, <2>5
  <1>4. ASSUME NEW s \in SUBSET T, s # {}
        PROVE  G(s \ {c(s)})[s \ {c(s)}] = h[s \ {c(s)}]
    <2>1. c(s) \in s
      BY <1>4
    <2> HIDE DEF c
    <2>2. s \ {c(s)} \subseteq T /\ s \ {c(s)} # T
      BY <2>1
    <2> QED BY <1>3, <2>2
  <1>5. h = [s \in SUBSET T |-> IF s = {} THEN 0 ELSE f[c(s)] + h[s \ {c(s)}]]
    <2> DEFINE k == [s \in SUBSET T |-> IF s = {} THEN 0 ELSE f[c(s)] + h[s \ {c(s)}]]
    <2>1. \A s \in SUBSET T : h[s] = k[s]
      <3> SUFFICES ASSUME NEW s \in SUBSET T PROVE h[s] = k[s]
        OBVIOUS
      <3>1. h[s] = IF s = {} THEN 0 ELSE f[c(s)] + G(s \ {c(s)})[s \ {c(s)}]
        OBVIOUS
      <3> HIDE DEF h
      <3>2. k[s] = IF s = {} THEN 0 ELSE f[c(s)] + h[s \ {c(s)}]
        OBVIOUS
      <3> HIDE DEF c, k
      <3> QED BY <1>4, <3>1, <3>2
    <2>2. h = [s \in SUBSET T |-> h[s]] /\ k = [s \in SUBSET T |-> k[s]]
      OBVIOUS
    <2> HIDE DEF h, k
    <2>3. h = k
      BY <2>1, <2>2
    <2> QED BY <2>3 DEF k
  <1>6. Sums(h, T, f)
    BY <1>5 DEF Sums
  <1> QED BY <1>1, <1>6

\* What a sum is: nothing, or some element and the sum of the others.
LEMMA SumStep ==
    ASSUME NEW S, IsFiniteSet(S), NEW f
    PROVE  SumFunctionOnSet(f, S) =
             IF S = {} THEN 0
             ELSE f[CHOOSE x \in S : TRUE]
                    + SumFunctionOnSet(f, S \ {CHOOSE x \in S : TRUE})
  <1> DEFINE x == CHOOSE x \in S : TRUE
             g == CHOOSE g : Sums(g, S, f)
             h == CHOOSE h : Sums(h, S \ {x}, f)
  <1>1. IsFiniteSet(S \ {x})
    BY FS_RemoveElement
  <1>2. Sums(g, S, f) /\ Sums(h, S \ {x}, f)
    BY <1>1, SumsExist
  <1>3. SumFunctionOnSet(f, S) = g[S] /\ SumFunctionOnSet(f, S \ {x}) = h[S \ {x}]
    BY SumUnfold
  <1> HIDE DEF g, h
  <1>4. g[S] = IF S = {} THEN 0 ELSE f[x] + g[S \ {x}]
    BY <1>2 DEF Sums
  <1>5. g[S \ {x}] = h[S \ {x}]
    BY <1>1, <1>2, SumsAgree
  <1> QED BY <1>3, <1>4, <1>5

-----------------------------------------------------------------------------
\* The lemmas to cite.

\* Nothing sums to nothing.
LEMMA SumEmpty == ASSUME NEW f PROVE SumFunctionOnSet(f, {}) = 0
  BY SumStep, FS_EmptySet

\* A sum of integers is one.
LEMMA SumInt ==
    ASSUME NEW S, IsFiniteSet(S), NEW f, \A x \in S : f[x] \in Int
    PROVE  SumFunctionOnSet(f, S) \in Int
  <1> DEFINE F == {T \in SUBSET S : SumFunctionOnSet(f, T) \notin Int}
  <1> SUFFICES ASSUME F # {} PROVE FALSE
    OBVIOUS
  <1>0. F \subseteq SUBSET S
    OBVIOUS
  <1>1. PICK T \in F : \A U \in F : U \subseteq T => U = T
    <2> HIDE DEF F
    <2> QED BY <1>0, LeastSubset
  <1>2. IsFiniteSet(T) /\ T \subseteq S
    BY FS_Subset
  <1>3. T # {}
    BY SumEmpty
  <1> DEFINE x == CHOOSE x \in T : TRUE
  <1>4. x \in T
    BY <1>3
  <1>5. SumFunctionOnSet(f, T) = f[x] + SumFunctionOnSet(f, T \ {x})
    BY <1>2, <1>3, SumStep
  <1> HIDE DEF x
  <1>6. T \ {x} \notin F
    BY <1>1, <1>4
  <1>7. SumFunctionOnSet(f, T \ {x}) \in Int
    BY <1>2, <1>6
  <1> QED BY <1>2, <1>4, <1>5, <1>7

\* The same for naturals.
LEMMA SumNat ==
    ASSUME NEW S, IsFiniteSet(S), NEW f, \A x \in S : f[x] \in Nat
    PROVE  SumFunctionOnSet(f, S) \in Nat
  <1> DEFINE F == {T \in SUBSET S : SumFunctionOnSet(f, T) \notin Nat}
  <1> SUFFICES ASSUME F # {} PROVE FALSE
    OBVIOUS
  <1>0. F \subseteq SUBSET S
    OBVIOUS
  <1>1. PICK T \in F : \A U \in F : U \subseteq T => U = T
    <2> HIDE DEF F
    <2> QED BY <1>0, LeastSubset
  <1>2. IsFiniteSet(T) /\ T \subseteq S
    BY FS_Subset
  <1>3. T # {}
    BY SumEmpty
  <1> DEFINE x == CHOOSE x \in T : TRUE
  <1>4. x \in T
    BY <1>3
  <1>5. SumFunctionOnSet(f, T) = f[x] + SumFunctionOnSet(f, T \ {x})
    BY <1>2, <1>3, SumStep
  <1> HIDE DEF x
  <1>6. T \ {x} \notin F
    BY <1>1, <1>4
  <1>7. SumFunctionOnSet(f, T \ {x}) \in Nat
    BY <1>2, <1>6
  <1> QED BY <1>2, <1>4, <1>5, <1>7

\* Any element may be taken out first: the order of a sum does not matter.
LEMMA SumRemove ==
    ASSUME NEW S, IsFiniteSet(S), NEW f, \A x \in S : f[x] \in Int, NEW a \in S
    PROVE  SumFunctionOnSet(f, S) = f[a] + SumFunctionOnSet(f, S \ {a})
  <1> DEFINE Out(T, b) == SumFunctionOnSet(f, T) = f[b] + SumFunctionOnSet(f, T \ {b})
             F == {T \in SUBSET S : \E b \in T : ~Out(T, b)}
  <1> SUFFICES ASSUME F # {} PROVE FALSE
    OBVIOUS
  <1>0. F \subseteq SUBSET S
    OBVIOUS
  <1>1. PICK T \in F : \A U \in F : U \subseteq T => U = T
    <2> HIDE DEF F
    <2> QED BY <1>0, LeastSubset
  <1>2. IsFiniteSet(T) /\ T \subseteq S
    BY FS_Subset
  <1>3. PICK b \in T : ~Out(T, b)
    OBVIOUS
  <1> DEFINE x == CHOOSE x \in T : TRUE
  <1>4. x \in T
    BY <1>3
  <1>5. Out(T, x)
    BY <1>2, <1>3, SumStep
  <1> HIDE DEF x
  <1>6. x # b
    BY <1>3, <1>5
  <1>7. T \ {x} \notin F /\ T \ {b} \notin F
    BY <1>1, <1>3, <1>4
  <1>8. Out(T \ {x}, b) /\ Out(T \ {b}, x)
    BY <1>2, <1>3, <1>4, <1>6, <1>7
  <1>9. (T \ {x}) \ {b} = (T \ {b}) \ {x}
    OBVIOUS
  <1> DEFINE R == (T \ {b}) \ {x}
  <1>10. SumFunctionOnSet(f, R) \in Int /\ f[x] \in Int /\ f[b] \in Int
    <2>1. IsFiniteSet(R) /\ R \subseteq S
      BY <1>2, FS_Subset
    <2> HIDE DEF R
    <2> QED BY <1>2, <1>3, <1>4, <2>1, SumInt
  <1>11. /\ SumFunctionOnSet(f, T) = f[x] + SumFunctionOnSet(f, T \ {x})
         /\ SumFunctionOnSet(f, T \ {x}) = f[b] + SumFunctionOnSet(f, R)
         /\ SumFunctionOnSet(f, T \ {b}) = f[x] + SumFunctionOnSet(f, R)
         /\ SumFunctionOnSet(f, T) # f[b] + SumFunctionOnSet(f, T \ {b})
    BY <1>3, <1>5, <1>8, <1>9
  <1> HIDE DEF R
  <1> QED BY <1>10, <1>11

\* A sum grows by what its terms grow by: the terms in `P` by `d`, the others
\* not at all.
LEMMA SumPart ==
    ASSUME NEW S, IsFiniteSet(S), NEW P, P \subseteq S, NEW f, NEW g, NEW d,
           \A x \in S : f[x] \in Int, \A x \in P : d[x] \in Int,
           \A x \in P : g[x] = f[x] + d[x], \A x \in S \ P : g[x] = f[x]
    PROVE  SumFunctionOnSet(g, S) = SumFunctionOnSet(f, S) + SumFunctionOnSet(d, P)
  <1> DEFINE Grown(T) == SumFunctionOnSet(g, T)
                           = SumFunctionOnSet(f, T) + SumFunctionOnSet(d, T \cap P)
             F == {T \in SUBSET S : ~Grown(T)}
  <1>s. SUFFICES ASSUME F # {} PROVE FALSE
    <2>1. S \cap P = P
      OBVIOUS
    <2> QED BY <2>1
  <1>0. F \subseteq SUBSET S
    OBVIOUS
  <1>1. PICK T \in F : \A U \in F : U \subseteq T => U = T
    <2> HIDE DEF F
    <2> QED BY <1>0, <1>s, LeastSubset
  <1>2. IsFiniteSet(T) /\ T \subseteq S /\ ~Grown(T)
    BY FS_Subset
  <1>3. Grown({})
    <2>1. {} \cap P = {}
      OBVIOUS
    <2> QED BY <2>1, SumEmpty
  <1>4. PICK x \in T : TRUE
    BY <1>2, <1>3
  <1> DEFINE U == T \ {x}
  <1>5. U \notin F
    BY <1>1, <1>4
  <1>6. Grown(U)
    BY <1>2, <1>5
  <1>7. /\ IsFiniteSet(U) /\ IsFiniteSet(T \cap P) /\ IsFiniteSet(U \cap P)
        /\ U \subseteq S /\ U \cap P \subseteq P
    BY <1>2, FS_Subset
  <1>8. \A y \in S : g[y] \in Int /\ f[y] \in Int
    OBVIOUS
  <1>9. /\ SumFunctionOnSet(f, T) = f[x] + SumFunctionOnSet(f, U)
        /\ SumFunctionOnSet(g, T) = g[x] + SumFunctionOnSet(g, U)
    BY <1>2, <1>8, SumRemove
  <1>10. SumFunctionOnSet(f, U) \in Int /\ SumFunctionOnSet(g, U) \in Int
    <2> HIDE DEF U
    <2> QED BY <1>7, <1>8, SumInt
  <1>11. SumFunctionOnSet(d, U \cap P) \in Int
    <2> DEFINE V == U \cap P
    <2>1. IsFiniteSet(V) /\ \A y \in V : d[y] \in Int
      BY <1>7
    <2> HIDE DEF V
    <2>2. SumFunctionOnSet(d, V) \in Int
      BY <2>1, SumInt
    <2> QED BY <2>2 DEF V
  <1>12. CASE x \in P
    <2> DEFINE V == T \cap P
    <2>1. V \ {x} = U \cap P
      OBVIOUS
    <2>2. IsFiniteSet(V) /\ x \in V /\ \A y \in V : d[y] \in Int
      BY <1>7, <1>12
    <2> HIDE DEF V
    <2>3. SumFunctionOnSet(d, V) = d[x] + SumFunctionOnSet(d, V \ {x})
      BY <2>2, SumRemove
    <2>4. SumFunctionOnSet(d, T \cap P) = d[x] + SumFunctionOnSet(d, U \cap P)
      BY <2>1, <2>3 DEF V
    <2>5. x \in S /\ g[x] = f[x] + d[x] /\ f[x] \in Int /\ d[x] \in Int
      BY <1>2, <1>12
    <2> HIDE DEF U
    <2> QED BY <1>2, <1>6, <1>9, <1>10, <1>11, <2>4, <2>5
  <1>13. CASE x \notin P
    <2>1. T \cap P = U \cap P
      BY <1>13
    <2>2. x \in S /\ g[x] = f[x] /\ f[x] \in Int
      BY <1>2, <1>13
    <2>3. SumFunctionOnSet(d, T \cap P) = SumFunctionOnSet(d, U \cap P)
      BY <2>1
    <2>4. Grown(T) <=> SumFunctionOnSet(g, T)
                          = SumFunctionOnSet(f, T) + SumFunctionOnSet(d, U \cap P)
      BY <2>3
    <2> HIDE DEF U
    <2> QED BY <1>2, <1>6, <1>9, <1>10, <1>11, <2>2, <2>4
  <1> QED BY <1>12, <1>13

\* Equal terms, equal sums.
LEMMA SumSame ==
    ASSUME NEW S, IsFiniteSet(S), NEW f, NEW g, \A x \in S : f[x] \in Int,
           \A x \in S : g[x] = f[x]
    PROVE  SumFunctionOnSet(g, S) = SumFunctionOnSet(f, S)
  <1>1. SumFunctionOnSet(g, S) = SumFunctionOnSet(f, S) + SumFunctionOnSet(f, {})
    BY SumPart
  <1> QED BY <1>1, SumEmpty, SumInt

\* One term changes.
LEMMA SumOne ==
    ASSUME NEW S, IsFiniteSet(S), NEW f, NEW g, NEW a \in S, NEW n \in Int,
           \A x \in S : f[x] \in Int, g[a] = f[a] + n,
           \A x \in S \ {a} : g[x] = f[x]
    PROVE  SumFunctionOnSet(g, S) = SumFunctionOnSet(f, S) + n
  <1> DEFINE R == S \ {a}
  <1>1. IsFiniteSet(R) /\ \A x \in R : g[x] = f[x] /\ f[x] \in Int
    BY FS_RemoveElement
  <1>2. SumFunctionOnSet(g, R) = SumFunctionOnSet(f, R) /\ SumFunctionOnSet(f, R) \in Int
    <2> HIDE DEF R
    <2> QED BY <1>1, SumSame, SumInt
  <1>3. \A x \in S : g[x] \in Int
    OBVIOUS
  <1>4. /\ SumFunctionOnSet(g, S) = g[a] + SumFunctionOnSet(g, R)
        /\ SumFunctionOnSet(f, S) = f[a] + SumFunctionOnSet(f, R)
    BY <1>3, SumRemove
  <1> HIDE DEF R
  <1> QED BY <1>2, <1>4

\* The same number for every member.
LEMMA SumConstant ==
    ASSUME NEW S, IsFiniteSet(S), NEW f, NEW n \in Int, \A x \in S : f[x] = n
    PROVE  SumFunctionOnSet(f, S) = Cardinality(S) * n
  <1> DEFINE F == {T \in SUBSET S : SumFunctionOnSet(f, T) # Cardinality(T) * n}
  <1> SUFFICES ASSUME F # {} PROVE FALSE
    OBVIOUS
  <1>0. F \subseteq SUBSET S
    OBVIOUS
  <1>1. PICK T \in F : \A U \in F : U \subseteq T => U = T
    <2> HIDE DEF F
    <2> QED BY <1>0, LeastSubset
  <1>2. IsFiniteSet(T) /\ T \subseteq S /\ SumFunctionOnSet(f, T) # Cardinality(T) * n
    BY FS_Subset
  <1>3. T # {}
    <2>1. 0 * n = 0
      OBVIOUS
    <2> QED BY <1>2, <2>1, SumEmpty, FS_EmptySet
  <1>4. PICK x \in T : TRUE
    BY <1>3
  <1>5. T \ {x} \notin F
    BY <1>1, <1>4
  <1>6. SumFunctionOnSet(f, T \ {x}) = Cardinality(T \ {x}) * n
    BY <1>2, <1>5
  <1>7. SumFunctionOnSet(f, T) = n + SumFunctionOnSet(f, T \ {x})
    <2>1. \A y \in T : f[y] \in Int /\ f[y] = n
      BY <1>2
    <2> QED BY <1>2, <2>1, SumRemove
  <1>8. /\ Cardinality(T \ {x}) = Cardinality(T) - 1
        /\ Cardinality(T) \in Nat
    BY <1>2, FS_RemoveElement, FS_CardinalityType
  <1>9. n + (Cardinality(T) - 1) * n = Cardinality(T) * n
    BY <1>8
  <1> QED BY <1>2, <1>6, <1>7, <1>8, <1>9

\* Nothing for every member.
LEMMA SumZero ==
    ASSUME NEW S, IsFiniteSet(S), NEW f, \A x \in S : f[x] = 0
    PROVE  SumFunctionOnSet(f, S) = 0
  <1> DEFINE n == SumFunctionOnSet(f, S)
  <1>1. \A x \in S : f[x] = f[x] + f[x] /\ f[x] \in Int
    OBVIOUS
  <1>2. n = n + n
    BY <1>1, SumPart
  <1>3. n \in Int
    BY <1>1, SumInt
  <1> HIDE DEF n
  <1>4. n = 0
    BY ONLY <1>2, <1>3
  <1> QED BY <1>4 DEF n

\* No term is more than the sum of naturals.
LEMMA SumBound ==
    ASSUME NEW S, IsFiniteSet(S), NEW f, \A x \in S : f[x] \in Nat, NEW a \in S
    PROVE  f[a] <= SumFunctionOnSet(f, S)
  <1> DEFINE R == S \ {a}
  <1>1. IsFiniteSet(R) /\ \A x \in R : f[x] \in Nat
    BY FS_RemoveElement
  <1>2. SumFunctionOnSet(f, R) \in Nat
    <2> HIDE DEF R
    <2> QED BY <1>1, SumNat
  <1>3. SumFunctionOnSet(f, S) = f[a] + SumFunctionOnSet(f, R)
    BY SumRemove
  <1> HIDE DEF R
  <1> QED BY <1>2, <1>3

\* One more element.
LEMMA SumInsert ==
    ASSUME NEW S, IsFiniteSet(S), NEW f, NEW a, a \notin S,
           \A x \in S : f[x] \in Int, f[a] \in Int
    PROVE  SumFunctionOnSet(f, S \cup {a}) = SumFunctionOnSet(f, S) + f[a]
  <1> DEFINE T == S \cup {a}
  <1>1. IsFiniteSet(T) /\ T \ {a} = S /\ a \in T /\ \A x \in T : f[x] \in Int
    BY FS_AddElement
  <1> HIDE DEF T
  <1>2. SumFunctionOnSet(f, T) = f[a] + SumFunctionOnSet(f, T \ {a})
    BY <1>1, SumRemove
  <1>3. SumFunctionOnSet(f, S) \in Int
    BY SumInt
  <1> DEFINE n == SumFunctionOnSet(f, S)
  <1>4. SumFunctionOnSet(f, T) = f[a] + n
    BY <1>1, <1>2
  <1> HIDE DEF n
  <1>5. SumFunctionOnSet(f, T) = n + f[a]
    BY <1>3, <1>4 DEF n
  <1> QED BY <1>5 DEF T, n

\* Terms that are no greater, a sum that is no greater.
LEMMA SumAtMost ==
    ASSUME NEW S, IsFiniteSet(S), NEW f, NEW g,
           \A x \in S : f[x] \in Int /\ g[x] \in Int /\ f[x] <= g[x]
    PROVE  SumFunctionOnSet(f, S) <= SumFunctionOnSet(g, S)
  <1> DEFINE d == [x \in S |-> g[x] - f[x]]
  <1>1. \A x \in S : d[x] \in Nat /\ d[x] \in Int /\ g[x] = f[x] + d[x]
    OBVIOUS
  <1> HIDE DEF d
  <1>2. SumFunctionOnSet(g, S) = SumFunctionOnSet(f, S) + SumFunctionOnSet(d, S)
    BY <1>1, SumPart
  <1>3. SumFunctionOnSet(d, S) \in Nat /\ SumFunctionOnSet(f, S) \in Int
    BY <1>1, SumNat, SumInt
  <1> QED BY <1>2, <1>3

\* A common factor.
LEMMA SumTimes ==
    ASSUME NEW S, IsFiniteSet(S), NEW f, NEW g, NEW n \in Int,
           \A x \in S : f[x] \in Int /\ g[x] = n * f[x]
    PROVE  SumFunctionOnSet(g, S) = n * SumFunctionOnSet(f, S)
  <1> DEFINE F == {T \in SUBSET S : SumFunctionOnSet(g, T) # n * SumFunctionOnSet(f, T)}
  <1> SUFFICES ASSUME F # {} PROVE FALSE
    OBVIOUS
  <1>0. F \subseteq SUBSET S
    OBVIOUS
  <1>1. PICK T \in F : \A U \in F : U \subseteq T => U = T
    <2> HIDE DEF F
    <2> QED BY <1>0, LeastSubset
  <1>2. /\ IsFiniteSet(T) /\ T \subseteq S
        /\ SumFunctionOnSet(g, T) # n * SumFunctionOnSet(f, T)
    BY FS_Subset
  <1>3. T # {}
    <2>1. n * 0 = 0
      OBVIOUS
    <2> QED BY <1>2, <2>1, SumEmpty
  <1>4. PICK x \in T : TRUE
    BY <1>3
  <1> DEFINE U == T \ {x}
  <1>5. U \notin F /\ U \subseteq S /\ IsFiniteSet(U)
    BY <1>1, <1>2, <1>4, FS_RemoveElement
  <1>6. SumFunctionOnSet(g, U) = n * SumFunctionOnSet(f, U)
    BY <1>5
  <1>7. \A y \in S : f[y] \in Int /\ g[y] \in Int
    OBVIOUS
  <1>8. /\ SumFunctionOnSet(f, T) = f[x] + SumFunctionOnSet(f, U)
        /\ SumFunctionOnSet(g, T) = g[x] + SumFunctionOnSet(g, U)
    BY <1>2, <1>7, SumRemove
  <1>9. SumFunctionOnSet(f, U) \in Int
    <2> HIDE DEF U
    <2> QED BY <1>5, <1>7, SumInt
  <1>10. x \in S /\ f[x] \in Int /\ g[x] = n * f[x]
    BY <1>2
  <1> DEFINE su == SumFunctionOnSet(f, U)
  <1>11. n * (f[x] + su) = n * f[x] + n * su
    BY <1>9, <1>10
  <1> HIDE DEF U, F
  <1> QED BY <1>2, <1>6, <1>8, <1>10, <1>11
=============================================================================
