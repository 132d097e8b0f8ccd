----------------------------- MODULE SumTheorems -----------------------------
(***************************************************************************)
(* Sums over finite sets, as the community modules define them:            *)
(* MapThenSumSet folds the set in the order in which CHOOSE picks its      *)
(* elements.  The lemmas give the sum of a set and one element more or     *)
(* less, so that a proof about a total need not look at the fold.          *)
(*                                                                         *)
(* The engine adds to its counters one call at a time; the properties of   *)
(* SimEngine compare those counters with sums over the log.                *)
(***************************************************************************)
EXTENDS Integers, FiniteSetsExt, FiniteSetTheorems, WellFoundedInduction, TLAPS

\* The sum of f over S.
SumOver(f, S) == MapThenSumSet(LAMBDA x : f[x], S)

\* The element that is taken next, and a function that gives the sum of every
\* subset of S, taking elements in that order.
Pick(s) == CHOOSE x \in s : TRUE

IsSum(g, f, S) ==
  g = [s \in SUBSET S |-> IF s = {} THEN 0 ELSE f[Pick(s)] + g[s \ {Pick(s)}]]

SumFn(f, S) == CHOOSE g : IsSum(g, f, S)

\* The community operator is the CHOOSE of a function that satisfies IsSum.
LEMMA SumIsChosen ==
  ASSUME NEW f, NEW S
  PROVE  SumOver(f, S) = SumFn(f, S)[S]
BY DEF SumOver, SumFn, IsSum, Pick, MapThenSumSet, MapThenFoldSet

\* A nonempty set of subsets of a finite set has a minimal member, which is how
\* an induction over finite sets is written here.
LEMMA MinimalSubset ==
  ASSUME NEW S, IsFiniteSet(S), NEW U \in SUBSET SUBSET S, U # {}
  PROVE  \E T \in U : \A V \in U : ~(V \subseteq T /\ V # T)
<1>1. PICK T \in U : \A V \in U : ~(<<V, T>> \in StrictSubsetOrdering(S))
  BY WFMin, FS_StrictSubsetOrderingWellFounded, FS_FiniteSubsetsOfFinite
<1> QED BY <1>1 DEF StrictSubsetOrdering

\* Functions that satisfy IsSum for two sets agree on what both know.
LEMMA SumsAgree ==
  ASSUME NEW f, NEW A, IsFiniteSet(A), NEW B \in SUBSET A, NEW g, NEW h,
         IsSum(g, f, A), IsSum(h, f, B)
  PROVE  \A C \in SUBSET B : g[C] = h[C]
<1> DEFINE Bad == {C \in SUBSET B : g[C] # h[C]}
<1> SUFFICES ASSUME Bad # {} PROVE FALSE
  OBVIOUS
<1>1. IsFiniteSet(B)
  BY FS_Subset
<1>2. PICK T \in Bad : \A V \in Bad : ~(V \subseteq T /\ V # T)
  <2>1. Bad \in SUBSET SUBSET B
    OBVIOUS
  <2> HIDE DEF Bad
  <2> QED BY <1>1, <2>1, MinimalSubset
<1>3. CASE T = {}
  BY <1>2, <1>3 DEF IsSum
<1>4. CASE T # {}
  <2> DEFINE p == Pick(T)
  <2>1. p \in T
    BY <1>4 DEF Pick
  <2>2. g[T] = f[p] + g[T \ {p}]
    BY <1>4 DEF IsSum
  <2>3. h[T] = f[p] + h[T \ {p}]
    BY <1>4 DEF IsSum
  <2>4. g[T \ {p}] = h[T \ {p}]
    BY <1>2, <2>1
  <2> QED BY <2>2, <2>3, <2>4
<1> QED BY <1>3, <1>4

\* There is such a function for every finite set.
LEMMA SumExists ==
  ASSUME NEW f, NEW S, IsFiniteSet(S)
  PROVE  IsSum(SumFn(f, S), f, S)
<1> DEFINE Bad == {T \in SUBSET S : ~\E g : IsSum(g, f, T)}
<1>1. Bad = {}
  <2> SUFFICES ASSUME Bad # {} PROVE FALSE
    OBVIOUS
  <2>1. PICK T \in Bad : \A V \in Bad : ~(V \subseteq T /\ V # T)
    <3>1. Bad \in SUBSET SUBSET S
      OBVIOUS
    <3> HIDE DEF Bad
    <3> QED BY <3>1, MinimalSubset
  <2> DEFINE val(s) == SumFn(f, s)[s]
             p == Pick(T)
             h == [s \in SUBSET T |-> IF s = {} THEN 0
                     ELSE IF s = T THEN f[p] + val(T \ {p}) ELSE val(s)]
  <2>2. ASSUME NEW s \in SUBSET T, s # T
        PROVE  IsSum(SumFn(f, s), f, s)
    <3>1. \E g : IsSum(g, f, s)
      BY <2>1, <2>2
    <3> QED BY <3>1 DEF SumFn
  <2>3. ASSUME NEW s \in SUBSET T, s # {}
        PROVE  Pick(s) \in s
    BY <2>3 DEF Pick
  <2>4. ASSUME NEW s \in SUBSET T, s # T, s # {}
        PROVE  val(s) = f[Pick(s)] + val(s \ {Pick(s)})
    <3> DEFINE q == Pick(s)
               r == s \ {q}
    <3>1. q \in s /\ r \in SUBSET T /\ r # T /\ r \in SUBSET s
      BY <2>3, <2>4
    <3>2. IsSum(SumFn(f, s), f, s) /\ IsSum(SumFn(f, r), f, r)
      BY <2>2, <2>4, <3>1
    <3>3. IsFiniteSet(s)
      BY FS_Subset
    <3>4. SumFn(f, s)[r] = SumFn(f, r)[r]
      <4>1. r \in SUBSET r OBVIOUS
      <4> HIDE DEF r
      <4> QED BY <3>1, <3>2, <3>3, <4>1, SumsAgree
    <3>5. SumFn(f, s)[s] = f[q] + SumFn(f, s)[r]
      <4> DEFINE G == SumFn(f, s)
      <4>1. IsSum(G, f, s) BY <3>2
      <4> HIDE DEF G
      <4>2. G[s] = f[q] + G[r] BY <4>1, <2>4 DEF IsSum
      <4> QED BY <4>2 DEF G
    <3> QED BY <3>4, <3>5
  <2>5. ASSUME T = {} PROVE IsSum(h, f, T)
    BY <2>5 DEF IsSum
  <2>6. ASSUME T # {} PROVE IsSum(h, f, T)
    <3>1. p \in T /\ T \ {p} \in SUBSET T /\ T \ {p} # T
      BY <2>3, <2>6
    <3>2. ASSUME NEW s \in SUBSET T
          PROVE  h[s] = IF s = {} THEN 0 ELSE f[Pick(s)] + h[s \ {Pick(s)}]
      <4>1. ASSUME s = {} PROVE h[s] = 0
        BY <4>1
      <4>2. ASSUME s # {} PROVE h[s] = f[Pick(s)] + h[s \ {Pick(s)}]
        <5>1. Pick(s) \in s BY <2>3, <4>2
        <5>2. h[s \ {Pick(s)}] = val(s \ {Pick(s)})
          <6>1. s \ {Pick(s)} \in SUBSET T /\ s \ {Pick(s)} # T
            BY <5>1
          <6>2. s \ {Pick(s)} = {} => val(s \ {Pick(s)}) = 0
            <7>1. IsSum(SumFn(f, {}), f, {}) BY <2>2, <2>6
            <7> DEFINE G == SumFn(f, {})
            <7>2. IsSum(G, f, {}) BY <7>1
            <7> HIDE DEF G
            <7>3. G[{}] = 0 BY <7>2 DEF IsSum
            <7> QED BY <7>3 DEF G
          <6> HIDE DEF val
          <6> QED BY <6>1, <6>2
        <5>3. h[s] = f[Pick(s)] + val(s \ {Pick(s)})
          <6>1. CASE s = T BY <6>1, <4>2
          <6>2. CASE s # T
            <7>1. h[s] = val(s) BY <6>2, <4>2
            <7> QED BY <7>1, <6>2, <4>2, <2>4
          <6> QED BY <6>1, <6>2
        <5> QED BY <5>2, <5>3
      <4> QED BY <4>1, <4>2
    <3>3. h = [s \in SUBSET T |-> h[s]]
      OBVIOUS
    <3> HIDE DEF h
    <3> QED BY <3>2, <3>3 DEF IsSum
  <2> QED BY <2>1, <2>5, <2>6
<1>2. \E g : IsSum(g, f, S)
  BY <1>1
<1> QED BY <1>2 DEF SumFn

\* The empty sum is 0.
LEMMA SumEmpty == ASSUME NEW f PROVE SumOver(f, {}) = 0
<1> DEFINE G == SumFn(f, {})
<1>1. IsSum(G, f, {})
  BY SumExists, FS_EmptySet
<1>2. SumOver(f, {}) = G[{}]
  BY SumIsChosen
<1> HIDE DEF G
<1>3. G[{}] = 0
  BY <1>1 DEF IsSum
<1> QED BY <1>2, <1>3

\* The sum splits at the element that the definition picks.
LEMMA SumOfPick ==
  ASSUME NEW f, NEW S, IsFiniteSet(S), S # {}
  PROVE  /\ Pick(S) \in S
         /\ SumOver(f, S) = f[Pick(S)] + SumOver(f, S \ {Pick(S)})
<1> DEFINE q == Pick(S)
           R == S \ {q}
           G == SumFn(f, S)
           H == SumFn(f, R)
<1>1. q \in S
  BY DEF Pick
<1>2. IsFiniteSet(R) /\ R \in SUBSET S /\ R \in SUBSET R
  BY FS_RemoveElement
<1>3. IsSum(G, f, S) /\ IsSum(H, f, R)
  BY <1>2, SumExists
<1>4. SumOver(f, S) = G[S] /\ SumOver(f, R) = H[R]
  BY SumIsChosen
<1>5. G[S] = f[q] + G[R]
  <2> HIDE DEF G
  <2> QED BY <1>3 DEF IsSum
<1>6. G[R] = H[R]
  <2> HIDE DEF G, H, R
  <2> QED BY <1>2, <1>3, SumsAgree
<1> HIDE DEF G, H
<1> QED BY <1>1, <1>4, <1>5, <1>6

\* A sum of naturals is a natural.
LEMMA SumType ==
  ASSUME NEW f, NEW S, IsFiniteSet(S), \A x \in S : f[x] \in Nat
  PROVE  SumOver(f, S) \in Nat
<1> DEFINE Bad == {T \in SUBSET S : SumOver(f, T) \notin Nat}
<1> SUFFICES ASSUME Bad # {} PROVE FALSE
  OBVIOUS
<1>1. PICK T \in Bad : \A V \in Bad : ~(V \subseteq T /\ V # T)
  <2>1. Bad \in SUBSET SUBSET S
    OBVIOUS
  <2> HIDE DEF Bad
  <2> QED BY <2>1, MinimalSubset
<1>2. CASE T = {}
  BY <1>2, SumEmpty
<1>3. CASE T # {}
  <2> DEFINE R == T \ {Pick(T)}
  <2>1. IsFiniteSet(T)
    BY FS_Subset
  <2>2. Pick(T) \in T /\ SumOver(f, T) = f[Pick(T)] + SumOver(f, R)
    BY <1>3, <2>1, SumOfPick
  <2>3. SumOver(f, R) \in Nat
    BY <1>1, <2>2
  <2> QED BY <2>2, <2>3
<1> QED BY <1>2, <1>3

\* The sum splits at any element: the order in which elements are picked is
\* immaterial.
LEMMA SumRemove ==
  ASSUME NEW f, NEW S, IsFiniteSet(S), \A x \in S : f[x] \in Nat, NEW e \in S
  PROVE  SumOver(f, S) = f[e] + SumOver(f, S \ {e})
<1> DEFINE Bad == {T \in SUBSET S : \E x \in T : SumOver(f, T) # f[x] + SumOver(f, T \ {x})}
<1> SUFFICES ASSUME Bad # {} PROVE FALSE
  OBVIOUS
<1>1. PICK T \in Bad : \A V \in Bad : ~(V \subseteq T /\ V # T)
  <2>1. Bad \in SUBSET SUBSET S
    OBVIOUS
  <2> HIDE DEF Bad
  <2> QED BY <2>1, MinimalSubset
<1>2. PICK x \in T : SumOver(f, T) # f[x] + SumOver(f, T \ {x})
  OBVIOUS
<1> DEFINE p == Pick(T)
           R == (T \ {p}) \ {x}
<1>3. IsFiniteSet(T)
  BY FS_Subset
<1>4. p \in T /\ SumOver(f, T) = f[p] + SumOver(f, T \ {p})
  BY <1>2, <1>3, SumOfPick
<1>5. x # p
  BY <1>2, <1>4
<1>6. SumOver(f, T \ {p}) = f[x] + SumOver(f, R)
  <2>1. T \ {p} \in SUBSET S /\ T \ {p} \notin Bad /\ x \in T \ {p}
    BY <1>1, <1>2, <1>4, <1>5
  <2> QED BY <2>1
<1>7. SumOver(f, T \ {x}) = f[p] + SumOver(f, R)
  <2>1. T \ {x} \in SUBSET S /\ T \ {x} \notin Bad /\ p \in T \ {x}
    BY <1>1, <1>2, <1>4, <1>5
  <2>2. (T \ {x}) \ {p} = R
    OBVIOUS
  <2> QED BY <2>1, <2>2
<1>8. SumOver(f, R) \in Nat
  <2>1. IsFiniteSet(R) /\ \A y \in R : f[y] \in Nat
    BY <1>3, FS_RemoveElement
  <2> HIDE DEF R
  <2> QED BY <2>1, SumType
<1>9. f[x] \in Nat /\ f[p] \in Nat
  BY <1>2, <1>4
<1> QED BY <1>2, <1>4, <1>6, <1>7, <1>8, <1>9

\* A new element adds its value.
LEMMA SumAdd ==
  ASSUME NEW f, NEW S, IsFiniteSet(S), \A x \in S : f[x] \in Nat,
         NEW e, e \notin S, f[e] \in Nat
  PROVE  SumOver(f, S \cup {e}) = SumOver(f, S) + f[e]
<1> DEFINE R == S \cup {e}
<1>1. IsFiniteSet(R) /\ e \in R /\ R \ {e} = S /\ \A x \in R : f[x] \in Nat
  BY FS_AddElement
<1>2. SumOver(f, S) \in Nat
  BY SumType
<1>3. SumOver(f, R) = f[e] + SumOver(f, R \ {e})
  <2> HIDE DEF R
  <2> QED BY <1>1, SumRemove
<1> QED BY <1>1, <1>2, <1>3

\* The sum depends on the values on the set only.
LEMMA SumSame ==
  ASSUME NEW f, NEW g, NEW S, IsFiniteSet(S), \A x \in S : f[x] = g[x]
  PROVE  SumOver(f, S) = SumOver(g, S)
<1> DEFINE Bad == {T \in SUBSET S : SumOver(f, T) # SumOver(g, T)}
<1> SUFFICES ASSUME Bad # {} PROVE FALSE
  OBVIOUS
<1>1. PICK T \in Bad : \A V \in Bad : ~(V \subseteq T /\ V # T)
  <2>1. Bad \in SUBSET SUBSET S
    OBVIOUS
  <2> HIDE DEF Bad
  <2> QED BY <2>1, MinimalSubset
<1>2. CASE T = {}
  BY <1>2, SumEmpty
<1>3. CASE T # {}
  <2> DEFINE R == T \ {Pick(T)}
  <2>1. IsFiniteSet(T)
    BY FS_Subset
  <2>2. Pick(T) \in T /\ SumOver(f, T) = f[Pick(T)] + SumOver(f, R)
                      /\ SumOver(g, T) = g[Pick(T)] + SumOver(g, R)
    BY <1>3, <2>1, SumOfPick
  <2>3. SumOver(f, R) = SumOver(g, R)
    BY <1>1, <2>2
  <2> QED BY <2>2, <2>3
<1> QED BY <1>2, <1>3

\* A sum of ones counts the set.
LEMMA SumOfOnes ==
  ASSUME NEW f, NEW S, IsFiniteSet(S), \A x \in S : f[x] = 1
  PROVE  SumOver(f, S) = Cardinality(S)
<1> DEFINE Bad == {T \in SUBSET S : SumOver(f, T) # Cardinality(T)}
<1> SUFFICES ASSUME Bad # {} PROVE FALSE
  OBVIOUS
<1>1. PICK T \in Bad : \A V \in Bad : ~(V \subseteq T /\ V # T)
  <2>1. Bad \in SUBSET SUBSET S
    OBVIOUS
  <2> HIDE DEF Bad
  <2> QED BY <2>1, MinimalSubset
<1>2. CASE T = {}
  BY <1>2, SumEmpty, FS_EmptySet
<1>3. CASE T # {}
  <2> DEFINE R == T \ {Pick(T)}
  <2>1. IsFiniteSet(T)
    BY FS_Subset
  <2>2. Pick(T) \in T /\ SumOver(f, T) = f[Pick(T)] + SumOver(f, R)
    BY <1>3, <2>1, SumOfPick
  <2>3. SumOver(f, R) = Cardinality(R)
    BY <1>1, <2>2
  <2>4. Cardinality(R) = Cardinality(T) - 1 /\ Cardinality(T) \in Nat
    BY <2>1, <2>2, FS_RemoveElement, FS_CardinalityType
  <2> QED BY <2>2, <2>3, <2>4
<1> QED BY <1>2, <1>3
====
