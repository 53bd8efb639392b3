------------------------------ MODULE SetSums ------------------------------
(***************************************************************************)
(* Facts about MapThenSumSet over finite sets.  The sum is defined by a    *)
(* recursive function that removes the elements in an arbitrary order; the *)
(* lemmas say that this function exists and that the order is irrelevant.  *)
(*                                                                         *)
(* The inductions go over a set of good subsets instead of a predicate:    *)
(* strict inclusion is well founded on finite sets, so a set of subsets    *)
(* with a bad member has a minimal one.                                    *)
(***************************************************************************)
EXTENDS Integers, FiniteSetsExt, FiniteSetTheorems, TLAPS

Sum(f, S) == MapThenSumSet(LAMBDA x : f[x], S)

Pick(s) == CHOOSE x \in s : TRUE

\* g sums f up over the subsets of D.
Sums(g, f, D) ==
    g = [s \in SUBSET D |-> IF s = {} THEN 0 ELSE f[Pick(s)] + g[s \ {Pick(s)}]]

\* A set of subsets of D that has the empty set and is closed under adding an element
\* has D itself.
LEMMA SubsetInduction ==
    ASSUME NEW D, IsFiniteSet(D), NEW Good, {} \in Good,
           \A s \in SUBSET D : \A x \in D \ s : s \in Good => s \cup {x} \in Good
    PROVE  D \in Good
<1> SUFFICES ASSUME D \notin Good PROVE FALSE
  OBVIOUS
<1> DEFINE Bad == {s \in SUBSET D : s \notin Good}
<1>1. IsWellFoundedOn(StrictSubsetOrdering(D), FiniteSubsetsOf(D))
  BY FS_StrictSubsetOrderingWellFounded
<1>2. Bad \subseteq FiniteSubsetsOf(D) /\ Bad # {}
  BY FS_FiniteSubsetsOfFinite
<1> HIDE DEF Bad
<1>3. PICK s \in Bad : \A t \in Bad : <<t, s>> \notin StrictSubsetOrdering(D)
  BY <1>1, <1>2, WFMin
<1> USE DEF Bad
<1>4. PICK x \in s : TRUE
  OBVIOUS
<1>5. <<s \ {x}, s>> \in StrictSubsetOrdering(D)
  BY <1>4 DEF StrictSubsetOrdering
<1>6. s \ {x} \in Good
  BY <1>3, <1>5
<1>7. (s \ {x}) \cup {x} = s /\ x \in D \ (s \ {x}) /\ s \ {x} \in SUBSET D
  BY <1>4
<1>. QED
  BY <1>6, <1>7

\* The same, for a set of subsets that has every subset all of whose strict subsets it has.
LEMMA StrictSubsetInduction ==
    ASSUME NEW D, IsFiniteSet(D), NEW Good,
           \A s \in SUBSET D : (\A t \in SUBSET s : t # s => t \in Good) => s \in Good
    PROVE  SUBSET D \subseteq Good
<1> SUFFICES ASSUME ~(SUBSET D \subseteq Good) PROVE FALSE
  OBVIOUS
<1> DEFINE Bad == {s \in SUBSET D : s \notin Good}
<1>1. IsWellFoundedOn(StrictSubsetOrdering(D), FiniteSubsetsOf(D))
  BY FS_StrictSubsetOrderingWellFounded
<1>2. Bad \subseteq FiniteSubsetsOf(D) /\ Bad # {}
  BY FS_FiniteSubsetsOfFinite
<1> HIDE DEF Bad
<1>3. PICK s \in Bad : \A t \in Bad : <<t, s>> \notin StrictSubsetOrdering(D)
  BY <1>1, <1>2, WFMin
<1> USE DEF Bad
<1>4. ASSUME NEW t \in SUBSET s, t # s PROVE t \in Good
  <2>1. <<t, s>> \in StrictSubsetOrdering(D)
    BY <1>4 DEF StrictSubsetOrdering
  <2>. QED
    BY <1>3, <2>1
<1>. QED
  BY <1>4

\* Two such functions agree where both are defined.
LEMMA SumsUnique ==
    ASSUME NEW f, NEW D, IsFiniteSet(D), NEW E, NEW g, NEW h,
           Sums(g, f, D), Sums(h, f, E)
    PROVE  \A s \in SUBSET D : s \subseteq E => g[s] = h[s]
<1> DEFINE Good == {s \in SUBSET D : s \subseteq E => g[s] = h[s]}
<1>1. ASSUME NEW s \in SUBSET D, \A t \in SUBSET s : t # s => t \in Good
      PROVE  s \in Good
  <2>1. CASE s = {}
    BY <2>1 DEF Sums
  <2>2. CASE s # {}
    <3>1. Pick(s) \in s
      BY <2>2 DEF Pick
    <3>2. s \ {Pick(s)} \in Good
      BY <1>1, <3>1
    <3>3. g[s] = f[Pick(s)] + g[s \ {Pick(s)}]
      BY <2>2 DEF Sums
    <3>4. s \subseteq E => h[s] = f[Pick(s)] + h[s \ {Pick(s)}]
      BY <2>2 DEF Sums
    <3>. QED
      BY <3>2, <3>3, <3>4
  <2>. QED
    BY <2>1, <2>2
<1> HIDE DEF Good
<1>2. SUBSET D \subseteq Good
  BY <1>1, StrictSubsetInduction
<1>. QED
  BY <1>2 DEF Good

\* There is one for every finite set: put together from those of its strict subsets.
LEMMA SumsExists ==
    ASSUME NEW f, NEW D, IsFiniteSet(D)
    PROVE  \E g : Sums(g, f, D)
<1> DEFINE Good == {s \in SUBSET D : \E g : Sums(g, f, s)}
           G(s) == CHOOSE g : Sums(g, f, s)
<1>1. ASSUME NEW s \in SUBSET D, \A t \in SUBSET s : t # s => t \in Good
      PROVE  s \in Good
  <2> DEFINE h == [t \in SUBSET s |->
                     IF t = {} THEN 0 ELSE f[Pick(t)] + G(t \ {Pick(t)})[t \ {Pick(t)}]]
  <2>1. ASSUME NEW t \in SUBSET s, t # s PROVE Sums(G(t), f, t)
    BY <1>1, <2>1
  <2> HIDE DEF G
  <2>2. ASSUME NEW t \in SUBSET s, t # s PROVE h[t] = G(t)[t]
    <3>1. CASE t = {}
      BY <2>1, <2>2, <3>1 DEF Sums
    <3>2. CASE t # {}
      <4> DEFINE u == t \ {Pick(t)}
      <4>1. Pick(t) \in t
        BY <3>2 DEF Pick
      <4>2. u \in SUBSET s /\ u # s /\ u \in SUBSET u /\ u \subseteq t
        BY <4>1
      <4>3. Sums(G(u), f, u) /\ Sums(G(t), f, t)
        BY <2>1, <2>2, <4>2
      <4>4. IsFiniteSet(u)
        BY <4>2, FS_Subset
      <4>5. G(u)[u] = G(t)[u]
        BY <4>2, <4>3, <4>4, SumsUnique
      <4>6. G(t)[t] = f[Pick(t)] + G(t)[u]
        BY <3>2, <4>3 DEF Sums
      <4>7. h[t] = f[Pick(t)] + G(u)[u]
        BY <3>2
      <4>. QED
        BY <4>5, <4>6, <4>7
    <3>. QED
      BY <3>1, <3>2
  <2>3. ASSUME NEW t \in SUBSET s, t # {}
        PROVE  h[t] = f[Pick(t)] + h[t \ {Pick(t)}]
    <3>1. Pick(t) \in t
      BY <2>3 DEF Pick
    <3>2. t \ {Pick(t)} \in SUBSET s /\ t \ {Pick(t)} # s
      BY <3>1
    <3>3. h[t \ {Pick(t)}] = G(t \ {Pick(t)})[t \ {Pick(t)}]
      BY <2>2, <3>2
    <3>. QED
      BY <2>3, <3>3
  <2>4. h[{}] = 0
    OBVIOUS
  <2>5. h = [t \in SUBSET s |-> h[t]]
    OBVIOUS
  <2> HIDE DEF h
  <2>6. \A t \in SUBSET s : h[t] = IF t = {} THEN 0 ELSE f[Pick(t)] + h[t \ {Pick(t)}]
    BY <2>3, <2>4
  <2>7. Sums(h, f, s)
    BY <2>5, <2>6 DEF Sums
  <2>. QED
    BY <2>7
<1> HIDE DEF Good
<1>2. SUBSET D \subseteq Good
  BY <1>1, StrictSubsetInduction
<1>. QED
  BY <1>2 DEF Good

\* The sum is the value of such a function.
LEMMA SumBySums ==
    ASSUME NEW f, NEW D, IsFiniteSet(D)
    PROVE  \E g : Sums(g, f, D) /\ Sum(f, D) = g[D]
<1>1. PICK g : Sums(g, f, D)
  BY SumsExists
<1>2. Sums((CHOOSE h : Sums(h, f, D)), f, D)
  BY <1>1
<1>3. Sum(f, D) = (CHOOSE h : Sums(h, f, D))[D]
  BY DEF Sum, Sums, Pick, MapThenSumSet, MapThenFoldSet
<1>. QED
  BY <1>2, <1>3

-----------------------------------------------------------------------------
(* What the sum is.                                                          *)

\* The sum over no element is 0.
LEMMA SumEmpty == ASSUME NEW f PROVE Sum(f, {}) = 0
<1>1. PICK g : Sums(g, f, {}) /\ Sum(f, {}) = g[{}]
  BY FS_EmptySet, SumBySums
<1>. QED
  BY <1>1 DEF Sums

\* The sum begins with the element the definition picks.
LEMMA SumPick ==
    ASSUME NEW f, NEW S, IsFiniteSet(S), S # {}
    PROVE  Sum(f, S) = f[Pick(S)] + Sum(f, S \ {Pick(S)})
<1> DEFINE T == S \ {Pick(S)}
<1>1. IsFiniteSet(T) /\ T \in SUBSET S /\ T \in SUBSET T
  BY FS_Subset
<1>2. PICK g : Sums(g, f, S) /\ Sum(f, S) = g[S]
  BY SumBySums
<1>3. PICK h : Sums(h, f, T) /\ Sum(f, T) = h[T]
  BY <1>1, SumBySums
<1>4. h[T] = g[T]
  BY <1>1, <1>2, <1>3, SumsUnique
<1>5. g[S] = f[Pick(S)] + g[T]
  BY <1>2 DEF Sums
<1>. QED
  BY <1>2, <1>3, <1>4, <1>5

\* A sum of integers is an integer.
LEMMA SumInt ==
    ASSUME NEW S, IsFiniteSet(S), NEW f, \A x \in S : f[x] \in Int
    PROVE  Sum(f, S) \in Int
<1> DEFINE Good == {s \in SUBSET S : Sum(f, s) \in Int}
<1>1. ASSUME NEW s \in SUBSET S, \A t \in SUBSET s : t # s => t \in Good
      PROVE  s \in Good
  <2>1. CASE s = {}
    BY <2>1, SumEmpty
  <2>2. CASE s # {}
    <3>1. Pick(s) \in s
      BY <2>2 DEF Pick
    <3>2. IsFiniteSet(s) /\ f[Pick(s)] \in Int /\ s \ {Pick(s)} \in Good
      BY <1>1, <3>1, FS_Subset
    <3>3. Sum(f, s) = f[Pick(s)] + Sum(f, s \ {Pick(s)})
      BY <2>2, <3>2, SumPick
    <3>. QED
      BY <3>2, <3>3
  <2>. QED
    BY <2>1, <2>2
<1> HIDE DEF Good
<1>2. SUBSET S \subseteq Good
  BY <1>1, StrictSubsetInduction
<1>. QED
  BY <1>2 DEF Good

\* The order does not matter: any element can be taken out first.
LEMMA SumRemove ==
    ASSUME NEW S, IsFiniteSet(S), NEW f, \A x \in S : f[x] \in Int, NEW e \in S
    PROVE  Sum(f, S) = f[e] + Sum(f, S \ {e})
<1> DEFINE Good == {s \in SUBSET S : \A x \in s : Sum(f, s) = f[x] + Sum(f, s \ {x})}
<1>1. ASSUME NEW s \in SUBSET S, \A t \in SUBSET s : t # s => t \in Good
      PROVE  s \in Good
  <2> SUFFICES ASSUME NEW x \in s PROVE Sum(f, s) = f[x] + Sum(f, s \ {x})
    OBVIOUS
  <2> DEFINE y == Pick(s)
  <2>1. y \in s
    BY DEF Pick
  <2>2. \A t \in SUBSET s : IsFiniteSet(t)
    BY FS_Subset
  <2>3. Sum(f, s) = f[y] + Sum(f, s \ {y})
    BY <2>2, SumPick
  <2>4. CASE x = y
    BY <2>3, <2>4
  <2>5. CASE x # y
    <3> HIDE DEF y
    <3>1. s \ {y} \in Good /\ x \in s \ {y}
      BY <1>1, <2>1, <2>5
    <3>2. s \ {x} \in Good /\ y \in s \ {x}
      BY <1>1, <2>1, <2>5
    <3>3. Sum(f, s \ {y}) = f[x] + Sum(f, (s \ {y}) \ {x})
      BY <3>1
    <3>4. Sum(f, s \ {x}) = f[y] + Sum(f, (s \ {x}) \ {y})
      BY <3>2
    <3>5. (s \ {x}) \ {y} = (s \ {y}) \ {x}
      OBVIOUS
    <3>6. Sum(f, (s \ {y}) \ {x}) \in Int /\ f[x] \in Int /\ f[y] \in Int
      BY <2>1, <2>2, SumInt
    <3> DEFINE z == Sum(f, (s \ {y}) \ {x})
    <3>7. Sum(f, s) = f[y] + (f[x] + z) /\ Sum(f, s \ {x}) = f[y] + z
      BY <2>3, <3>3, <3>4, <3>5
    <3> HIDE DEF z
    <3>8. z \in Int
      BY <3>6 DEF z
    <3>. QED
      BY <3>6, <3>7, <3>8
  <2>. QED
    BY <2>4, <2>5
<1> HIDE DEF Good
<1>2. SUBSET S \subseteq Good
  BY <1>1, StrictSubsetInduction
<1>. QED
  BY <1>2 DEF Good

\* One more element.
LEMMA SumAdd ==
    ASSUME NEW S, IsFiniteSet(S), NEW f, NEW e, e \notin S,
           \A x \in S : f[x] \in Int, f[e] \in Int
    PROVE  Sum(f, S \cup {e}) = Sum(f, S) + f[e]
<1>1. IsFiniteSet(S \cup {e}) /\ (S \cup {e}) \ {e} = S
  BY FS_AddElement
<1>2. Sum(f, S \cup {e}) = f[e] + Sum(f, (S \cup {e}) \ {e})
  BY <1>1, SumRemove
<1>3. Sum(f, S) \in Int
  BY SumInt
<1>4. Sum(f, (S \cup {e}) \ {e}) = Sum(f, S)
  BY <1>1
<1>. QED
  BY <1>2, <1>3, <1>4

\* The sum over two disjoint sets.
LEMMA SumUnion ==
    ASSUME NEW S, IsFiniteSet(S), NEW T, IsFiniteSet(T), S \cap T = {},
           NEW f, \A x \in S \cup T : f[x] \in Int
    PROVE  Sum(f, S \cup T) = Sum(f, S) + Sum(f, T)
<1> DEFINE Good == {t \in SUBSET T : Sum(f, S \cup t) = Sum(f, S) + Sum(f, t)}
<1>1. {} \in Good
  <2>1. Sum(f, S) \in Int /\ Sum(f, {}) = 0 /\ S \cup {} = S
    BY SumInt, SumEmpty
  <2>2. Sum(f, S \cup {}) = Sum(f, S)
    BY <2>1
  <2>3. Sum(f, S \cup {}) = Sum(f, S) + Sum(f, {})
    BY <2>1, <2>2
  <2>. QED
    BY <2>3
<1>2. ASSUME NEW t \in SUBSET T, NEW x \in T \ t, t \in Good
      PROVE  t \cup {x} \in Good
  <2>1. IsFiniteSet(t) /\ IsFiniteSet(S \cup t)
    BY FS_Subset, FS_Union
  <2>2. Sum(f, t) \in Int /\ Sum(f, S) \in Int /\ f[x] \in Int
    BY <2>1, SumInt
  <2>3. Sum(f, t \cup {x}) = Sum(f, t) + f[x]
    BY <2>1, SumAdd
  <2>4. Sum(f, (S \cup t) \cup {x}) = Sum(f, S \cup t) + f[x]
    BY <2>1, SumAdd
  <2>5. (S \cup t) \cup {x} = S \cup (t \cup {x})
    OBVIOUS
  <2>6. Sum(f, S \cup (t \cup {x})) = Sum(f, S \cup t) + f[x]
    BY <2>4, <2>5
  <2>7. Sum(f, S \cup t) = Sum(f, S) + Sum(f, t)
    BY <1>2
  <2>8. Sum(f, S \cup (t \cup {x})) = Sum(f, S) + Sum(f, t \cup {x})
    BY <2>2, <2>3, <2>6, <2>7
  <2>. QED
    BY <2>8
<1> HIDE DEF Good
<1>3. T \in Good
  BY <1>1, <1>2, SubsetInduction
<1>. QED
  BY <1>3 DEF Good

\* The sum over a part: it is the sum over the whole without the rest.
LEMMA SumDifference ==
    ASSUME NEW S, IsFiniteSet(S), NEW T \in SUBSET S,
           NEW f, \A x \in S : f[x] \in Int
    PROVE  /\ Sum(f, S \ T) = Sum(f, S) - Sum(f, T)
           /\ Sum(f, S) \in Int /\ Sum(f, T) \in Int /\ Sum(f, S \ T) \in Int
<1>1. IsFiniteSet(T) /\ IsFiniteSet(S \ T) /\ (S \ T) \cup T = S /\ (S \ T) \cap T = {}
  BY FS_Subset
<1>2. Sum(f, S) \in Int /\ Sum(f, T) \in Int /\ Sum(f, S \ T) \in Int
  BY <1>1, SumInt
<1>3. Sum(f, (S \ T) \cup T) = Sum(f, S \ T) + Sum(f, T)
  BY <1>1, SumUnion
<1>4. Sum(f, (S \ T) \cup T) = Sum(f, S)
  BY <1>1
<1>. QED
  BY <1>2, <1>3, <1>4

\* Smaller terms, smaller sum; with equality both ways, equal terms have equal sums.
LEMMA SumMonotone ==
    ASSUME NEW S, IsFiniteSet(S), NEW f, NEW g,
           \A x \in S : f[x] \in Int /\ g[x] \in Int /\ f[x] <= g[x]
    PROVE  Sum(f, S) <= Sum(g, S)
<1> DEFINE Good == {s \in SUBSET S : Sum(f, s) <= Sum(g, s)}
<1>1. {} \in Good
  BY SumEmpty
<1>2. ASSUME NEW s \in SUBSET S, NEW x \in S \ s, s \in Good
      PROVE  s \cup {x} \in Good
  <2>1. IsFiniteSet(s)
    BY FS_Subset
  <2>2. Sum(f, s) \in Int /\ Sum(g, s) \in Int
    BY <2>1, SumInt
  <2>3. Sum(f, s \cup {x}) = Sum(f, s) + f[x] /\ Sum(g, s \cup {x}) = Sum(g, s) + g[x]
    BY <2>1, SumAdd
  <2>4. Sum(f, s) <= Sum(g, s)
    BY <1>2
  <2>5. Sum(f, s \cup {x}) <= Sum(g, s \cup {x})
    BY <2>2, <2>3, <2>4
  <2>. QED
    BY <2>5
<1> HIDE DEF Good
<1>3. S \in Good
  BY <1>1, <1>2, SubsetInduction
<1>. QED
  BY <1>3 DEF Good

\* Equal terms, equal sums.
LEMMA SumEqual ==
    ASSUME NEW S, IsFiniteSet(S), NEW f, NEW g,
           \A x \in S : f[x] \in Int /\ g[x] = f[x]
    PROVE  Sum(f, S) = Sum(g, S)
<1>1. \A x \in S : f[x] \in Int /\ g[x] \in Int /\ f[x] <= g[x] /\ g[x] <= f[x]
  OBVIOUS
<1>2. Sum(f, S) <= Sum(g, S) /\ Sum(g, S) <= Sum(f, S)
  BY <1>1, SumMonotone
<1>3. Sum(f, S) \in Int /\ Sum(g, S) \in Int
  BY <1>1, SumInt
<1>. QED
  BY <1>2, <1>3

\* One term changed.
LEMMA SumUpdate ==
    ASSUME NEW S, IsFiniteSet(S), NEW f, NEW g, NEW e \in S, NEW q \in Int,
           \A x \in S : f[x] \in Int /\ g[x] = IF x = e THEN f[x] + q ELSE f[x]
    PROVE  Sum(g, S) = Sum(f, S) + q
<1>1. IsFiniteSet(S \ {e}) /\ \A x \in S : g[x] \in Int
  BY FS_Subset
<1>2. Sum(g, S) = g[e] + Sum(g, S \ {e}) /\ Sum(f, S) = f[e] + Sum(f, S \ {e})
  BY <1>1, SumRemove
<1>3. Sum(g, S \ {e}) = Sum(f, S \ {e}) /\ Sum(f, S \ {e}) \in Int
  BY <1>1, SumEqual, SumInt
<1>4. g[e] = f[e] + q /\ f[e] \in Int
  OBVIOUS
<1>. QED
  BY <1>2, <1>3, <1>4

\* Every term is part of a sum of natural numbers.
LEMMA SumTerm ==
    ASSUME NEW S, IsFiniteSet(S), NEW f, \A x \in S : f[x] \in Nat
    PROVE  Sum(f, S) >= 0 /\ \A e \in S : f[e] <= Sum(f, S)
<1>1. ASSUME NEW T \in SUBSET S PROVE Sum(f, T) \in Nat
  <2> DEFINE Good == {t \in SUBSET T : Sum(f, t) \in Nat}
  <2>1. {} \in Good
    BY SumEmpty
  <2>2. ASSUME NEW t \in SUBSET T, NEW x \in T \ t, t \in Good PROVE t \cup {x} \in Good
    <3>1. IsFiniteSet(t) /\ f[x] \in Int /\ \A y \in t : f[y] \in Int
      BY FS_Subset
    <3>2. Sum(f, t \cup {x}) = Sum(f, t) + f[x]
      BY <3>1, SumAdd
    <3>3. Sum(f, t) \in Nat /\ f[x] \in Nat
      BY <2>2
    <3>4. Sum(f, t \cup {x}) \in Nat
      BY <3>2, <3>3
    <3>. QED
      BY <3>4
  <2>3. IsFiniteSet(T)
    BY FS_Subset
  <2> HIDE DEF Good
  <2>4. T \in Good
    BY <2>1, <2>2, <2>3, SubsetInduction
  <2>. QED
    BY <2>4 DEF Good
<1>2. ASSUME NEW e \in S PROVE f[e] <= Sum(f, S)
  <2>1. Sum(f, S) = f[e] + Sum(f, S \ {e})
    BY SumRemove
  <2>2. Sum(f, S \ {e}) \in Nat /\ f[e] \in Nat
    BY <1>1
  <2>. QED
    BY <2>1, <2>2
<1>. QED
  BY <1>1, <1>2

\* Nothing sums up to nothing.
LEMMA SumZero ==
    ASSUME NEW S, IsFiniteSet(S), NEW f, \A x \in S : f[x] = 0
    PROVE  Sum(f, S) = 0
<1> DEFINE Good == {s \in SUBSET S : Sum(f, s) = 0}
<1>1. {} \in Good
  BY SumEmpty
<1>2. ASSUME NEW s \in SUBSET S, NEW x \in S \ s, s \in Good PROVE s \cup {x} \in Good
  <2>1. IsFiniteSet(s) /\ f[x] = 0 /\ \A y \in s : f[y] \in Int
    BY FS_Subset
  <2>2. Sum(f, s \cup {x}) = Sum(f, s) + f[x] /\ Sum(f, s) = 0
    BY <1>2, <2>1, SumAdd
  <2>3. Sum(f, s \cup {x}) = 0
    BY <2>1, <2>2
  <2>. QED
    BY <2>3
<1> HIDE DEF Good
<1>3. S \in Good
  BY <1>1, <1>2, SubsetInduction
<1>. QED
  BY <1>3 DEF Good

\* The sum of multiples is the multiple of the sum.
LEMMA SumScale ==
    ASSUME NEW S, IsFiniteSet(S), NEW f, NEW g, NEW k \in Int,
           \A x \in S : f[x] \in Int /\ g[x] = f[x] * k
    PROVE  Sum(g, S) = Sum(f, S) * k
<1> DEFINE Good == {s \in SUBSET S : Sum(g, s) = Sum(f, s) * k}
<1>1. {} \in Good
  BY SumEmpty
<1>2. ASSUME NEW s \in SUBSET S, NEW x \in S \ s, s \in Good PROVE s \cup {x} \in Good
  <2>1. IsFiniteSet(s) /\ f[x] \in Int /\ g[x] \in Int /\ \A y \in s : f[y] \in Int /\ g[y] \in Int
    BY FS_Subset
  <2>2. Sum(f, s \cup {x}) = Sum(f, s) + f[x] /\ Sum(g, s \cup {x}) = Sum(g, s) + g[x]
    BY <2>1, SumAdd
  <2>3. Sum(f, s) \in Int /\ Sum(g, s) = Sum(f, s) * k
    BY <1>2, <2>1, SumInt
  <2>4. (Sum(f, s) + f[x]) * k = Sum(f, s) * k + f[x] * k
    BY <2>1, <2>3
  <2>. QED
    BY <2>2, <2>3, <2>4
<1>. QED
  <2>. HIDE DEF Good
  <2>1. S \in Good
    BY <1>1, <1>2, SubsetInduction
  <2>. QED
    BY <2>1 DEF Good

\* A sum of equal terms.
LEMMA SumConstant ==
    ASSUME NEW S, IsFiniteSet(S), NEW f, NEW k \in Int, \A x \in S : f[x] = k
    PROVE  Sum(f, S) = Cardinality(S) * k
<1> DEFINE Good == {s \in SUBSET S : Sum(f, s) = Cardinality(s) * k}
<1>1. {} \in Good
  BY SumEmpty, FS_EmptySet
<1>2. ASSUME NEW s \in SUBSET S, NEW x \in S \ s, s \in Good PROVE s \cup {x} \in Good
  <2>1. IsFiniteSet(s) /\ f[x] = k /\ \A y \in s : f[y] \in Int
    BY FS_Subset
  <2>2. Sum(f, s \cup {x}) = Sum(f, s) + k
    BY <2>1, SumAdd
  <2>3. Cardinality(s \cup {x}) = Cardinality(s) + 1 /\ Cardinality(s) \in Int
    BY <2>1, FS_AddElement, FS_CardinalityType
  <2>4. (Cardinality(s) + 1) * k = Cardinality(s) * k + k
    BY <2>3
  <2>. QED
    BY <1>2, <2>2, <2>3, <2>4
<1>. QED
  <2>. HIDE DEF Good
  <2>1. S \in Good
    BY <1>1, <1>2, SubsetInduction
  <2>. QED
    BY <2>1 DEF Good

\* A finite set of numbers that is not empty has a smallest and a largest.
LEMMA SmallestLargest ==
    ASSUME NEW S \in SUBSET Int, IsFiniteSet(S), S # {}
    PROVE  /\ Min(S) \in S /\ \A y \in S : Min(S) <= y
           /\ Max(S) \in S /\ \A y \in S : Max(S) >= y
<1> DEFINE Good == {s \in SUBSET S : s # {} => /\ \E m \in s : \A y \in s : m <= y
                                               /\ \E m \in s : \A y \in s : m >= y}
<1>1. {} \in Good
  OBVIOUS
<1>2. ASSUME NEW s \in SUBSET S, NEW x \in S \ s, s \in Good PROVE s \cup {x} \in Good
  <2>1. CASE s = {}
    BY <2>1
  <2>2. CASE s # {}
    <3>1. PICK l \in s : \A y \in s : l <= y
      BY <1>2, <2>2
    <3>2. PICK h \in s : \A y \in s : h >= y
      BY <1>2, <2>2
    <3>3. \E m \in s \cup {x} : \A y \in s \cup {x} : m <= y
      <4>1. CASE x <= l
        BY <3>1, <4>1
      <4>2. CASE x > l
        BY <3>1, <4>2
      <4>. QED
        BY <4>1, <4>2
    <3>4. \E m \in s \cup {x} : \A y \in s \cup {x} : m >= y
      <4>1. CASE x >= h
        BY <3>2, <4>1
      <4>2. CASE x < h
        BY <3>2, <4>2
      <4>. QED
        BY <4>1, <4>2
    <3>. QED
      BY <3>3, <3>4
  <2>. QED
    BY <2>1, <2>2
<1>3. S \in Good
  <2>. HIDE DEF Good
  <2>. QED
    BY <1>1, <1>2, SubsetInduction
<1>. QED
  BY <1>3 DEF Min, Max
=============================================================================
