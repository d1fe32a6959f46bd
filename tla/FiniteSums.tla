------------------------------ MODULE FiniteSums -----------------------------
(***************************************************************************)
(* Sums of natural numbers over finite sets, as MapThenSumSet computes     *)
(* them.  The provers do no induction, so that what holds of all finite    *)
(* sets is shown for a least one for which it would not hold.              *)
(***************************************************************************)
EXTENDS Integers, FiniteSets, FiniteSetsExt, FiniteSetTheorems, TLAPS

Pick(s) == CHOOSE x \in s : TRUE

\* g gives every subset of S the sum of f over it.
IsSum(g, f, S) ==
  g = [s \in SUBSET S |-> IF s = {} THEN 0 ELSE f[Pick(s)] + g[s \ {Pick(s)}]]

Total(f, S) == MapThenSumSet(LAMBDA p : f[p], S)

\* Total, as the value of a recursive function.
LEMMA SumIs ==
  ASSUME NEW f, NEW S
  PROVE  Total(f, S) = (CHOOSE g : IsSum(g, f, S))[S]
  BY Zenon DEF Total, MapThenSumSet, MapThenFoldSet, Pick, IsSum

Inside(T, S) == T \in SUBSET (SUBSET S)

IsLeast(U, T) == U \in T /\ \A V \in T : V \subseteq U => V = U

\* A set of finite sets that is not empty has one without a member inside.
LEMMA LeastSet ==
  ASSUME NEW S, IsFiniteSet(S), NEW T, Inside(T, S), T # {}
  PROVE  \E U : IsLeast(U, T)
<1>1. IsWellFoundedOn(StrictSubsetOrdering(S), FiniteSubsetsOf(S))
  BY FS_StrictSubsetOrderingWellFounded, Zenon
<1>2. T \subseteq FiniteSubsetsOf(S)
  BY FS_Subset, Zenon DEF FiniteSubsetsOf, Inside
<1>3. PICK U \in T : \A V \in T : ~ (<<V, U>> \in StrictSubsetOrdering(S))
  BY <1>1, <1>2, WFMin, Zenon
<1>4. ASSUME NEW V \in T, V \subseteq U PROVE V = U
  BY <1>3, <1>4, Zenon DEF StrictSubsetOrdering, Inside
<1> QED
  BY <1>4, Zenon DEF IsLeast

\* The chosen element.
LEMMA PickIn ==
  ASSUME NEW s, s # {}
  PROVE  Pick(s) \in s
  BY Zenon DEF Pick

\* The sum depends on the terms only.
LEMMA SumUnique ==
  ASSUME NEW f1, NEW S1, NEW g1, IsSum(g1, f1, S1),
         NEW f2, NEW S2, NEW g2, IsSum(g2, f2, S2),
         NEW T, IsFiniteSet(T), T \subseteq S1, T \subseteq S2,
         \A x \in T : f1[x] = f2[x]
  PROVE  g1[T] = g2[T]
<1> DEFINE Bad == {U \in SUBSET T : g1[U] # g2[U]}
<1> SUFFICES ASSUME Bad # {} PROVE FALSE
  BY Zenon
<1>0. Inside(Bad, T)
  BY Zenon DEF Inside
<1>a. \E U : IsLeast(U, Bad)
  <2> HIDE DEF Bad
  <2> QED
    BY <1>0, LeastSet, Zenon
<1>1. PICK U \in Bad : \A V \in Bad : V \subseteq U => V = U
  BY <1>a, Zenon DEF IsLeast
<1>2. U \in SUBSET S1 /\ U \in SUBSET S2 /\ U \in SUBSET T
  BY Zenon
<1> DEFINE V == U \ {Pick(U)}
<1>3. U # {}
  BY <1>1, <1>2, Zenon DEF IsSum
<1>4. Pick(U) \in U
  BY <1>3, PickIn, Zenon
<1>5. g1[V] = g2[V]
  BY <1>1, <1>4, Zenon
<1>6. g1[U] = f1[Pick(U)] + g1[V] /\ g2[U] = f2[Pick(U)] + g2[V]
  BY <1>2, <1>3, Zenon DEF IsSum
<1> QED
  BY <1>1, <1>2, <1>4, <1>5, <1>6, Zenon

\* The sum over a set does not depend on the set it is a subset of.
LEMMA SumSame ==
  ASSUME NEW f, NEW S1, NEW g1, IsSum(g1, f, S1),
         NEW S2, NEW g2, IsSum(g2, f, S2),
         NEW T, IsFiniteSet(T), T \subseteq S1, T \subseteq S2
  PROVE  g1[T] = g2[T]
  BY SumUnique

\* The sum over a finite set is defined.
LEMMA SumExists ==
  ASSUME NEW f, NEW S, IsFiniteSet(S)
  PROVE  \E g : IsSum(g, f, S)
<1> DEFINE h(U) == CHOOSE g : IsSum(g, f, U)
           Bad == {U \in SUBSET S : ~ \E g : IsSum(g, f, U)}
<1> SUFFICES ASSUME Bad # {} PROVE FALSE
  BY Zenon
<1>0. Inside(Bad, S)
  BY Zenon DEF Inside
<1>a. \E U : IsLeast(U, Bad)
  <2> HIDE DEF Bad
  <2> QED
    BY <1>0, LeastSet, Zenon
<1>1. PICK U \in Bad : \A V \in Bad : V \subseteq U => V = U
  BY <1>a, Zenon DEF IsLeast
<1>2. ASSUME NEW V \in SUBSET U, V # U PROVE IsSum(h(V), f, V) /\ IsFiniteSet(V)
  <2>1. V \in SUBSET S /\ V \notin Bad
    BY <1>1, <1>2, Zenon
  <2>2. \E g : IsSum(g, f, V)
    BY <2>1, Zenon
  <2> QED
    BY <2>1, <2>2, FS_Subset, Zenon
<1> DEFINE at(s) == s \ {Pick(s)}
           g == [s \in SUBSET U |->
                   IF s = {} THEN 0 ELSE f[Pick(s)] + h(at(s))[at(s)]]
<1>3. ASSUME NEW V \in SUBSET U, V # U PROVE g[V] = h(V)[V]
  <2>1. IsSum(h(V), f, V)
    BY <1>2, <1>3, Zenon
  <2>2. CASE V = {}
    BY <2>1, <2>2, Zenon DEF IsSum
  <2>3. CASE V # {}
    <3>1. Pick(V) \in V
      BY <2>3, PickIn, Zenon
    <3>2. at(V) \in SUBSET U /\ at(V) # U /\ at(V) \in SUBSET V
      BY <3>1, Zenon
    <3>3. IsSum(h(at(V)), f, at(V)) /\ IsFiniteSet(at(V))
      BY <3>2, <1>2, Zenon
    <3> HIDE DEF h, at, Bad, g
    <3>4. h(V)[at(V)] = h(at(V))[at(V)]
      BY <3>2, <3>3, <2>1, SumSame
    <3>5. h(V)[V] = f[Pick(V)] + h(V)[at(V)]
      BY <2>1, <2>3, Zenon DEF IsSum, at
    <3>6. g[V] = f[Pick(V)] + h(at(V))[at(V)]
      BY <2>3, Zenon DEF g
    <3> QED
      BY <3>4, <3>5, <3>6, Zenon
  <2> QED
    BY <2>2, <2>3, Zenon
<1>4. ASSUME NEW s \in SUBSET U, s # {} PROVE g[at(s)] = h(at(s))[at(s)]
  <2>1. Pick(s) \in s
    BY <1>4, PickIn, Zenon
  <2>2. at(s) \in SUBSET U /\ at(s) # U
    BY <2>1, Zenon
  <2> QED
    BY <2>2, <1>3, Zenon
<1>5. IsSum(g, f, U)
  <2> HIDE DEF h
  <2>1. \A s \in SUBSET U : g[s] = IF s = {} THEN 0 ELSE f[Pick(s)] + g[at(s)]
    BY <1>4, Zenon
  <2> DEFINE k == [s \in SUBSET U |-> IF s = {} THEN 0 ELSE f[Pick(s)] + g[at(s)]]
  <2>2. g = k
    BY <2>1, Zenon
  <2> QED
    BY <2>2, Zenon DEF IsSum
<1> QED
  BY <1>1, <1>5, Zenon

\* The sum is the value of a function that IsSum describes.
LEMMA SumChosen ==
  ASSUME NEW f, NEW S, IsFiniteSet(S)
  PROVE  \E g : IsSum(g, f, S) /\ Total(f, S) = g[S]
  BY SumIs, SumExists, Zenon

\* The empty sum.
LEMMA SumEmpty ==
  ASSUME NEW f
  PROVE  Total(f, {}) = 0
<1>1. PICK g : IsSum(g, f, {}) /\ Total(f, {}) = g[{}]
  BY SumChosen, FS_EmptySet, Zenon
<1> QED
  BY <1>1, Zenon DEF IsSum

\* The chosen element can be taken out of a sum.
LEMMA SumPick ==
  ASSUME NEW f, NEW S, IsFiniteSet(S), S # {}
  PROVE  Total(f, S) = f[Pick(S)] + Total(f, S \ {Pick(S)})
<1> DEFINE V == S \ {Pick(S)}
<1>1. PICK g : IsSum(g, f, S) /\ Total(f, S) = g[S]
  BY SumChosen, Zenon
<1>2. IsFiniteSet(V) /\ V \subseteq S
  BY FS_Subset, Zenon
<1>3. g[S] = f[Pick(S)] + g[V]
  BY <1>1, Zenon DEF IsSum
<1> HIDE DEF V
<1>4. PICK k : IsSum(k, f, V) /\ Total(f, V) = k[V]
  BY <1>2, SumChosen, Zenon
<1>5. g[V] = k[V]
  BY <1>1, <1>2, <1>4, SumSame
<1> QED
  BY <1>1, <1>3, <1>4, <1>5, Zenon DEF V

\* Equal terms have equal sums.
LEMMA SumAgree ==
  ASSUME NEW f, NEW h, NEW S, IsFiniteSet(S), \A x \in S : f[x] = h[x]
  PROVE  Total(f, S) = Total(h, S)
<1>1. PICK g : IsSum(g, f, S) /\ Total(f, S) = g[S]
  BY SumChosen, Zenon
<1>2. PICK k : IsSum(k, h, S) /\ Total(h, S) = k[S]
  BY SumChosen, Zenon
<1> QED
  BY <1>1, <1>2, SumUnique

\* The terms of the sum of f over S.
NatOn(f, S) == \A x \in S : f[x] \in Nat

\* A sum of numbers is a number.
LEMMA SumNat ==
  ASSUME NEW f, NEW S, IsFiniteSet(S), NatOn(f, S)
  PROVE  Total(f, S) \in Nat
<1> DEFINE Bad == {U \in SUBSET S : Total(f, U) \notin Nat}
<1> SUFFICES ASSUME Bad # {} PROVE FALSE
  BY Zenon
<1>0. Inside(Bad, S)
  BY Zenon DEF Inside
<1>a. \E U : IsLeast(U, Bad)
  <2> HIDE DEF Bad
  <2> QED
    BY <1>0, LeastSet, Zenon
<1>1. PICK U \in Bad : \A V \in Bad : V \subseteq U => V = U
  BY <1>a, Zenon DEF IsLeast
<1> DEFINE V == U \ {Pick(U)}
<1>2. IsFiniteSet(U)
  BY FS_Subset, Zenon
<1>3. U # {}
  <2>1. Total(f, U) \notin Nat
    OBVIOUS
  <2> QED
    BY <2>1, SumEmpty
<1>4. Pick(U) \in U
  BY <1>3, PickIn, Zenon
<1>5. Total(f, V) \in Nat
  <2>1. V \in SUBSET S /\ V # U /\ V \subseteq U
    BY <1>4, Zenon
  <2> HIDE DEF V
  <2>2. V \notin Bad
    BY <2>1, <1>1, Zenon
  <2> QED
    BY <2>1, <2>2
<1>6. Total(f, U) = f[Pick(U)] + Total(f, V)
  BY <1>2, <1>3, SumPick, Zenon
<1>7. Total(f, U) \in Nat
  <2>1. f[Pick(U)] \in Nat
    BY <1>4, Zenon DEF NatOn
  <2> HIDE DEF V
  <2> QED
    BY <2>1, <1>5, <1>6
<1> QED
  BY <1>7, Zenon

\* Any element can be taken out of a sum.
LEMMA SumRemove ==
  ASSUME NEW f, NEW S, IsFiniteSet(S), NatOn(f, S), NEW x \in S
  PROVE  Total(f, S) = f[x] + Total(f, S \ {x})
<1> DEFINE Ok(U) == \A y \in U : Total(f, U) = f[y] + Total(f, U \ {y})
           Bad == {U \in SUBSET S : ~ Ok(U)}
<1> SUFFICES ASSUME Bad # {} PROVE FALSE
  <2> HIDE DEF Ok
  <2>1. Bad = {} => Ok(S)
    BY Zenon
  <2> QED
    BY <2>1, Zenon DEF Ok
<1>0. Inside(Bad, S)
  BY Zenon DEF Inside
<1>a. \E U : IsLeast(U, Bad)
  <2> HIDE DEF Bad
  <2> QED
    BY <1>0, LeastSet, Zenon
<1>1. PICK U \in Bad : \A V \in Bad : V \subseteq U => V = U
  BY <1>a, Zenon DEF IsLeast
<1>2. IsFiniteSet(U) /\ U \in SUBSET S
  BY FS_Subset, Zenon
<1>3. PICK y \in U : Total(f, U) # f[y] + Total(f, U \ {y})
  BY <1>1, Zenon
<1> DEFINE c == Pick(U)
           B == U \ {c}
           C == U \ {y}
           D == (U \ {c}) \ {y}
<1>4. c \in U /\ Total(f, U) = f[c] + Total(f, B)
  BY <1>2, SumPick, PickIn, Zenon
<1>5. y # c
  BY <1>3, <1>4, Zenon
<1>6. Ok(B) /\ Ok(C)
  <2>1. B \in SUBSET S /\ B # U /\ B \subseteq U
    BY <1>2, <1>4, Zenon
  <2>2. C \in SUBSET S /\ C # U /\ C \subseteq U
    BY <1>2, Zenon
  <2> HIDE DEF Ok, B, C
  <2> QED
    BY <2>1, <2>2, <1>1, Zenon
<1>7. Total(f, B) = f[y] + Total(f, D)
  BY <1>5, <1>6, Zenon
<1>8. Total(f, C) = f[c] + Total(f, D)
  <2>1. C \ {c} = D /\ c \in C
    BY <1>4, <1>5, Zenon
  <2> HIDE DEF C, D, B, c
  <2> QED
    BY <2>1, <1>6, Zenon
<1>9. Total(f, D) \in Nat
  <2>1. D \in SUBSET S
    BY <1>2, Zenon
  <2>2. IsFiniteSet(D) /\ NatOn(f, D)
    BY <2>1, FS_Subset, Zenon DEF NatOn
  <2> HIDE DEF D
  <2> QED
    BY <2>2, SumNat, Zenon
<1>10. f[y] \in Nat /\ f[c] \in Nat
  BY <1>2, <1>4, Zenon DEF NatOn
<1> HIDE DEF B, C, D, c, Bad, Ok
<1>11. f[c] + Total(f, B) = f[y] + Total(f, C)
  BY <1>7, <1>8, <1>9, <1>10
<1> QED
  BY <1>3, <1>4, <1>11, Zenon DEF C

\* An element can be added to a sum.
LEMMA SumAdd ==
  ASSUME NEW f, NEW S, IsFiniteSet(S), NatOn(f, S),
         NEW x, x \notin S, f[x] \in Nat
  PROVE  Total(f, S \cup {x}) = f[x] + Total(f, S)
<1> DEFINE T == S \cup {x}
<1>1. IsFiniteSet(T) /\ x \in T /\ T \ {x} = S /\ NatOn(f, T)
  BY FS_AddElement, Zenon DEF NatOn
<1> HIDE DEF T
<1>2. Total(f, T) = f[x] + Total(f, T \ {x})
  BY <1>1, SumRemove
<1> QED
  BY <1>1, <1>2, Zenon DEF T

\* A part can be taken out of a sum.
LEMMA SumWithout ==
  ASSUME NEW f, NEW S, IsFiniteSet(S), NatOn(f, S),
         NEW T \in SUBSET S
  PROVE  /\ Total(f, S) = Total(f, T) + Total(f, S \ T)
         /\ Total(f, T) \in Nat /\ Total(f, S \ T) \in Nat
<1> DEFINE Bad == {U \in SUBSET S : Total(f, S) # Total(f, U) + Total(f, S \ U)}
<1>0. Inside(Bad, S)
  BY Zenon DEF Inside
<1>1. ASSUME NEW U \in SUBSET S
      PROVE  /\ IsFiniteSet(U) /\ Total(f, U) \in Nat
             /\ IsFiniteSet(S \ U) /\ Total(f, S \ U) \in Nat
             /\ NatOn(f, U) /\ NatOn(f, S \ U)
  <2>1. IsFiniteSet(U) /\ IsFiniteSet(S \ U)
    BY FS_Subset, Zenon
  <2>2. NatOn(f, U) /\ NatOn(f, S \ U)
    BY Zenon DEF NatOn
  <2> QED
    BY <2>1, <2>2, SumNat, Zenon
<1>2. Bad = {}
  <2> SUFFICES ASSUME Bad # {} PROVE FALSE
    BY Zenon
  <2>a. \E U : IsLeast(U, Bad)
    <3> HIDE DEF Bad
    <3> QED
      BY <1>0, LeastSet, Zenon
  <2>1. PICK U \in Bad : \A V \in Bad : V \subseteq U => V = U
    BY <2>a, Zenon DEF IsLeast
  <2>2. U \in SUBSET S /\ Total(f, S) # Total(f, U) + Total(f, S \ U)
    BY Zenon
  <2>3. U # {}
    <3>1. S \ {} = S
      BY Zenon
    <3>2. Total(f, S) \in Nat
      BY SumNat, Zenon
    <3> QED
      BY <3>1, <3>2, <2>2, SumEmpty
  <2>4. PICK x \in U : TRUE
    BY <2>3, Zenon
  <2> DEFINE V == U \ {x}
             W == S \ U
  <2>5. V \in SUBSET S /\ V # U /\ V \subseteq U /\ S \ V = W \cup {x} /\ x \notin W
    BY <2>2, Zenon
  <2>6. V \notin Bad
    <3> HIDE DEF V, Bad
    <3> QED
      BY <2>5, <2>1, Zenon
  <2>7. Total(f, S) = Total(f, V) + Total(f, S \ V)
    BY <2>5, <2>6, Zenon
  <2>8. Total(f, U) = f[x] + Total(f, V)
    BY <1>1, <2>2, SumRemove
  <2>9. IsFiniteSet(W) /\ Total(f, W) \in Nat /\ NatOn(f, W) /\ f[x] \in Nat
    BY <1>1, <2>2, Zenon DEF NatOn
  <2>10. Total(f, V) \in Nat
    BY <1>1, <2>5, Zenon
  <2> HIDE DEF V, W, Bad
  <2>11. Total(f, W \cup {x}) = f[x] + Total(f, W)
    BY <2>5, <2>9, SumAdd, Zenon
  <2>12. Total(f, S) = Total(f, V) + (f[x] + Total(f, W))
    BY <2>5, <2>7, <2>11, Zenon
  <2>13. Total(f, S) = Total(f, U) + Total(f, W)
    BY <2>8, <2>9, <2>10, <2>12
  <2> QED
    BY <2>2, <2>13, Zenon DEF W
<1> QED
  BY <1>1, <1>2, Zenon

ZeroOn(f, S) == \A x \in S : f[x] = 0

\* A sum of zeros.
LEMMA SumZero ==
  ASSUME NEW f, NEW S, IsFiniteSet(S), ZeroOn(f, S)
  PROVE  Total(f, S) = 0
<1> DEFINE Bad == {U \in SUBSET S : Total(f, U) # 0}
<1> SUFFICES ASSUME Bad # {} PROVE FALSE
  BY Zenon
<1>0. Inside(Bad, S)
  BY Zenon DEF Inside
<1>1. \E U : IsLeast(U, Bad)
  <2> HIDE DEF Bad
  <2> QED
    BY <1>0, LeastSet, Zenon
<1>2. PICK U \in Bad : \A V \in Bad : V \subseteq U => V = U
  BY <1>1, Zenon DEF IsLeast
<1>3. U \in SUBSET S /\ Total(f, U) # 0 /\ IsFiniteSet(U)
  BY FS_Subset, Zenon
<1>4. U # {}
  BY <1>3, SumEmpty, Zenon
<1> DEFINE V == U \ {Pick(U)}
<1>5. Pick(U) \in U /\ Total(f, U) = f[Pick(U)] + Total(f, V)
  BY <1>3, <1>4, PickIn, SumPick, Zenon
<1>6. V \in SUBSET S /\ V # U /\ V \subseteq U /\ f[Pick(U)] = 0
  BY <1>3, <1>5, Zenon DEF ZeroOn
<1>7. Total(f, V) = 0
  <2> HIDE DEF V
  <2> QED
    BY <1>2, <1>6, Zenon
<1> HIDE DEF V, Bad
<1> QED
  BY <1>3, <1>5, <1>6, <1>7

\* Terms that are 0 can be left out.
LEMMA SumOfPart ==
  ASSUME NEW f, NEW S, IsFiniteSet(S), NatOn(f, S), NEW T \in SUBSET S, ZeroOn(f, S \ T)
  PROVE  Total(f, S) = Total(f, T)
<1>1. /\ Total(f, S) = Total(f, T) + Total(f, S \ T)
      /\ Total(f, T) \in Nat /\ Total(f, S \ T) \in Nat
  BY SumWithout, Zenon
<1>2. IsFiniteSet(S \ T)
  BY FS_Subset, Zenon
<1>3. Total(f, S \ T) = 0
  BY <1>2, SumZero, Zenon
<1> QED
  BY <1>1, <1>3

\* A set of numbers that is not empty has a least one.
LEMMA LeastNat ==
  ASSUME NEW T \in SUBSET Nat, T # {}
  PROVE  \E x \in T : \A y \in T : x <= y
<1> DEFINE R == {ss \in Nat \X Nat : ss[1] < ss[2]}
<1>0. R = OpToRel(<,Nat)
  BY Zenon DEF OpToRel
<1>1. \E x \in T : \A y \in T : ~ (<<y, x>> \in R)
  <2> HIDE DEF R
  <2> QED
    BY <1>0, WFMin, NatLessThanWellFounded, Zenon
<1>2. PICK x \in T : \A y \in T : ~ (<<y, x>> \in R)
  BY <1>1
<1>3. ASSUME NEW y \in T
      PROVE  x <= y
  <2>1. x \in Nat /\ y \in Nat
    OBVIOUS
  <2>2. y < x => <<y, x>> \in R
    BY <2>1
  <2> QED
    BY <2>1, <2>2, <1>2
<1> QED
  BY <1>3

\* A set of numbers below E that is not empty has a greatest one.
LEMMA Greatest ==
  ASSUME NEW E \in Nat, NEW T \in SUBSET Nat, T # {}, \A x \in T : x <= E
  PROVE  \E x \in T : \A y \in T : y <= x
<1> DEFINE D == {E - x : x \in T}
<1>1. D \in SUBSET Nat /\ D # {}
  <2>1. \A x \in T : E - x \in Nat
    OBVIOUS
  <2> QED
    BY <2>1, Zenon
<1>2. PICK d \in D : \A e \in D : d <= e
  <2> HIDE DEF D
  <2> QED
    BY <1>1, LeastNat, Zenon
<1>3. PICK x \in T : d = E - x
  BY Zenon
<1>4. \A y \in T : E - x <= E - y
  BY <1>2, <1>3, Zenon
<1>5. ASSUME NEW y \in T PROVE y <= x
  <2>1. x \in Nat /\ y \in Nat /\ E - x <= E - y
    BY <1>4, Zenon
  <2> QED
    BY <2>1
<1> QED
  BY <1>5, Zenon

Areas(f, S) ==
  /\ \A p \in S : f[p] \in Nat \ {0}
  /\ \A p, q \in S : p # q => p + f[p] <= q \/ q + f[q] <= p

EndBy(f, S, e) == \A p \in S : p + f[p] <= e

\* Areas that are apart and end before E are no more than E bytes together.
LEMMA SumOfApart ==
  ASSUME NEW f, NEW S \in SUBSET Nat, IsFiniteSet(S), Areas(f, S),
         NEW E \in Nat, EndBy(f, S, E)
  PROVE  Total(f, S) <= E
<1> DEFINE Bad == {U \in SUBSET S :
                     \E e \in Nat : EndBy(f, U, e) /\ ~ (Total(f, U) <= e)}
<1> SUFFICES ASSUME Bad # {} PROVE FALSE
  BY Zenon
<1>0. Inside(Bad, S)
  BY Zenon DEF Inside
<1>a. \E U : IsLeast(U, Bad)
  <2> HIDE DEF Bad
  <2> QED
    BY <1>0, LeastSet, Zenon
<1>1. PICK U \in Bad : \A V \in Bad : V \subseteq U => V = U
  BY <1>a, Zenon DEF IsLeast
<1>2. PICK e \in Nat : EndBy(f, U, e) /\ ~ (Total(f, U) <= e)
  BY Zenon
<1>3. U \in SUBSET S /\ IsFiniteSet(U)
  BY FS_Subset, Zenon
<1>4. U # {}
  <2>1. ~ (Total(f, U) <= e)
    BY <1>2, Zenon
  <2>2. Total(f, {}) <= e
    BY SumEmpty
  <2> QED
    BY <2>1, <2>2, Zenon
<1>5. \A p \in U : p \in Nat /\ f[p] \in Nat \ {0} /\ p + f[p] <= e
  BY <1>2, <1>3, Zenon DEF Areas, EndBy
<1>6. U \in SUBSET Nat /\ \A p \in U : p <= e
  BY <1>5
<1>7. PICK x \in U : \A y \in U : y <= x
  BY <1>4, <1>6, Greatest, Zenon
<1> DEFINE V == U \ {x}
<1>8. EndBy(f, V, x)
  <2> SUFFICES ASSUME NEW p \in V PROVE p + f[p] <= x
    BY Zenon DEF EndBy
  <2>1. p \in U /\ p # x /\ p <= x
    BY <1>7, Zenon
  <2>2. p + f[p] <= x \/ x + f[x] <= p
    BY <2>1, <1>3, Zenon DEF Areas
  <2>3. p \in Nat /\ x \in Nat /\ f[x] \in Nat \ {0} /\ f[p] \in Nat \ {0}
    BY <2>1, <1>5, Zenon
  <2> QED
    BY <2>1, <2>2, <2>3
<1>9. V \in SUBSET S /\ V # U /\ V \subseteq U /\ IsFiniteSet(V) /\ NatOn(f, V)
  BY <1>3, <1>5, FS_Subset, Zenon DEF NatOn
<1>10. Total(f, V) <= x
  <2>1. V \notin Bad
    <3> HIDE DEF V, Bad
    <3> QED
      BY <1>9, <1>1, Zenon
  <2> QED
    BY <2>1, <1>5, <1>8, <1>9, Zenon
<1>11. Total(f, U) = f[x] + Total(f, V)
  <2>1. NatOn(f, U)
    BY <1>5, Zenon DEF NatOn
  <2> HIDE DEF Bad
  <2> QED
    BY <2>1, <1>3, SumRemove
<1>12. Total(f, V) \in Nat
  <2> HIDE DEF V
  <2> QED
    BY <1>9, SumNat, Zenon
<1>13. x \in Nat /\ f[x] \in Nat /\ x + f[x] <= e
  BY <1>5, Zenon
<1> HIDE DEF V, Bad
<1> QED
  BY <1>2, <1>10, <1>11, <1>12, <1>13
==============================================================================
