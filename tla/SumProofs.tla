----------------------------- MODULE SumProofs ------------------------------
(***************************************************************************)
(* Finite sets summed, put in order and folded over: what the rules of a   *)
(* document (Canonical), the reading of its lines (Mapping) and the lists  *)
(* of servers (Discovery) rest on.  The sum and the fold of the community  *)
(* modules take the elements of a set one by one, in an order of their     *)
(* own; for sums it is shown that the order does not matter, and for folds *)
(* what holds of the result whatever the order is.                         *)
(*                                                                         *)
(* A property of finite sets is the set of those that have it: a theorem   *)
(* of induction that takes a set, rather than an operator, can be cited.   *)
(***************************************************************************)
EXTENDS Integers, FiniteSets, Functions, FiniteSetTheorems, TLAPS

\* The subsets of a finite set have no endless descent.
LEMMA SubsetsWellFounded ==
  ASSUME NEW S, IsFiniteSet(S)
  PROVE  IsWellFoundedOn(StrictSubsetOrdering(S), SUBSET S)
<1>1. FiniteSubsetsOf(S) = SUBSET S
  BY FS_FiniteSubsetsOfFinite
<1>2. IsWellFoundedOn(StrictSubsetOrdering(S), FiniteSubsetsOf(S))
  BY FS_StrictSubsetOrderingWellFounded, Zenon
<1> QED  BY <1>1, <1>2, Zenon

\* A set of subsets of S that has the empty one, and with a subset the same with
\* one element more, has S.
LEMMA SubsetInduction ==
  ASSUME NEW S, IsFiniteSet(S), NEW Good, {} \in Good,
         \A U \in SUBSET S : \A x \in U : U \ {x} \in Good => U \in Good
  PROVE  S \in Good
<1> DEFINE Bad == {U \in SUBSET S : U \notin Good}
<1> SUFFICES ASSUME S \notin Good PROVE FALSE
  OBVIOUS
<1>1. IsWellFoundedOn(StrictSubsetOrdering(S), SUBSET S)
  BY SubsetsWellFounded
<1>2. Bad \subseteq SUBSET S /\ Bad # {}
  OBVIOUS
<1>3. PICK U \in Bad : \A V \in Bad : ~(<<V, U>> \in StrictSubsetOrdering(S))
  <2> HIDE DEF Bad
  <2> QED  BY <1>1, <1>2, WFMin
<1>4. PICK x \in U : TRUE
  OBVIOUS
<1>5. U \ {x} \in Bad
  OBVIOUS
<1>6. <<U \ {x}, U>> \in StrictSubsetOrdering(S)
  BY <1>4 DEF StrictSubsetOrdering
<1> QED  BY <1>3, <1>5, <1>6

\* The same when all smaller subsets may be used.
LEMMA StrongSubsetInduction ==
  ASSUME NEW S, IsFiniteSet(S), NEW Good,
         \A U \in SUBSET S : (\A V \in SUBSET U : V # U => V \in Good) => U \in Good
  PROVE  S \in Good
<1> DEFINE Bad == {U \in SUBSET S : U \notin Good}
<1> SUFFICES ASSUME S \notin Good PROVE FALSE
  OBVIOUS
<1>1. IsWellFoundedOn(StrictSubsetOrdering(S), SUBSET S)
  BY SubsetsWellFounded
<1>2. Bad \subseteq SUBSET S /\ Bad # {}
  OBVIOUS
<1>3. PICK U \in Bad : \A V \in Bad : ~(<<V, U>> \in StrictSubsetOrdering(S))
  <2> HIDE DEF Bad
  <2> QED  BY <1>1, <1>2, WFMin
<1>4. PICK V \in SUBSET U : V # U /\ V \notin Good
  OBVIOUS
<1>5. V \in Bad
  BY <1>4
<1>6. <<V, U>> \in StrictSubsetOrdering(S)
  BY <1>4 DEF StrictSubsetOrdering
<1> QED  BY <1>3, <1>5, <1>6

-----------------------------------------------------------------------------
(* The sum exists.                                                         *)

First(s) == CHOOSE x \in s : TRUE

\* A function that sums f over the subsets of S, as the definition says.
Sums(f, S, g) ==
  g = [s \in SUBSET S |-> IF s = {} THEN 0 ELSE f[First(s)] + g[s \ {First(s)}]]

\* The first element of a set is one of them.
LEMMA FirstOfSet ==
  ASSUME NEW s, s # {}
  PROVE  First(s) \in s
  BY DEF First

\* Two of them agree where they are both defined.
LEMMA SumsAgree ==
  ASSUME NEW f, NEW A, NEW B, NEW g, NEW h, Sums(f, A, g), Sums(f, B, h),
         NEW s \in SUBSET (A \cap B), IsFiniteSet(s)
  PROVE  g[s] = h[s]
<1> DEFINE Good == {U \in SUBSET s : g[U] = h[U]}
<1>1. ASSUME NEW U \in SUBSET s, \A V \in SUBSET U : V # U => V \in Good
      PROVE  U \in Good
  <2>1. CASE U = {}
    BY <2>1 DEF Sums
  <2>2. CASE U # {}
    <3>1. First(U) \in U
      BY <2>2, FirstOfSet
    <3>2. g[U \ {First(U)}] = h[U \ {First(U)}]
      BY <1>1, <3>1
    <3>3. /\ g[U] = f[First(U)] + g[U \ {First(U)}]
          /\ h[U] = f[First(U)] + h[U \ {First(U)}]
      BY <2>2 DEF Sums
    <3> QED  BY <3>2, <3>3
  <2> QED  BY <2>1, <2>2
<1>2. s \in Good
  <2> HIDE DEF Good
  <2> QED  BY <1>1, StrongSubsetInduction
<1> QED  BY <1>2

\* On a finite set there is such a function.
LEMMA SumsExist ==
  ASSUME NEW f, NEW S, IsFiniteSet(S)
  PROVE  \E g : Sums(f, S, g)
<1> DEFINE Good == {U \in SUBSET S : \E g : Sums(f, U, g)}
<1>1. ASSUME NEW U \in SUBSET S, \A V \in SUBSET U : V # U => V \in Good
      PROVE  U \in Good
  <2> DEFINE G(V) == CHOOSE g : Sums(f, V, g)
             below(V) == IF V = {} THEN 0
                         ELSE f[First(V)] + G(V \ {First(V)})[V \ {First(V)}]
             h == [V \in SUBSET U |-> below(V)]
  <2>1. \A V \in SUBSET U : V # U => Sums(f, V, G(V))
    BY <1>1
  <2> HIDE DEF G
  <2>2. ASSUME NEW V \in SUBSET U, V # {}
        PROVE  G(V \ {First(V)})[V \ {First(V)}] = h[V \ {First(V)}]
    <3> DEFINE W == V \ {First(V)}
    <3>1. First(V) \in V /\ W \in SUBSET U /\ W # U
      BY <2>2, FirstOfSet
    <3>2. CASE W = {}
      BY <3>1, <3>2, <2>1 DEF Sums
    <3>3. CASE W # {}
      <4> DEFINE X == W \ {First(W)}
      <4>1. First(W) \in W /\ X \in SUBSET W /\ X \in SUBSET U /\ X # U
        BY <3>1, <3>3, FirstOfSet
      <4>2. Sums(f, W, G(W)) /\ Sums(f, X, G(X))
        BY <2>1, <3>1, <4>1
      <4>3. IsFiniteSet(X)
        BY FS_Subset, <4>1
      <4>4. G(W)[X] = G(X)[X]
        <5>1. X \in SUBSET (W \cap X)
          BY <4>1
        <5> HIDE DEF X, W
        <5> QED  BY <5>1, <4>2, <4>3, SumsAgree
      <4>5. G(W)[W] = f[First(W)] + G(W)[X]
        BY <3>3, <4>2 DEF Sums
      <4>6. h[W] = f[First(W)] + G(X)[X]
        BY <3>1, <3>3
      <4> QED  BY <4>4, <4>5, <4>6
    <3> QED  BY <3>2, <3>3
  <2>3. Sums(f, U, h)
    BY <2>2 DEF Sums
  <2> QED  BY <2>3
<1>2. S \in Good
  <2> HIDE DEF Good
  <2> QED  BY <1>1, StrongSubsetInduction
<1> QED  BY <1>2

\* The sum of the community modules is the value of one for all of S.
LEMMA SumIsOne ==
  ASSUME NEW f, NEW S, IsFiniteSet(S)
  PROVE  \E g : Sums(f, S, g) /\ SumFunctionOnSet(f, S) = g[S]
<1> DEFINE iter == CHOOSE g : Sums(f, S, g)
<1>1. Sums(f, S, iter)
  BY SumsExist
<1>2. SumFunctionOnSet(f, S) = iter[S]
  BY DEF SumFunctionOnSet, FoldFunctionOnSet, MapThenFoldSet, Sums, First
<1> QED  BY <1>1, <1>2

-----------------------------------------------------------------------------
(* Sums of integers.                                                       *)

\* f gives every element of S an integer.
Integral(f, S) == \A x \in S : f[x] \in Int

\* Nothing comes to nothing.
LEMMA SumOfNothing ==
  ASSUME NEW f
  PROVE  SumFunctionOnSet(f, {}) = 0
<1>1. PICK g : Sums(f, {}, g) /\ SumFunctionOnSet(f, {}) = g[{}]
  BY FS_EmptySet, SumIsOne
<1> QED  BY <1>1 DEF Sums

\* As the definition has it: the first element apart.
LEMMA SumFromFirst ==
  ASSUME NEW f, NEW S, IsFiniteSet(S), S # {}
  PROVE  SumFunctionOnSet(f, S) = f[First(S)] + SumFunctionOnSet(f, S \ {First(S)})
<1> DEFINE R == S \ {First(S)}
<1>1. PICK g : Sums(f, S, g) /\ SumFunctionOnSet(f, S) = g[S]
  BY SumIsOne
<1>2. IsFiniteSet(R) /\ R \in SUBSET S
  BY FS_Subset
<1>3. PICK h : Sums(f, R, h) /\ SumFunctionOnSet(f, R) = h[R]
  <2> HIDE DEF R
  <2> QED  BY <1>2, SumIsOne
<1>4. g[R] = h[R]
  <2>1. R \in SUBSET (S \cap R)
    BY <1>2
  <2> HIDE DEF R
  <2> QED  BY <1>1, <1>2, <1>3, <2>1, SumsAgree
<1>5. g[S] = f[First(S)] + g[R]
  BY <1>1 DEF Sums
<1> QED  BY <1>1, <1>3, <1>4, <1>5

\* Integers come to an integer.
LEMMA SumIsInteger ==
  ASSUME NEW f, NEW S, IsFiniteSet(S), Integral(f, S)
  PROVE  SumFunctionOnSet(f, S) \in Int
<1> DEFINE Good == {U \in SUBSET S : SumFunctionOnSet(f, U) \in Int}
<1>1. ASSUME NEW U \in SUBSET S, \A V \in SUBSET U : V # U => V \in Good
      PROVE  U \in Good
  <2>1. CASE U = {}
    BY <2>1, SumOfNothing
  <2>2. CASE U # {}
    <3>1. First(U) \in U /\ IsFiniteSet(U)
      BY <2>2, FirstOfSet, FS_Subset
    <3>2. SumFunctionOnSet(f, U \ {First(U)}) \in Int
      BY <1>1, <3>1
    <3>3. f[First(U)] \in Int
      BY <3>1 DEF Integral
    <3>4. SumFunctionOnSet(f, U) = f[First(U)] + SumFunctionOnSet(f, U \ {First(U)})
      BY <2>2, <3>1, SumFromFirst
    <3> QED  BY <3>2, <3>3, <3>4
  <2> QED  BY <2>1, <2>2
<1>2. S \in Good
  <2> HIDE DEF Good
  <2> QED  BY <1>1, StrongSubsetInduction
<1> QED  BY <1>2

\* Whichever element is taken apart, the sum is the same.
LEMMA SumFromAny ==
  ASSUME NEW f, NEW S, IsFiniteSet(S), Integral(f, S), NEW x \in S
  PROVE  SumFunctionOnSet(f, S) = f[x] + SumFunctionOnSet(f, S \ {x})
<1> DEFINE Good == {U \in SUBSET S :
                      \A y \in U : SumFunctionOnSet(f, U) = f[y] + SumFunctionOnSet(f, U \ {y})}
<1>1. ASSUME NEW U \in SUBSET S, \A V \in SUBSET U : V # U => V \in Good
      PROVE  U \in Good
  <2> SUFFICES ASSUME NEW y \in U
               PROVE  SumFunctionOnSet(f, U) = f[y] + SumFunctionOnSet(f, U \ {y})
    OBVIOUS
  <2> DEFINE p == First(U)
  <2>1. p \in U /\ IsFiniteSet(U)
    BY FirstOfSet, FS_Subset
  <2>2. SumFunctionOnSet(f, U) = f[p] + SumFunctionOnSet(f, U \ {p})
    BY <2>1, SumFromFirst
  <2> HIDE DEF p
  <2>3. CASE p = y
    BY <2>2, <2>3
  <2>4. CASE p # y
    <3>1. /\ U \ {p} \in Good /\ y \in U \ {p}
          /\ U \ {y} \in Good /\ p \in U \ {y}
      BY <1>1, <2>1, <2>4
    <3>2. /\ SumFunctionOnSet(f, U \ {p}) = f[y] + SumFunctionOnSet(f, (U \ {p}) \ {y})
          /\ SumFunctionOnSet(f, U \ {y}) = f[p] + SumFunctionOnSet(f, (U \ {y}) \ {p})
      BY <3>1
    <3>3. (U \ {p}) \ {y} = (U \ {y}) \ {p}
      OBVIOUS
    <3>4. /\ f[p] \in Int /\ f[y] \in Int
          /\ SumFunctionOnSet(f, (U \ {p}) \ {y}) \in Int
      <4>1. IsFiniteSet((U \ {p}) \ {y}) /\ Integral(f, (U \ {p}) \ {y})
        BY <2>1, FS_Subset DEF Integral
      <4> QED  BY <2>1, <4>1, SumIsInteger DEF Integral
    <3> DEFINE r == SumFunctionOnSet(f, (U \ {p}) \ {y})
    <3>5. /\ SumFunctionOnSet(f, U) = f[p] + (f[y] + r)
          /\ SumFunctionOnSet(f, U \ {y}) = f[p] + r
      BY <2>2, <3>2, <3>3
    <3>6. f[p] \in Int /\ f[y] \in Int /\ r \in Int
      BY <3>4
    <3> HIDE DEF r
    <3> QED  BY <3>5, <3>6
  <2> QED  BY <2>3, <2>4
<1>2. S \in Good
  <2> HIDE DEF Good
  <2> QED  BY <1>1, StrongSubsetInduction
<1> QED  BY <1>2

\* Sums of functions that are never more than c apart are c for each element apart.
LEMMA SumsApart ==
  ASSUME NEW f, NEW g, NEW S, IsFiniteSet(S), Integral(f, S), Integral(g, S),
         NEW c \in Int, \A x \in S : f[x] - g[x] <= c /\ g[x] - f[x] <= c
  PROVE  /\ SumFunctionOnSet(f, S) - SumFunctionOnSet(g, S) <= Cardinality(S) * c
         /\ SumFunctionOnSet(g, S) - SumFunctionOnSet(f, S) <= Cardinality(S) * c
<1> DEFINE F(U) == SumFunctionOnSet(f, U)
           H(U) == SumFunctionOnSet(g, U)
           Good == {U \in SUBSET S : /\ F(U) - H(U) <= Cardinality(U) * c
                                     /\ H(U) - F(U) <= Cardinality(U) * c}
<1>1. {} \in Good
  BY SumOfNothing, FS_EmptySet
<1>2. ASSUME NEW U \in SUBSET S, NEW x \in U, U \ {x} \in Good
      PROVE  U \in Good
  <2> DEFINE V == U \ {x}
  <2>1. IsFiniteSet(U) /\ Integral(f, U) /\ Integral(g, U)
    BY FS_Subset DEF Integral
  <2>2. IsFiniteSet(V) /\ Integral(f, V) /\ Integral(g, V)
    BY <2>1, FS_Subset DEF Integral
  <2>3. F(U) = f[x] + F(V) /\ H(U) = g[x] + H(V)
    BY <2>1, SumFromAny
  <2>4. F(V) \in Int /\ H(V) \in Int
    BY <2>2, SumIsInteger
  <2>5. f[x] \in Int /\ g[x] \in Int /\ f[x] - g[x] <= c /\ g[x] - f[x] <= c
    BY DEF Integral
  <2>6. Cardinality(U) = Cardinality(V) + 1 /\ Cardinality(V) \in Nat
    <3>1. Cardinality(V) = Cardinality(U) - 1
      BY <2>1, FS_RemoveElement
    <3>2. Cardinality(V) \in Nat /\ Cardinality(U) \in Nat
      BY <2>1, <2>2, FS_CardinalityType
    <3> QED  BY <3>1, <3>2
  <2>7. F(V) - H(V) <= Cardinality(V) * c /\ H(V) - F(V) <= Cardinality(V) * c
    BY <1>2
  <2>8. (Cardinality(V) + 1) * c = Cardinality(V) * c + c
    <3>1. \A n \in Nat : (n + 1) * c = n * c + c
      OBVIOUS
    <3> HIDE DEF V
    <3> QED  BY <2>6, <3>1
  <2>9. Cardinality(V) * c \in Int
    <3>1. \A n \in Nat : n * c \in Int
      OBVIOUS
    <3> HIDE DEF V
    <3> QED  BY <2>6, <3>1
  <2>10. Cardinality(U) * c = Cardinality(V) * c + c
    BY <2>6, <2>8
  <2>11. F(U) - H(U) <= Cardinality(U) * c /\ H(U) - F(U) <= Cardinality(U) * c
    <3> HIDE DEF F, H, V
    <3> DEFINE a == F(V) b == H(V) k == Cardinality(V) * c l == Cardinality(U) * c
               u == F(U) v == H(U)
    <3>1. /\ a \in Int /\ b \in Int /\ k \in Int /\ l = k + c /\ a - b <= k /\ b - a <= k
          /\ u = f[x] + a /\ v = g[x] + b
      BY <2>3, <2>4, <2>7, <2>9, <2>10
    <3> HIDE DEF a, b, k, l, u, v
    <3>2. u - v <= l /\ v - u <= l
      BY <3>1, <2>5
    <3> QED  BY <3>2 DEF u, v, l
  <2> QED  BY <2>11
<1>3. S \in Good
  <2> HIDE DEF Good
  <2> QED  BY <1>1, <1>2, SubsetInduction
<1> QED  BY <1>3

\* A sum of multiples is the multiple of the sum.
LEMMA SumScaled ==
  ASSUME NEW f, NEW g, NEW S, IsFiniteSet(S), Integral(f, S), NEW c \in Int,
         \A x \in S : g[x] = c * f[x]
  PROVE  SumFunctionOnSet(g, S) = c * SumFunctionOnSet(f, S)
<1> DEFINE F(U) == SumFunctionOnSet(f, U)
           H(U) == SumFunctionOnSet(g, U)
           Good == {U \in SUBSET S : H(U) = c * F(U)}
<1>1. \A a, b \in Int : c * (a + b) = c * a + c * b /\ c * a \in Int
  OBVIOUS
<1>2. {} \in Good
  <2>1. c * 0 = 0
    OBVIOUS
  <2> QED  BY <2>1, SumOfNothing
<1>3. ASSUME NEW U \in SUBSET S, NEW x \in U, U \ {x} \in Good
      PROVE  U \in Good
  <2> DEFINE V == U \ {x}
  <2>1. IsFiniteSet(U) /\ Integral(f, U) /\ IsFiniteSet(V) /\ Integral(f, V)
    BY FS_Subset DEF Integral
  <2>2. Integral(g, U)
    BY <1>1, <2>1 DEF Integral
  <2>3. F(U) = f[x] + F(V) /\ H(U) = g[x] + H(V)
    BY <2>1, <2>2, SumFromAny
  <2>4. F(V) \in Int /\ f[x] \in Int /\ g[x] = c * f[x]
    BY <2>1, SumIsInteger DEF Integral
  <2>5. H(V) = c * F(V)
    BY <1>3
  <2> HIDE DEF F, H, V
  <2>6. H(U) = c * F(U)
    BY <1>1, <2>3, <2>4, <2>5
  <2> QED  BY <2>6
<1>4. S \in Good
  <2> HIDE DEF Good
  <2> QED  BY <1>2, <1>3, SubsetInduction
<1> QED  BY <1>4

\* Elements taken in another way: the sum along a one-to-one f of the values at the
\* ends is the sum of the values at the starts.
LEMMA SumAlong ==
  ASSUME NEW f, NEW g, NEW S, IsFiniteSet(S), NEW p, DOMAIN p = S,
         \A x, y \in S : p[x] = p[y] => x = y,
         \A x \in S : g[x] = f[p[x]] /\ f[p[x]] \in Int,
         NEW T, \A x \in S : p[x] \in T, \A y \in T : \E x \in S : p[x] = y
  PROVE  SumFunctionOnSet(g, S) = SumFunctionOnSet(f, T)
<1> DEFINE Ends(U) == {p[x] : x \in U}
           Good == {U \in SUBSET S : /\ IsFiniteSet(Ends(U))
                                     /\ SumFunctionOnSet(g, U) = SumFunctionOnSet(f, Ends(U))}
<1>1. {} \in Good
  <2>1. Ends({}) = {}
    OBVIOUS
  <2> QED  BY <2>1, SumOfNothing, FS_EmptySet
<1>2. ASSUME NEW U \in SUBSET S, NEW x \in U, U \ {x} \in Good
      PROVE  U \in Good
  <2> DEFINE V == U \ {x}
  <2>1. /\ Ends(U) = Ends(V) \cup {p[x]}
        /\ Ends(U) \ {p[x]} = Ends(V)
        /\ p[x] \in Ends(U)
    OBVIOUS
  <2>2. IsFiniteSet(Ends(V)) /\ SumFunctionOnSet(g, V) = SumFunctionOnSet(f, Ends(V))
    BY <1>2
  <2>3. IsFiniteSet(U) /\ Integral(g, U) /\ Integral(f, Ends(U))
    BY FS_Subset DEF Integral
  <2>4. SumFunctionOnSet(g, U) = g[x] + SumFunctionOnSet(g, V)
    BY <2>3, SumFromAny
  <2> HIDE DEF Ends, V
  <2>5. IsFiniteSet(Ends(U))
    BY <2>1, <2>2, FS_AddElement
  <2>6. SumFunctionOnSet(f, Ends(U)) = f[p[x]] + SumFunctionOnSet(f, Ends(V))
    BY <2>1, <2>3, <2>5, SumFromAny
  <2> QED  BY <2>2, <2>4, <2>5, <2>6
<1>3. S \in Good
  <2> HIDE DEF Good
  <2> QED  BY <1>1, <1>2, SubsetInduction
<1>4. Ends(S) = T
  OBVIOUS
<1> QED  BY <1>3, <1>4

-----------------------------------------------------------------------------
(* Elements in the order of their numbers.                                 *)

\* Of finitely many elements one has the greatest number.
LEMMA Greatest ==
  ASSUME NEW k, NEW S, IsFiniteSet(S), S # {}, Integral(k, S)
  PROVE  \E m \in S : \A x \in S : k[x] <= k[m]
<1> DEFINE Good == {U \in SUBSET S : U # {} => \E m \in U : \A x \in U : k[x] <= k[m]}
<1>1. {} \in Good
  OBVIOUS
<1>2. ASSUME NEW U \in SUBSET S, NEW x \in U, U \ {x} \in Good
      PROVE  U \in Good
  <2>1. CASE U \ {x} = {}
    <3>1. \A y \in U : y = x
      BY <2>1
    <3>2. k[x] <= k[x]
      BY DEF Integral
    <3> QED  BY <3>1, <3>2
  <2>2. CASE U \ {x} # {}
    <3>1. PICK m \in U \ {x} : \A y \in U \ {x} : k[y] <= k[m]
      BY <1>2, <2>2
    <3>2. \A y \in U : k[y] \in Int
      BY DEF Integral
    <3>3. CASE k[x] <= k[m]
      BY <3>1, <3>3
    <3>4. CASE ~(k[x] <= k[m])
      <4>1. \A y \in U : k[y] <= k[x]
        BY <3>1, <3>2, <3>4
      <4> QED  BY <4>1
    <3> QED  BY <3>3, <3>4
  <2> QED  BY <2>1, <2>2
<1>3. S \in Good
  <2> HIDE DEF Good
  <2> QED  BY <1>1, <1>2, SubsetInduction
<1> QED  BY <1>3

\* p lists the elements of S, from the least to the greatest.
Ascending(k, S, p) ==
  /\ p \in [1..Cardinality(S) -> S]
  /\ \A x \in S : \E i \in 1..Cardinality(S) : p[i] = x
  /\ \A i, j \in 1..Cardinality(S) : i < j => k[p[i]] < k[p[j]]

\* Finitely many elements with different numbers can be listed so.
LEMMA AscendingExists ==
  ASSUME NEW k, NEW S, IsFiniteSet(S), Integral(k, S),
         \A x, y \in S : k[x] = k[y] => x = y
  PROVE  \E p : Ascending(k, S, p)
<1> DEFINE Good == {U \in SUBSET S : \E p : Ascending(k, U, p)}
<1>1. ASSUME NEW U \in SUBSET S, \A V \in SUBSET U : V # U => V \in Good
      PROVE  U \in Good
  <2>1. IsFiniteSet(U) /\ Integral(k, U)
    BY FS_Subset DEF Integral
  <2>2. CASE U = {}
    <3>1. Cardinality(U) = 0 /\ 1..0 = {}
      BY <2>2, FS_EmptySet
    <3>2. Ascending(k, U, [i \in 1..0 |-> i])
      BY <2>2, <3>1 DEF Ascending
    <3> QED  BY <3>2
  <2>3. CASE U # {}
    <3>1. PICK m \in U : \A x \in U : k[x] <= k[m]
      BY <2>1, <2>3, Greatest
    <3> DEFINE V == U \ {m}
               n == Cardinality(V)
    <3>2. IsFiniteSet(V) /\ n \in Nat /\ Cardinality(U) = n + 1
      <4>1. IsFiniteSet(V) /\ n = Cardinality(U) - 1
        BY <2>1, FS_RemoveElement
      <4>2. n \in Nat /\ Cardinality(U) \in Nat
        BY <2>1, <4>1, FS_CardinalityType
      <4> QED  BY <4>1, <4>2
    <3>3. PICK q : Ascending(k, V, q)
      BY <1>1
    <3> DEFINE p == [i \in 1..(n + 1) |-> IF i = n + 1 THEN m ELSE q[i]]
    <3>4. V = U \ {m} /\ m \in U /\ V \subseteq U
      OBVIOUS
    <3> HIDE DEF V, n
    <3>5. /\ q \in [1..n -> V]
          /\ \A x \in V : \E i \in 1..n : q[i] = x
          /\ \A i, j \in 1..n : i < j => k[q[i]] < k[q[j]]
      BY <3>3 DEF Ascending, n
    <3>6. \A i \in 1..n : i \in 1..(n + 1) /\ i # n + 1
      BY <3>2
    <3>7. n + 1 \in 1..(n + 1) /\ p[n + 1] = m
      BY <3>2
    <3>8. \A i \in 1..n : p[i] = q[i] /\ q[i] \in V
      BY <3>5, <3>6
    <3>9. \A i \in 1..(n + 1) : i = n + 1 \/ i \in 1..n
      BY <3>2
    <3>10. p \in [1..(n + 1) -> U]
      BY <3>4, <3>8, <3>9
    <3>11. \A x \in U : \E i \in 1..(n + 1) : p[i] = x
      BY <3>4, <3>5, <3>6, <3>7, <3>8
    <3>12. ASSUME NEW i \in 1..(n + 1), NEW j \in 1..(n + 1), i < j
           PROVE  k[p[i]] < k[p[j]]
      <4>1. i \in 1..n
        BY <3>2, <3>12
      <4>2. CASE j \in 1..n
        BY <3>5, <3>8, <3>12, <4>1, <4>2
      <4>3. CASE j = n + 1
        <5>1. p[i] \in U /\ p[i] # m /\ p[j] = m
          BY <3>4, <3>7, <3>8, <4>1, <4>3
        <5>2. k[p[i]] <= k[m] /\ k[p[i]] # k[m]
          BY <3>1, <3>4, <5>1
        <5>3. k[p[i]] \in Int /\ k[m] \in Int
          BY <5>1 DEF Integral
        <5> HIDE DEF p
        <5> QED  BY <5>1, <5>2, <5>3
      <4> QED  BY <3>9, <4>2, <4>3
    <3>13. Ascending(k, U, p)
      BY <3>2, <3>10, <3>11, <3>12 DEF Ascending
    <3> QED  BY <3>13
  <2> QED  BY <2>2, <2>3
<1>2. S \in Good
  <2> HIDE DEF Good
  <2> QED  BY <1>1, StrongSubsetInduction
<1> QED  BY <1>2

\* And in no other way.
LEMMA AscendingIsOne ==
  ASSUME NEW k, NEW S, IsFiniteSet(S), Integral(k, S),
         NEW p, Ascending(k, S, p), NEW q, Ascending(k, S, q)
  PROVE  p = q
<1> DEFINE n == Cardinality(S)
           D == 1..n
           Differ == {i \in D : p[i] # q[i]}
           minus == [i \in D |-> -i]
<1>1. n \in Nat
  BY FS_CardinalityType
<1>2. /\ p \in [D -> S] /\ q \in [D -> S]
      /\ \A x \in S : (\E i \in D : p[i] = x) /\ (\E i \in D : q[i] = x)
      /\ \A i, j \in D : i < j => k[p[i]] < k[p[j]] /\ k[q[i]] < k[q[j]]
  BY DEF Ascending
<1>3. \A x \in S : k[x] \in Int
  BY DEF Integral
<1>4. IsFiniteSet(Differ) /\ Integral(minus, Differ)
  <2>1. IsFiniteSet(D)
    <3> HIDE DEF n
    <3> QED  BY <1>1, FS_Interval
  <2>2. Differ \subseteq D
    OBVIOUS
  <2>3. \A i \in D : minus[i] \in Int
    BY <1>1
  <2> HIDE DEF Differ, D, minus
  <2> QED  BY <2>1, <2>2, <2>3, FS_Subset DEF Integral
<1>0. Differ = {} => p = q
  <2>1. Differ = {} => \A i \in D : p[i] = q[i]
    OBVIOUS
  <2> HIDE DEF D, Differ
  <2> QED  BY <1>2, <2>1
<1> SUFFICES ASSUME Differ # {}
             PROVE  FALSE
  BY <1>0
<1>5. PICK i \in Differ : \A j \in Differ : minus[j] <= minus[i]
  <2> HIDE DEF Differ, minus
  <2> QED  BY <1>4, Greatest
<1>6. \A j \in D : j < i => p[j] = q[j]
  <2> SUFFICES ASSUME NEW j \in D, j < i, p[j] # q[j]
               PROVE  FALSE
    OBVIOUS
  <2>1. minus[j] = -j /\ minus[i] = -i /\ j \in Differ
    OBVIOUS
  <2>2. -j <= -i /\ i \in Int /\ j \in Int
    BY <1>1, <1>5, <2>1
  <2> QED  BY <2>2
<1>7. i \in D /\ i \in Int /\ p[i] # q[i] /\ p[i] \in S /\ q[i] \in S
  BY <1>1, <1>2
<1>8. \A j \in D : j \in Int
  BY <1>1
<1> HIDE DEF D, Differ, minus
<1>9. PICK j \in D : q[j] = p[i]
  BY <1>2, <1>7
<1>10. PICK l \in D : p[l] = q[i]
  BY <1>2, <1>7
<1>11. k[q[i]] < k[p[i]]
  <2>1. ~(j < i)
    <3>1. j < i => p[j] = p[i] /\ k[p[j]] < k[p[i]]
      BY <1>2, <1>6, <1>7, <1>9
    <3> QED  BY <1>3, <1>7, <3>1
  <2>2. i < j
    BY <1>7, <1>8, <1>9, <2>1
  <2> QED  BY <1>2, <1>7, <1>9, <2>2
<1>12. k[p[i]] < k[q[i]]
  <2>1. ~(l < i)
    <3>1. l < i => q[l] = q[i] /\ k[q[l]] < k[q[i]]
      BY <1>2, <1>6, <1>7, <1>10
    <3> QED  BY <1>3, <1>7, <3>1
  <2>2. i < l
    BY <1>7, <1>8, <1>10, <2>1
  <2> QED  BY <1>2, <1>7, <1>10, <2>2
<1> QED  BY <1>3, <1>7, <1>11, <1>12

-----------------------------------------------------------------------------
(* Folds.                                                                  *)

\* A function that folds the elements of seq at the places of a subset of S, each time
\* that of pick, with T, as the definition of a fold says.
FoldOf(T, base, seq, pick, S, g) ==
  g = [s \in SUBSET S |->
         IF s = {} THEN base ELSE T[<<g[s \ {pick[s]}], seq[pick[s]]>>]]

\* pick takes an element of each subset.
Picks(pick, S) == \A s \in SUBSET S : s # {} => pick[s] \in s

\* Two of them agree where they are both defined.
LEMMA FoldsAgree ==
  ASSUME NEW T, NEW base, NEW seq, NEW pick, NEW A, NEW B, NEW g, NEW h,
         FoldOf(T, base, seq, pick, A, g), FoldOf(T, base, seq, pick, B, h),
         Picks(pick, A), NEW s \in SUBSET (A \cap B), IsFiniteSet(s)
  PROVE  g[s] = h[s]
<1> DEFINE Good == {U \in SUBSET s : g[U] = h[U]}
<1>1. ASSUME NEW U \in SUBSET s, \A V \in SUBSET U : V # U => V \in Good
      PROVE  U \in Good
  <2>1. CASE U = {}
    BY <2>1 DEF FoldOf
  <2>2. CASE U # {}
    <3>1. pick[U] \in U
      BY <2>2 DEF Picks
    <3>2. g[U \ {pick[U]}] = h[U \ {pick[U]}]
      BY <1>1, <3>1
    <3>3. /\ g[U] = T[<<g[U \ {pick[U]}], seq[pick[U]]>>]
          /\ h[U] = T[<<h[U \ {pick[U]}], seq[pick[U]]>>]
      BY <2>2 DEF FoldOf
    <3> QED  BY <3>2, <3>3
  <2> QED  BY <2>1, <2>2
<1>2. s \in Good
  <2> HIDE DEF Good
  <2> QED  BY <1>1, StrongSubsetInduction
<1> QED  BY <1>2

\* On a finite set there is one.
LEMMA FoldExists ==
  ASSUME NEW T, NEW base, NEW seq, NEW pick, NEW S, IsFiniteSet(S), Picks(pick, S)
  PROVE  \E g : FoldOf(T, base, seq, pick, S, g)
<1> DEFINE Good == {U \in SUBSET S : \E g : FoldOf(T, base, seq, pick, U, g)}
<1>1. ASSUME NEW U \in SUBSET S, \A V \in SUBSET U : V # U => V \in Good
      PROVE  U \in Good
  <2> DEFINE G(V) == CHOOSE g : FoldOf(T, base, seq, pick, V, g)
             R(V) == V \ {pick[V]}
             below(V) == IF V = {} THEN base ELSE T[<<G(R(V))[R(V)], seq[pick[V]]>>]
             h == [V \in SUBSET U |-> below(V)]
  <2>1. \A V \in SUBSET U : V # U => FoldOf(T, base, seq, pick, V, G(V))
    BY <1>1
  <2>2. \A V \in SUBSET U : Picks(pick, V)
    BY DEF Picks
  <2> HIDE DEF G
  <2>3. ASSUME NEW V \in SUBSET U, V # {}
        PROVE  G(R(V))[R(V)] = h[R(V)]
    <3> DEFINE W == R(V)
    <3>1. pick[V] \in V /\ W \in SUBSET U /\ W # U
      BY <2>2, <2>3 DEF Picks
    <3>2. CASE W = {}
      <4>1. FoldOf(T, base, seq, pick, W, G(W))
        BY <2>1, <3>1
      <4>2. h[{}] = base
        <5>1. {} \in SUBSET U /\ below({}) = base
          OBVIOUS
        <5> HIDE DEF below
        <5> QED  BY <5>1
      <4> HIDE DEF W, h
      <4>3. G(W)[W] = base
        BY <3>2, <4>1 DEF FoldOf
      <4>4. G(W)[W] = h[W]
        BY <3>2, <4>2, <4>3
      <4> QED  BY <4>4 DEF W
    <3>3. CASE W # {}
      <4> DEFINE Q == R(W)
      <4>1. pick[W] \in W /\ Q \in SUBSET W /\ Q \in SUBSET U /\ Q # U
        BY <2>2, <3>1, <3>3 DEF Picks
      <4>2. FoldOf(T, base, seq, pick, W, G(W)) /\ FoldOf(T, base, seq, pick, Q, G(Q))
        BY <2>1, <3>1, <4>1
      <4>3. IsFiniteSet(Q)
        BY FS_Subset, <4>1
      <4>4. G(W)[Q] = G(Q)[Q]
        <5>1. Q \in SUBSET (W \cap Q) /\ Picks(pick, W)
          BY <2>2, <3>1, <4>1
        <5> HIDE DEF Q, W
        <5> QED  BY <5>1, <4>2, <4>3, FoldsAgree
      <4>5. G(W)[W] = T[<<G(W)[Q], seq[pick[W]]>>]
        BY <3>3, <4>2 DEF FoldOf
      <4>6. h[W] = T[<<G(Q)[Q], seq[pick[W]]>>]
        BY <3>1, <3>3
      <4> QED  BY <4>4, <4>5, <4>6
    <3> QED  BY <3>2, <3>3
  <2>4. FoldOf(T, base, seq, pick, U, h)
    BY <2>3 DEF FoldOf
  <2> QED  BY <2>4
<1>2. S \in Good
  <2> HIDE DEF Good
  <2> QED  BY <1>1, StrongSubsetInduction
<1> QED  BY <1>2

\* What a fold starts in and does not leave holds all of its values.
LEMMA FoldKept ==
  ASSUME NEW T, NEW base, NEW seq, NEW pick, NEW S, IsFiniteSet(S), Picks(pick, S),
         NEW g, FoldOf(T, base, seq, pick, S, g), NEW X, base \in X,
         \A x \in X, i \in S : T[<<x, seq[i]>>] \in X
  PROVE  g[S] \in X /\ \A s \in SUBSET S : g[s] \in X
<1> DEFINE Good == {U \in SUBSET S : g[U] \in X}
<1>1. ASSUME NEW R \in SUBSET S
      PROVE  g[R] \in X
  <2>1. ASSUME NEW U \in SUBSET R, \A V \in SUBSET U : V # U => V \in Good
        PROVE  U \in Good
    <3>1. CASE U = {}
      BY <3>1 DEF FoldOf
    <3>2. CASE U # {}
      <4>1. pick[U] \in U
        BY <3>2 DEF Picks
      <4>2. g[U \ {pick[U]}] \in X
        BY <2>1, <4>1
      <4>3. g[U] = T[<<g[U \ {pick[U]}], seq[pick[U]]>>]
        BY <3>2 DEF FoldOf
      <4> QED  BY <4>1, <4>2, <4>3
    <3> QED  BY <3>1, <3>2
  <2>2. IsFiniteSet(R)
    BY FS_Subset
  <2>3. R \in Good
    <3> HIDE DEF Good
    <3> QED  BY <2>1, <2>2, StrongSubsetInduction
  <2> QED  BY <2>3
<1> QED  BY <1>1

\* What one of the elements brings about, and no other takes away, is there in the end.
LEMMA FoldGives ==
  ASSUME NEW T, NEW base, NEW seq, NEW pick, NEW S, IsFiniteSet(S), Picks(pick, S),
         NEW g, FoldOf(T, base, seq, pick, S, g), NEW X, base \in X,
         \A x \in X, i \in S : T[<<x, seq[i]>>] \in X,
         NEW Y, \A x \in Y, i \in S : T[<<x, seq[i]>>] \in Y,
         NEW one \in S, \A x \in X : T[<<x, seq[one]>>] \in Y
  PROVE  g[S] \in Y
<1> DEFINE Good == {U \in SUBSET S : one \in U => g[U] \in Y}
<1> \A U \in SUBSET S : g[U] \in X
  BY FoldKept
<1>1. ASSUME NEW U \in SUBSET S, \A V \in SUBSET U : V # U => V \in Good
      PROVE  U \in Good
  <2>1. CASE one \in U
    <3>1. pick[U] \in U
      BY <2>1 DEF Picks
    <3>2. g[U \ {pick[U]}] \in X
      OBVIOUS
    <3>3. g[U] = T[<<g[U \ {pick[U]}], seq[pick[U]]>>]
      BY <2>1 DEF FoldOf
    <3>4. CASE pick[U] = one
      BY <3>2, <3>3, <3>4
    <3>5. CASE pick[U] # one
      <4>1. g[U \ {pick[U]}] \in Y
        BY <1>1, <2>1, <3>1, <3>5
      <4> QED  BY <3>1, <3>3, <4>1
    <3> QED  BY <3>4, <3>5
  <2> QED  BY <2>1
<1>2. S \in Good
  <2> HIDE DEF Good
  <2> QED  BY <1>1, StrongSubsetInduction
<1> QED  BY <1>2

\* What is defined step by step as the fold is, for as long as it stays in X, is the fold.
LEMMA FoldFrom ==
  ASSUME NEW T, NEW base, NEW seq, NEW pick, NEW S, IsFiniteSet(S), Picks(pick, S),
         NEW X, base \in X, \A x \in X, i \in S : T[<<x, seq[i]>>] \in X,
         NEW g, g = [s \in SUBSET S |-> g[s]], g[{}] = base,
         \A s \in SUBSET S : s # {} /\ g[s \ {pick[s]}] \in X =>
           g[s] = T[<<g[s \ {pick[s]}], seq[pick[s]]>>]
  PROVE  FoldOf(T, base, seq, pick, S, g)
<1> DEFINE Good == {U \in SUBSET S : g[U] \in X}
<1>1. ASSUME NEW R \in SUBSET S
      PROVE  g[R] \in X
  <2>1. ASSUME NEW U \in SUBSET R, \A V \in SUBSET U : V # U => V \in Good
        PROVE  U \in Good
    <3>1. CASE U = {}
      BY <3>1
    <3>2. CASE U # {}
      <4>1. pick[U] \in U
        BY <3>2 DEF Picks
      <4>2. g[U \ {pick[U]}] \in X
        BY <2>1, <4>1
      <4>3. g[U] = T[<<g[U \ {pick[U]}], seq[pick[U]]>>]
        BY <3>2, <4>2
      <4> QED  BY <4>1, <4>2, <4>3
    <3> QED  BY <3>1, <3>2
  <2>2. IsFiniteSet(R)
    BY FS_Subset
  <2>3. R \in Good
    <3> HIDE DEF Good
    <3> QED  BY <2>1, <2>2, StrongSubsetInduction
  <2> QED  BY <2>3
<1>2. ASSUME NEW s \in SUBSET S
      PROVE  g[s] = IF s = {} THEN base ELSE T[<<g[s \ {pick[s]}], seq[pick[s]]>>]
  <2>1. s \ {pick[s]} \in SUBSET S
    OBVIOUS
  <2> QED  BY <1>1, <2>1
<1> QED  BY <1>2 DEF FoldOf

=============================================================================
