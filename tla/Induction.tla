----------------------------- MODULE Induction -----------------------------
(***************************************************************************)
(* Induction on the natural numbers and sums over finite sets, in a form   *)
(* without operator parameters: the other proofs cite these lemmas for     *)
(* what a recursive definition computes.                                   *)
(***************************************************************************)
EXTENDS Integers, FiniteSets, FiniteSetTheorems, WellFoundedInduction, Functions, TLAPS

\* A nonempty set of natural numbers has a least element.
LEMMA NatMin ==
  ASSUME NEW T, T \subseteq Nat, T # {}
  PROVE  \E x \in T : \A y \in T : ~(y < x)
<1> DEFINE R == {ss \in Nat \X Nat : ss[1] < ss[2]}
<1>1. IsWellFoundedOn(R, Nat)
  BY NatLessThanWellFounded, Zenon DEF OpToRel
<1>2. \A a, b \in Nat : a < b => <<a, b>> \in R
  OBVIOUS
<1> HIDE DEF R
<1>3. PICK x \in T : \A y \in T : ~ (<<y, x>> \in R)
  BY <1>1, WFMin
<1>4. \A y \in T : ~(y < x)
  BY <1>2, <1>3
<1> QED BY <1>4

\* A set that holds 0 and with each number the next holds them all.
LEMMA NatInduct ==
  ASSUME NEW S, 0 \in S, \A n \in Nat : n \in S => n + 1 \in S
  PROVE  Nat \subseteq S
<1> SUFFICES ASSUME Nat \ S # {} PROVE FALSE
  OBVIOUS
<1>1. PICK m \in Nat \ S : \A y \in Nat \ S : ~(y < m)
  BY NatMin
<1>2. m # 0 /\ m - 1 \in Nat /\ m - 1 \in S
  BY <1>1
<1> QED BY <1>2

\* Subsets of a finite set, from the smaller to the larger: what holds of a
\* set once it holds of the set without any one of its elements holds of all.
LEMMA SubsetInduct ==
  ASSUME NEW S, IsFiniteSet(S), NEW P,
         \A T \in SUBSET S : (\A x \in T : T \ {x} \in P) => T \in P
  PROVE  SUBSET S \subseteq P
<1> DEFINE N == {n \in Nat : \A T \in SUBSET S : Cardinality(T) = n => T \in P}
<1>1. \A T \in SUBSET S : IsFiniteSet(T) /\ Cardinality(T) \in Nat
  BY FS_Subset, FS_CardinalityType
<1>2. 0 \in N
  <2> SUFFICES ASSUME NEW T \in SUBSET S, Cardinality(T) = 0 PROVE T \in P
    OBVIOUS
  <2>1. T = {}
    BY <1>1, FS_EmptySet
  <2> QED BY <2>1
<1>3. ASSUME NEW n \in Nat, n \in N
      PROVE  n + 1 \in N
  <2> SUFFICES ASSUME NEW T \in SUBSET S, Cardinality(T) = n + 1 PROVE T \in P
    OBVIOUS
  <2>1. ASSUME NEW x \in T
        PROVE  T \ {x} \in P
    <3>1. Cardinality(T \ {x}) = n
      BY <1>1, FS_RemoveElement
    <3> QED BY <1>3, <3>1
  <2> QED BY <2>1
<1> HIDE DEF N
<1>4. Nat \subseteq N
  BY <1>2, <1>3, NatInduct
<1> QED BY <1>1, <1>4 DEF N

---------------------------------------------------------------------------
(* Sums                                                                    *)

Sum(f, S) == FoldFunctionOnSet(+, 0, f, S)

First(s) == CHOOSE x \in s : TRUE

\* The sums over the subsets of S, as the fold computes them.
Sums(f, S, sum) ==
  sum = [s \in SUBSET S |-> IF s = {} THEN 0 ELSE f[First(s)] + sum[s \ {First(s)}]]

\* A sum is one of the functions that Sums describes.
LEMMA SumIsOne ==
  ASSUME NEW f, NEW S, \E sum : Sums(f, S, sum)
  PROVE  \E sum : Sums(f, S, sum) /\ Sum(f, S) = sum[S]
<1> DEFINE T == CHOOSE sum : Sums(f, S, sum)
<1>1. Sums(f, S, T)
  OBVIOUS
<1>2. Sum(f, S) = T[S]
  BY DEF Sum, FoldFunctionOnSet, MapThenFoldSet, Sums, First
<1> QED BY <1>1, <1>2

\* The first element of a set is in it.
LEMMA FirstIsIn ==
  ASSUME NEW s, s # {}
  PROVE  First(s) \in s
BY DEF First

\* Sums over one set and over a larger one agree.
LEMMA SumsAgree ==
  ASSUME NEW f, NEW S, IsFiniteSet(S), NEW R, S \subseteq R,
         NEW a, Sums(f, S, a), NEW b, Sums(f, R, b)
  PROVE  \A s \in SUBSET S : a[s] = b[s]
<1> DEFINE P == {T \in SUBSET S : a[T] = b[T]}
<1>1. ASSUME NEW T \in SUBSET S, \A x \in T : T \ {x} \in P
      PROVE  T \in P
  <2>1. CASE T = {}
    BY <2>1 DEF Sums
  <2>2. CASE T # {}
    <3>1. a[T \ {First(T)}] = b[T \ {First(T)}]
      BY <1>1, <2>2, FirstIsIn
    <3>2. a[T] = f[First(T)] + a[T \ {First(T)}]
      BY <2>2 DEF Sums
    <3>3. b[T] = f[First(T)] + b[T \ {First(T)}]
      BY <2>2 DEF Sums
    <3> QED BY <3>1, <3>2, <3>3
  <2> QED BY <2>1, <2>2
<1> HIDE DEF P
<1>2. SUBSET S \subseteq P
  BY <1>1, SubsetInduct
<1> QED BY <1>2 DEF P

\* A finite set has its sums.
LEMMA SumsExist ==
  ASSUME NEW f, NEW S, IsFiniteSet(S)
  PROVE  \E sum : Sums(f, S, sum)
<1> DEFINE Upto(n, g) ==
             \A s \in SUBSET S : Cardinality(s) <= n =>
               g[s] = IF s = {} THEN 0 ELSE f[First(s)] + g[s \ {First(s)}]
           N == {n \in Nat : \E g : Upto(n, g)}
<1>1. \A T \in SUBSET S : IsFiniteSet(T) /\ Cardinality(T) \in Nat
  BY FS_Subset, FS_CardinalityType
<1>2. \A T \in SUBSET S : T # {} =>
        /\ T \ {First(T)} \in SUBSET S
        /\ Cardinality(T \ {First(T)}) = Cardinality(T) - 1
  BY <1>1, FirstIsIn, FS_RemoveElement
<1>3. 0 \in N
  <2>1. \A T \in SUBSET S : Cardinality(T) <= 0 => T = {}
    BY <1>1, FS_EmptySet
  <2>2. Upto(0, [s \in SUBSET S |-> 0])
    BY <2>1
  <2> QED BY <2>2
<1>4. ASSUME NEW n \in Nat, n \in N
      PROVE  n + 1 \in N
  <2>1. PICK g : Upto(n, g)
    BY <1>4
  <2> DEFINE h == [s \in SUBSET S |->
                     IF s = {} THEN 0 ELSE f[First(s)] + g[s \ {First(s)}]]
  <2>2. \A s \in SUBSET S : Cardinality(s) <= n => h[s] = g[s]
    BY <2>1
  <2>3. ASSUME NEW s \in SUBSET S, Cardinality(s) <= n + 1
        PROVE  h[s] = IF s = {} THEN 0 ELSE f[First(s)] + h[s \ {First(s)}]
    <3>1. CASE s = {}
      BY <3>1
    <3>2. CASE s # {}
      <4>1. s \ {First(s)} \in SUBSET S /\ Cardinality(s \ {First(s)}) <= n
        BY <1>1, <1>2, <2>3, <3>2
      <4>2. h[s \ {First(s)}] = g[s \ {First(s)}]
        BY <2>2, <4>1
      <4> QED BY <3>2, <4>2
    <3> QED BY <3>1, <3>2
  <2>4. Upto(n + 1, h)
    BY <2>3
  <2> HIDE DEF Upto, h
  <2> QED BY <2>4
<1>5. Nat \subseteq N
  <2> HIDE DEF N
  <2> QED BY <1>3, <1>4, NatInduct
<1>6. Cardinality(S) \in Nat /\ \A T \in SUBSET S : Cardinality(T) <= Cardinality(S)
  BY <1>1, FS_Subset
<1>7. PICK g : Upto(Cardinality(S), g)
  BY <1>5, <1>6
<1> DEFINE sum == [s \in SUBSET S |-> g[s]]
<1>8. ASSUME NEW s \in SUBSET S
      PROVE  sum[s] = IF s = {} THEN 0 ELSE f[First(s)] + sum[s \ {First(s)}]
  BY <1>2, <1>6, <1>7
<1>9. sum = [s \in SUBSET S |-> sum[s]]
  OBVIOUS
<1> HIDE DEF sum
<1>10. Sums(f, S, sum)
  BY <1>8, <1>9 DEF Sums
<1> QED BY <1>10

\* What the fold computes, one element at a time.
LEMMA SumUnfolds ==
  ASSUME NEW f, NEW S, IsFiniteSet(S)
  PROVE  /\ S = {} => Sum(f, S) = 0
         /\ S # {} => /\ First(S) \in S
                      /\ Sum(f, S) = f[First(S)] + Sum(f, S \ {First(S)})
<1>1. PICK a : Sums(f, S, a) /\ Sum(f, S) = a[S]
  BY SumsExist, SumIsOne
<1>2. ASSUME S = {} PROVE Sum(f, S) = 0
  BY <1>1, <1>2 DEF Sums
<1>3. ASSUME S # {} PROVE Sum(f, S) = f[First(S)] + Sum(f, S \ {First(S)})
  <2> DEFINE R == S \ {First(S)}
  <2>1. IsFiniteSet(R)
    BY FS_RemoveElement
  <2>2. PICK b : Sums(f, R, b) /\ Sum(f, R) = b[R]
    BY <2>1, SumsExist, SumIsOne
  <2>3. b[R] = a[R]
    <3>1. R \subseteq S /\ R \in SUBSET R
      OBVIOUS
    <3> HIDE DEF R
    <3> QED BY <1>1, <2>1, <2>2, <3>1, SumsAgree
  <2>4. a[S] = f[First(S)] + a[R]
    BY <1>1, <1>3 DEF Sums
  <2> QED BY <1>1, <2>2, <2>3, <2>4
<1> QED BY <1>2, <1>3, FirstIsIn

\* Sums of whole numbers are whole numbers, sums of natural ones natural.
LEMMA SumTyped ==
  ASSUME NEW f, NEW S, IsFiniteSet(S), NEW V \in {Int, Nat}, \A x \in S : f[x] \in V
  PROVE  Sum(f, S) \in V
<1> DEFINE P == {T \in SUBSET S : Sum(f, T) \in V}
<1>1. ASSUME NEW T \in SUBSET S, \A x \in T : T \ {x} \in P
      PROVE  T \in P
  <2>1. IsFiniteSet(T)
    BY FS_Subset
  <2>2. CASE T = {}
    <3>1. Sum(f, T) = 0
      BY <2>1, <2>2, SumUnfolds
    <3> QED BY <3>1
  <2>3. CASE T # {}
    <3>1. First(T) \in T /\ Sum(f, T) = f[First(T)] + Sum(f, T \ {First(T)})
      BY <2>1, <2>3, SumUnfolds
    <3>2. Sum(f, T \ {First(T)}) \in V /\ f[First(T)] \in V
      BY <1>1, <3>1
    <3> QED BY <3>1, <3>2
  <2> QED BY <2>2, <2>3
<1> HIDE DEF P
<1>2. SUBSET S \subseteq P
  BY <1>1, SubsetInduct
<1> QED BY <1>2 DEF P

\* The order does not matter: any element may be taken out.
LEMMA SumRemove ==
  ASSUME NEW f, NEW S, IsFiniteSet(S), \A x \in S : f[x] \in Int, NEW x \in S
  PROVE  Sum(f, S) = f[x] + Sum(f, S \ {x})
<1> DEFINE P == {T \in SUBSET S : \A y \in T : Sum(f, T) = f[y] + Sum(f, T \ {y})}
<1>1. \A T \in SUBSET S : IsFiniteSet(T) /\ Sum(f, T) \in Int
  BY FS_Subset, SumTyped
<1>2. ASSUME NEW T \in SUBSET S, \A y \in T : T \ {y} \in P
      PROVE  T \in P
  <2> SUFFICES ASSUME NEW y \in T PROVE Sum(f, T) = f[y] + Sum(f, T \ {y})
    OBVIOUS
  <2> DEFINE p == First(T)
             R == T \ {p, y}
  <2>1. p \in T /\ Sum(f, T) = f[p] + Sum(f, T \ {p})
    BY <1>1, SumUnfolds
  <2>2. CASE y = p
    BY <2>1, <2>2
  <2>3. CASE y # p
    <3>1. y \in T \ {p} /\ (T \ {p}) \ {y} = R /\ p \in T \ {y} /\ (T \ {y}) \ {p} = R
      BY <2>1, <2>3
    <3> HIDE DEF R, p
    <3>2. Sum(f, T \ {p}) = f[y] + Sum(f, R)
      BY <1>2, <2>1, <3>1
    <3>3. Sum(f, T \ {y}) = f[p] + Sum(f, R)
      BY <1>2, <3>1
    <3>4. f[p] \in Int /\ f[y] \in Int /\ Sum(f, R) \in Int
      BY <1>1, <2>1 DEF R
    <3> QED BY <2>1, <3>2, <3>3, <3>4
  <2> QED BY <2>2, <2>3
<1> HIDE DEF P
<1>3. SUBSET S \subseteq P
  BY <1>2, SubsetInduct
<1> QED BY <1>3 DEF P

\* Equal terms have equal sums.
LEMMA SumCongruent ==
  ASSUME NEW S, IsFiniteSet(S), NEW f, NEW g, \A x \in S : f[x] = g[x]
  PROVE  Sum(f, S) = Sum(g, S)
<1> DEFINE P == {T \in SUBSET S : Sum(f, T) = Sum(g, T)}
<1>1. ASSUME NEW T \in SUBSET S, \A x \in T : T \ {x} \in P
      PROVE  T \in P
  <2>1. IsFiniteSet(T)
    BY FS_Subset
  <2>2. CASE T = {}
    <3>1. Sum(f, T) = 0 /\ Sum(g, T) = 0
      BY <2>1, <2>2, SumUnfolds
    <3> QED BY <3>1
  <2>3. CASE T # {}
    <3>1. First(T) \in T /\ Sum(f, T) = f[First(T)] + Sum(f, T \ {First(T)})
      BY <2>1, <2>3, SumUnfolds
    <3>2. Sum(g, T) = g[First(T)] + Sum(g, T \ {First(T)})
      BY <2>1, <2>3, SumUnfolds
    <3>3. Sum(f, T \ {First(T)}) = Sum(g, T \ {First(T)}) /\ f[First(T)] = g[First(T)]
      BY <1>1, <3>1
    <3> QED BY <3>1, <3>2, <3>3
  <2> QED BY <2>2, <2>3
<1> HIDE DEF P
<1>2. SUBSET S \subseteq P
  BY <1>1, SubsetInduct
<1> QED BY <1>2 DEF P

\* A sum of terms below a bound is below the bound taken once for each of them.
LEMMA SumBounded ==
  ASSUME NEW f, NEW S, IsFiniteSet(S), \A x \in S : f[x] \in Int,
         NEW b \in Int, \A x \in S : f[x] <= b
  PROVE  Sum(f, S) <= Cardinality(S) * b
<1> DEFINE P == {T \in SUBSET S : Sum(f, T) <= Cardinality(T) * b}
<1>1. ASSUME NEW T \in SUBSET S, \A x \in T : T \ {x} \in P
      PROVE  T \in P
  <2>1. IsFiniteSet(T) /\ Cardinality(T) \in Nat
    BY FS_Subset, FS_CardinalityType
  <2>2. CASE T = {}
    <3>1. Sum(f, T) = 0 /\ Cardinality(T) = 0
      BY <2>1, <2>2, SumUnfolds, FS_EmptySet
    <3>2. 0 * b = 0
      OBVIOUS
    <3> QED BY <3>1, <3>2
  <2>3. CASE T # {}
    <3>1. PICK x : x = First(T)
      OBVIOUS
    <3>2. PICK R : R = T \ {x}
      OBVIOUS
    <3>3. x \in T /\ Sum(f, T) = f[x] + Sum(f, R)
      BY <2>1, <2>3, <3>1, <3>2, SumUnfolds
    <3>4. IsFiniteSet(R) /\ Cardinality(R) = Cardinality(T) - 1 /\ Cardinality(R) \in Nat
      BY <2>1, <3>2, <3>3, FS_RemoveElement, FS_CardinalityType
    <3>5. Sum(f, R) <= Cardinality(R) * b
      BY <1>1, <3>2, <3>3
    <3>6. Sum(f, R) \in Int /\ f[x] \in Int /\ f[x] <= b
      BY <3>2, <3>3, <3>4, SumTyped
    <3>7. \A n \in Nat : (n - 1) * b = n * b - b /\ n * b \in Int
      OBVIOUS
    <3>8. Cardinality(R) * b = Cardinality(T) * b - b /\ Cardinality(T) * b \in Int
      BY <2>1, <3>4, <3>7
    <3>9. Sum(f, T) <= Cardinality(T) * b
      BY <3>3, <3>5, <3>6, <3>8
    <3> QED BY <3>9
  <2> QED BY <2>2, <2>3
<1> HIDE DEF P
<1>2. SUBSET S \subseteq P
  BY <1>1, SubsetInduct
<1> QED BY <1>2 DEF P

\* What a function makes of a finite set is finite.
LEMMA ImageFinite ==
  ASSUME NEW S, IsFiniteSet(S), NEW f
  PROVE  IsFiniteSet({f[x] : x \in S})
<1> DEFINE g == [x \in S |-> f[x]]
           T == {f[x] : x \in S}
<1>1. g \in Surjection(S, T)
  BY DEF Surjection
<1> HIDE DEF g, T
<1>2. IsFiniteSet(T)
  BY <1>1, FS_Surjection
<1> QED BY <1>2 DEF T

\* A sum over two sets without a common element.
LEMMA SumDisjoint ==
  ASSUME NEW f, NEW A, NEW B, IsFiniteSet(A), IsFiniteSet(B), A \cap B = {},
         \A x \in A \cup B : f[x] \in Int
  PROVE  Sum(f, A \cup B) = Sum(f, A) + Sum(f, B)
<1> DEFINE P == {T \in SUBSET B : Sum(f, A \cup T) = Sum(f, A) + Sum(f, T)}
<1>1. \A T \in SUBSET B : IsFiniteSet(T) /\ IsFiniteSet(A \cup T)
  BY FS_Subset, FS_Union
<1>2. Sum(f, A) \in Int /\ \A T \in SUBSET B : Sum(f, T) \in Int
  BY <1>1, SumTyped
<1>3. ASSUME NEW T \in SUBSET B, \A x \in T : T \ {x} \in P
      PROVE  T \in P
  <2>1. CASE T = {}
    <3>1. Sum(f, T) = 0
      BY <1>1, <2>1, SumUnfolds
    <3>2. A \cup T = A
      BY <2>1
    <3>3. Sum(f, A \cup T) = Sum(f, A) + Sum(f, T)
      <4>1. Sum(f, A) + Sum(f, T) = Sum(f, A)
        BY <1>2, <3>1
      <4> QED BY <3>2, <4>1, Zenon
    <3> QED BY <3>3
  <2>2. CASE T # {}
    <3>1. PICK x \in T : TRUE
      BY <2>2
    <3>2. Sum(f, T) = f[x] + Sum(f, T \ {x})
      <4>1. \A y \in T : f[y] \in Int
        OBVIOUS
      <4>2. IsFiniteSet(T)
        BY <1>1
      <4> QED BY <4>1, <4>2, SumRemove
    <3>3. Sum(f, A \cup T) = f[x] + Sum(f, (A \cup T) \ {x})
      <4> DEFINE W == A \cup T
      <4>1. IsFiniteSet(W) /\ x \in W /\ \A y \in W : f[y] \in Int
        BY <1>1
      <4> HIDE DEF W
      <4>2. Sum(f, W) = f[x] + Sum(f, W \ {x})
        BY <4>1, SumRemove
      <4> QED BY <4>2 DEF W
    <3>4. (A \cup T) \ {x} = A \cup (T \ {x})
      OBVIOUS
    <3>5. Sum(f, A \cup (T \ {x})) = Sum(f, A) + Sum(f, T \ {x})
      BY <1>3, <3>1
    <3>6. f[x] \in Int /\ Sum(f, T \ {x}) \in Int
      BY <1>2
    <3>7. Sum(f, A \cup T) = Sum(f, A) + Sum(f, T)
      BY <1>2, <3>2, <3>3, <3>4, <3>5, <3>6
    <3> QED BY <3>7
  <2> QED BY <2>1, <2>2
<1> HIDE DEF P
<1>4. SUBSET B \subseteq P
  BY <1>3, SubsetInduct
<1> QED BY <1>4 DEF P

\* The groups of the labels in L share out S.
Grouped(S, L, group) ==
  /\ \A l \in L : group[l] \subseteq S /\ group[l] # {}
  /\ \A x \in S : \E l \in L : x \in group[l]
  /\ \A k, l \in L : k # l => group[k] \cap group[l] = {}

\* A sum in parts, one for each group.
LEMMA SumParts ==
  ASSUME NEW S, IsFiniteSet(S), NEW f, \A x \in S : f[x] \in Int,
         NEW L, NEW group, Grouped(S, L, group),
         NEW parts, \A l \in L : parts[l] = Sum(f, group[l])
  PROVE  IsFiniteSet(L) /\ (\A l \in L : parts[l] \in Int) /\ Sum(parts, L) = Sum(f, S)
<1> DEFINE label == [x \in S |-> CHOOSE l \in L : x \in group[l]]
           Part(K) == {x \in S : label[x] \in K}
           P == {K \in SUBSET L : Sum(parts, K) = Sum(f, Part(K))}
<1>1. /\ \A x \in S : label[x] \in L /\ x \in group[label[x]]
      /\ \A l \in L : \A x \in S : x \in group[l] => label[x] = l
      /\ \A l \in L : \E x \in S : x \in group[l]
      /\ \A l \in L : group[l] \subseteq S
  BY DEF Grouped
<1> HIDE DEF label
<1>2. IsFiniteSet(L)
  <2>1. IsFiniteSet({label[x] : x \in S})
    BY ImageFinite
  <2>2. {label[x] : x \in S} = L
    BY <1>1
  <2> QED BY <2>1, <2>2
<1>3. \A K \in SUBSET L : IsFiniteSet(K) /\ IsFiniteSet(Part(K)) /\ Part(K) \subseteq S
  BY <1>2, FS_Subset
<1>4. ASSUME NEW T \in SUBSET S PROVE Sum(f, T) \in Int
  BY FS_Subset, SumTyped
<1>5. ASSUME NEW l \in L
      PROVE  parts[l] = Sum(f, Part({l})) /\ parts[l] \in Int
  <2>1. Part({l}) = group[l]
    BY <1>1
  <2> QED BY <1>4, <2>1
<1>6. ASSUME NEW K \in SUBSET L, \A l \in K : K \ {l} \in P
      PROVE  K \in P
  <2>1. CASE K = {}
    <3>1. Part(K) = {}
      BY <2>1
    <3> HIDE DEF Part
    <3>2. Sum(parts, K) = 0
      BY <1>3, <2>1, SumUnfolds
    <3>3. Sum(f, Part(K)) = 0
      BY <1>3, <3>1, SumUnfolds
    <3> QED BY <3>2, <3>3
  <2>2. CASE K # {}
    <3>1. PICK l \in K : TRUE
      BY <2>2
    <3>2. Sum(parts, K) = parts[l] + Sum(parts, K \ {l})
      <4>1. IsFiniteSet(K) /\ \A k \in K : parts[k] \in Int
        BY <1>3, <1>5
      <4> QED BY <4>1, SumRemove
    <3>3. Sum(parts, K \ {l}) = Sum(f, Part(K \ {l}))
      BY <1>6, <3>1
    <3>4. /\ Part({l}) \cup Part(K \ {l}) = Part(K)
          /\ Part({l}) \cap Part(K \ {l}) = {}
      OBVIOUS
    <3>5. {l} \in SUBSET L /\ K \ {l} \in SUBSET L
      OBVIOUS
    <3> HIDE DEF Part
    <3>6. /\ IsFiniteSet(Part({l})) /\ IsFiniteSet(Part(K \ {l}))
          /\ \A x \in Part({l}) \cup Part(K \ {l}) : f[x] \in Int
      BY <1>3, <3>5
    <3>7. Sum(f, Part({l}) \cup Part(K \ {l})) = Sum(f, Part({l})) + Sum(f, Part(K \ {l}))
      <4> DEFINE one == Part({l})
                 rest == Part(K \ {l})
      <4>1. /\ IsFiniteSet(one) /\ IsFiniteSet(rest) /\ one \cap rest = {}
            /\ \A x \in one \cup rest : f[x] \in Int
        BY <3>4, <3>6
      <4> HIDE DEF one, rest
      <4>2. Sum(f, one \cup rest) = Sum(f, one) + Sum(f, rest)
        BY <4>1, SumDisjoint
      <4> QED BY <4>2 DEF one, rest
    <3>8. parts[l] = Sum(f, Part({l}))
      BY <1>5, <3>1
    <3>9. Sum(f, Part(K)) = Sum(f, Part({l})) + Sum(f, Part(K \ {l}))
      BY <3>4, <3>7, Zenon
    <3>10. Sum(parts, K) = Sum(f, Part(K))
      BY <3>2, <3>3, <3>8, <3>9
    <3> QED BY <3>10
  <2> QED BY <2>1, <2>2
<1> HIDE DEF P
<1>7. SUBSET L \subseteq P
  <2>1. \A K \in SUBSET L : (\A l \in K : K \ {l} \in P) => K \in P
    BY <1>6
  <2> QED BY <1>2, <2>1, SubsetInduct
<1>8. Sum(parts, L) = Sum(f, Part(L))
  <2>1. L \in P
    BY <1>7
  <2> QED BY <2>1 DEF P
<1>9. Part(L) = S
  BY <1>1
<1> QED BY <1>2, <1>5, <1>8, <1>9

\* Of n things, m weigh a and the others b.
Weighed(a, m, b, n) == a * m + b * (n - m)

\* A weighted count is a sum: the elements of T weigh a, the others b.
LEMMA SumCounts ==
  ASSUME NEW S, IsFiniteSet(S), NEW T \in SUBSET S, NEW a \in Int, NEW b \in Int,
         NEW f, \A x \in S : f[x] = IF x \in T THEN a ELSE b
  PROVE  Sum(f, S) = Weighed(a, Cardinality(T), b, Cardinality(S))
<1> DEFINE P == {U \in SUBSET S : Sum(f, U) = a * Cardinality(U \cap T) + b * Cardinality(U \ T)}
<1>1. \A U \in SUBSET S : /\ IsFiniteSet(U) /\ IsFiniteSet(U \cap T) /\ IsFiniteSet(U \ T)
                          /\ Cardinality(U \cap T) \in Nat /\ Cardinality(U \ T) \in Nat
  BY FS_Subset, FS_CardinalityType
<1>2. ASSUME NEW U \in SUBSET S, \A x \in U : U \ {x} \in P
      PROVE  U \in P
  <2>1. CASE U = {}
    <3>1. Sum(f, U) = 0
      BY <1>1, <2>1, SumUnfolds
    <3>2. U \cap T = {} /\ U \ T = {}
      BY <2>1
    <3>3. Cardinality(U \cap T) = 0 /\ Cardinality(U \ T) = 0
      BY <3>2, FS_EmptySet
    <3> QED BY <3>1, <3>3
  <2>2. CASE U # {}
    <3>1. PICK x \in U : TRUE
      BY <2>2
    <3> DEFINE R == U \ {x}
    <3>2. Sum(f, U) = f[x] + Sum(f, R)
      <4>1. IsFiniteSet(U) /\ \A y \in U : f[y] \in Int
        BY <1>1
      <4> QED BY <4>1, SumRemove
    <3>3. Sum(f, R) = a * Cardinality(R \cap T) + b * Cardinality(R \ T)
      BY <1>2, <3>1
    <3>4. /\ Cardinality(R \cap T) \in Nat /\ Cardinality(R \ T) \in Nat
          /\ Cardinality(U \cap T) \in Nat /\ Cardinality(U \ T) \in Nat
      BY <1>1
    <3>5. CASE x \in T
      <4>1. R \cap T = (U \cap T) \ {x} /\ x \in U \cap T /\ R \ T = U \ T
        BY <3>5
      <4> HIDE DEF R
      <4>2. Cardinality(R \cap T) = Cardinality(U \cap T) - 1
        <5>1. IsFiniteSet(U \cap T)
          BY <1>1
        <5>2. Cardinality((U \cap T) \ {x}) = Cardinality(U \cap T) - 1
          BY <4>1, <5>1, FS_RemoveElement
        <5> QED BY <4>1, <5>2
      <4>3. f[x] = a
        BY <3>5
      <4>4. \A m, n \in Nat : m = n - 1 => a + a * m = a * n
        OBVIOUS
      <4>5. a + a * Cardinality(R \cap T) = a * Cardinality(U \cap T)
        BY <3>4, <4>2, <4>4
      <4>6. Sum(f, U) = a * Cardinality(U \cap T) + b * Cardinality(U \ T)
        <5> DEFINE p == a * Cardinality(R \cap T)
                   q == b * Cardinality(U \ T)
                   w == a * Cardinality(U \cap T)
        <5>1. p \in Int /\ q \in Int
          BY <3>4
        <5>2. Sum(f, U) = a + (p + q) /\ a + p = w
          BY <3>2, <3>3, <4>1, <4>3, <4>5
        <5> HIDE DEF p, q, w
        <5>3. Sum(f, U) = w + q
          BY <5>1, <5>2
        <5> QED BY <5>3 DEF w, q
      <4> QED BY <4>6
    <3>6. CASE x \notin T
      <4>1. R \ T = (U \ T) \ {x} /\ x \in U \ T /\ R \cap T = U \cap T
        BY <3>6
      <4> HIDE DEF R
      <4>2. Cardinality(R \ T) = Cardinality(U \ T) - 1
        <5>1. IsFiniteSet(U \ T)
          BY <1>1
        <5>2. Cardinality((U \ T) \ {x}) = Cardinality(U \ T) - 1
          BY <4>1, <5>1, FS_RemoveElement
        <5> QED BY <4>1, <5>2
      <4>3. f[x] = b
        BY <3>6
      <4>4. \A m, n \in Nat : m = n - 1 => b + b * m = b * n
        OBVIOUS
      <4>5. b + b * Cardinality(R \ T) = b * Cardinality(U \ T)
        BY <3>4, <4>2, <4>4
      <4>6. Sum(f, U) = a * Cardinality(U \cap T) + b * Cardinality(U \ T)
        <5> DEFINE p == a * Cardinality(U \cap T)
                   q == b * Cardinality(R \ T)
                   w == b * Cardinality(U \ T)
        <5>1. p \in Int /\ q \in Int
          BY <3>4
        <5>2. Sum(f, U) = b + (p + q) /\ b + q = w
          BY <3>2, <3>3, <4>1, <4>3, <4>5
        <5> HIDE DEF p, q, w
        <5>3. Sum(f, U) = p + w
          BY <5>1, <5>2
        <5> QED BY <5>3 DEF p, w
      <4> QED BY <4>6
    <3> QED BY <3>5, <3>6
  <2> QED BY <2>1, <2>2
<1> HIDE DEF P
<1>3. S \in P
  BY <1>2, SubsetInduct
<1>4. Sum(f, S) = a * Cardinality(S \cap T) + b * Cardinality(S \ T)
  BY <1>3 DEF P
<1>5. S \cap T = T
  OBVIOUS
<1>6. Cardinality(S \ T) = Cardinality(S) - Cardinality(S \cap T)
  BY FS_Difference
<1> QED BY <1>4, <1>5, <1>6 DEF Weighed

---------------------------------------------------------------------------
(* Ranks                                                                   *)

\* In a finite set whose elements have different values, the number of elements
\* of a greater value is a rank: every rank is some element's, and a greater
\* value has the smaller rank.
LEMMA Ranked ==
  ASSUME NEW S, IsFiniteSet(S), NEW v, \A x \in S : v[x] \in Int,
         \A x, y \in S : v[x] = v[y] => x = y
  PROVE  LET rank(x) == Cardinality({y \in S : v[y] > v[x]}) IN
         /\ Cardinality(S) \in Nat
         /\ \A x \in S : rank(x) \in Nat
         /\ \A i \in 1 .. Cardinality(S) : \E x \in S : rank(x) = i - 1
         /\ \A x, y \in S : rank(x) < rank(y) => v[x] > v[y]
         /\ \A x, y \in S : v[x] > v[y] => rank(x) < rank(y)
<1> DEFINE above(x) == {y \in S : v[y] > v[x]}
           rank(x) == Cardinality(above(x))
           n == Cardinality(S)
           f == [x \in S |-> rank(x) + 1]
<1>1. n \in Nat
  BY FS_CardinalityType
<1>2. ASSUME NEW x \in S
      PROVE  IsFiniteSet(above(x)) /\ rank(x) \in Nat /\ x \notin above(x) /\ rank(x) + 1 <= n
  <2>1. above(x) \subseteq S /\ x \notin above(x)
    OBVIOUS
  <2> HIDE DEF above
  <2>2. IsFiniteSet(above(x)) /\ rank(x) \in Nat
    BY <2>1, FS_Subset, FS_CardinalityType
  <2>3. Cardinality(above(x) \cup {x}) = rank(x) + 1
    BY <2>1, <2>2, FS_AddElement
  <2>4. Cardinality(above(x) \cup {x}) <= n
    BY <2>1, FS_Subset
  <2> QED BY <2>1, <2>2, <2>3, <2>4
<1>3. ASSUME NEW x \in S, NEW y \in S, v[x] > v[y]
      PROVE  rank(x) + 1 <= rank(y)
  <2>1. above(x) \cup {x} \subseteq above(y)
    BY <1>3
  <2> HIDE DEF above
  <2>2. Cardinality(above(x) \cup {x}) = rank(x) + 1
    BY <1>2, FS_AddElement
  <2>3. Cardinality(above(x) \cup {x}) <= Cardinality(above(y))
    BY <1>2, <2>1, FS_Subset
  <2> QED BY <2>2, <2>3
<1>9. \A x \in S : rank(x) \in Nat /\ rank(x) + 1 <= n
  BY <1>2
<1>10. \A x, y \in S : v[x] > v[y] => rank(x) + 1 <= rank(y)
  BY <1>3
<1>11. f = [x \in S |-> rank(x) + 1]
  OBVIOUS
<1> HIDE DEF above, rank, n, f
<1>4. f \in Injection(S, 1 .. n)
  <2>1. f \in [S -> 1 .. n]
    BY <1>1, <1>9, <1>11
  <2>2. ASSUME NEW x \in S, NEW y \in S, f[x] = f[y]
        PROVE  x = y
    <3>1. rank(x) = rank(y)
      BY <1>9, <1>11, <2>2
    <3>2. ~(v[x] > v[y]) /\ ~(v[y] > v[x])
      BY <1>9, <1>10, <3>1
    <3> QED BY <3>2
  <2> QED BY <2>1, <2>2 DEF Injection, IsInjective
<1>5. IsFiniteSet(1 .. n) /\ Cardinality(1 .. n) = n
  BY <1>1, FS_Interval
<1>6. f \in Surjection(S, 1 .. n)
  <2> QED BY <1>4, <1>5, FS_Injection DEF n
<1>7. \A i \in 1 .. n : \E x \in S : rank(x) = i - 1
  <2> SUFFICES ASSUME NEW i \in 1 .. n PROVE \E x \in S : rank(x) = i - 1
    OBVIOUS
  <2>1. PICK x \in S : f[x] = i
    <3> QED BY <1>6 DEF Surjection
  <2>2. rank(x) = i - 1
    BY <1>1, <1>9, <1>11, <2>1
  <2> QED BY <2>2
<1>8. \A x, y \in S : rank(x) < rank(y) => v[x] > v[y]
  <2> SUFFICES ASSUME NEW x \in S, NEW y \in S, rank(x) < rank(y) PROVE v[x] > v[y]
    OBVIOUS
  <2>1. CASE v[y] > v[x]
    BY <1>9, <1>10, <2>1
  <2>2. CASE v[y] = v[x]
    <3>1. x = y
      BY <2>2
    <3> QED BY <1>9, <3>1
  <2> QED BY <2>1, <2>2
<1>12. \A x, y \in S : v[x] > v[y] => rank(x) < rank(y)
  BY <1>9, <1>10
<1> QED BY <1>1, <1>7, <1>8, <1>9, <1>12 DEF above, rank, n

\* How many elements of a set have a greater value than one of them.
Ahead(S, v, x) == Cardinality({y \in S : v[y] > v[x]})

\* Elements of a set taken by rank, so many of them.
ByRank(S, v, size, q) ==
  \A k \in 1 .. size : \A x \in S :
    Ahead(S, v, x) = k - 1 => q[k] \in S /\ Ahead(S, v, q[k]) = k - 1

\* They come in order, and those left out have smaller values.
TopOnes(S, v, size, q) ==
  /\ \A k \in 1 .. size : q[k] \in S
  /\ \A k, l \in 1 .. size : k < l => v[q[k]] > v[q[l]]
  /\ \A x \in S : (\E k \in 1 .. size : q[k] = x) \/ \A k \in 1 .. size : v[q[k]] > v[x]
  /\ size = Cardinality(S) => \A x \in S : \E k \in 1 .. size : q[k] = x

LEMMA TakenByRank ==
  ASSUME NEW S, IsFiniteSet(S), NEW v, \A x \in S : v[x] \in Int,
         \A x, y \in S : v[x] = v[y] => x = y,
         NEW size \in Nat, size <= Cardinality(S), NEW q, ByRank(S, v, size, q)
  PROVE  TopOnes(S, v, size, q)
<1> DEFINE rank(x) == Cardinality({y \in S : v[y] > v[x]})
<1>1. /\ Cardinality(S) \in Nat
      /\ \A x \in S : rank(x) \in Nat
      /\ \A i \in 1 .. Cardinality(S) : \E x \in S : rank(x) = i - 1
      /\ \A x, y \in S : rank(x) < rank(y) => v[x] > v[y]
      /\ \A x, y \in S : v[x] > v[y] => rank(x) < rank(y)
  BY Ranked
<1>2. \A k \in 1 .. size : \A x \in S : rank(x) = k - 1 => q[k] \in S /\ rank(q[k]) = k - 1
  BY DEF Ahead, ByRank
<1> HIDE DEF rank
<1>3. ASSUME NEW k \in 1 .. size
      PROVE  q[k] \in S /\ rank(q[k]) = k - 1
  <2>1. k \in 1 .. Cardinality(S)
    BY <1>1
  <2>2. \E x \in S : rank(x) = k - 1
    BY <1>1, <2>1
  <2> QED BY <1>2, <2>2
<1>4. ASSUME NEW k \in 1 .. size, NEW l \in 1 .. size, k < l
      PROVE  v[q[k]] > v[q[l]]
  <2>1. rank(q[k]) = k - 1 /\ rank(q[l]) = l - 1
    BY <1>3
  <2>2. rank(q[k]) < rank(q[l])
    BY <1>4, <2>1
  <2> QED BY <1>1, <1>3, <2>2
<1>5. ASSUME NEW x \in S, rank(x) < size
      PROVE  \E k \in 1 .. size : q[k] = x
  <2> DEFINE k == rank(x) + 1
  <2>1. k \in 1 .. size /\ k - 1 = rank(x)
    BY <1>1, <1>5
  <2> HIDE DEF k
  <2>2. q[k] \in S /\ rank(q[k]) = rank(x)
    BY <1>3, <2>1
  <2>3. ~(v[q[k]] > v[x]) /\ ~(v[x] > v[q[k]])
    BY <1>1, <2>2
  <2>4. v[q[k]] \in Int /\ v[x] \in Int
    BY <2>2
  <2>5. v[q[k]] = v[x]
    BY <2>3, <2>4
  <2>6. q[k] = x
    BY <2>2, <2>5
  <2> QED BY <2>1, <2>6
<1>6. ASSUME NEW x \in S, ~\E k \in 1 .. size : q[k] = x, NEW k \in 1 .. size
      PROVE  v[q[k]] > v[x]
  <2>1. ~(rank(x) < size)
    BY <1>5, <1>6
  <2>2. q[k] \in S /\ rank(q[k]) = k - 1 /\ rank(x) \in Nat
    BY <1>1, <1>3
  <2>3. rank(q[k]) < rank(x)
    BY <2>1, <2>2
  <2> QED BY <1>1, <2>2, <2>3
<1>7. ASSUME size = Cardinality(S), NEW x \in S
      PROVE  \E k \in 1 .. size : q[k] = x
  <2>1. CASE rank(x) < size
    BY <1>5, <2>1
  <2>2. CASE ~(rank(x) < size)
    <3>1. IsFiniteSet({y \in S : v[y] > v[x]}) /\ {y \in S : v[y] > v[x]} \subseteq S
      BY FS_Subset
    <3>2. {y \in S : v[y] > v[x]} # S
      OBVIOUS
    <3>3. Cardinality({y \in S : v[y] > v[x]}) <= Cardinality(S)
          /\ Cardinality({y \in S : v[y] > v[x]}) # Cardinality(S)
      BY <3>1, <3>2, FS_Subset
    <3>4. rank(x) <= Cardinality(S) /\ rank(x) # Cardinality(S) /\ rank(x) \in Nat
      BY <1>1, <3>3 DEF rank
    <3> QED BY <1>1, <1>7, <2>2, <3>4
  <2> QED BY <2>1, <2>2
<1> QED BY <1>3, <1>4, <1>6, <1>7 DEF TopOnes

============================================================================
