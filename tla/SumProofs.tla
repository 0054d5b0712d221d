------------------------------ MODULE SumProofs ------------------------------
(***************************************************************************)
(* The laws of sums over finite sets that the proofs about money and about *)
(* call counts rest on.  The models write a sum as a fold of the community *)
(* modules, which is a recursive function on the subsets of the set; what  *)
(* it computes follows from the well-foundedness of the proper subsets of  *)
(* a finite set.                                                           *)
(* Induction over the naturals is here too, for the other recursions.      *)
(***************************************************************************)
EXTENDS FiniteSetsExt, FiniteSetTheorems, TLAPS

\* The sum of f[x] over the elements x of S.
SumOver(f, S) == MapThenSumSet(LAMBDA x : f[x], S)

\* The element the fold takes out of a set, and the recursion it follows.
Pick(s) == CHOOSE x \in s : TRUE
Adds(f, g, s) == IF s = {} THEN 0 ELSE f[Pick(s)] + g[s \ {Pick(s)}]
IsSum(g, f, S) == g = [s \in SUBSET S |-> Adds(f, g, s)]

\* Induction over the subsets of a finite set, for a set of good ones: a set is
\* good when all its proper subsets are.
LEMMA SubsetInduction ==
  ASSUME NEW S, IsFiniteSet(S), NEW Good,
         \A T \in SUBSET S : (\A U \in SUBSET T : U # T => U \in Good) => T \in Good
  PROVE  \A T \in SUBSET S : T \in Good
<1> DEFINE Bad == (SUBSET S) \ Good
<1> SUFFICES ASSUME Bad # {} PROVE FALSE
  OBVIOUS
<1>1. IsWellFoundedOn(StrictSubsetOrdering(S), FiniteSubsetsOf(S))
  BY FS_StrictSubsetOrderingWellFounded
<1>2. Bad \subseteq FiniteSubsetsOf(S)
  BY FS_FiniteSubsetsOfFinite
<1>3. \E T \in Bad : \A U \in Bad : ~ (<<U, T>> \in StrictSubsetOrdering(S))
  <2> HIDE DEF Bad
  <2> QED
    BY <1>1, <1>2, WFMin
<1>4. PICK T \in Bad : \A U \in Bad : ~ (<<U, T>> \in StrictSubsetOrdering(S))
  BY <1>3
<1>5. \A U \in SUBSET T : U # T => U \in Good
  BY <1>4 DEF StrictSubsetOrdering
<1> QED
  BY <1>4, <1>5

\* Induction over the natural numbers, for a set of good ones.
LEMMA NumberInduction ==
  ASSUME NEW Good, 0 \in Good, \A n \in Nat : n \in Good => n + 1 \in Good
  PROVE  \A n \in Nat : n \in Good
<1> DEFINE Bad == Nat \ Good
<1> SUFFICES ASSUME Bad # {}
             PROVE  FALSE
  OBVIOUS
<1>1. \E n \in Bad : \A m \in Bad : ~ (<<m, n>> \in OpToRel(<, Nat))
  <2>1. Bad \subseteq Nat
    OBVIOUS
  <2> HIDE DEF Bad
  <2> QED
    BY <2>1, NatLessThanWellFounded, WFMin
<1>2. PICK n \in Bad : \A m \in Bad : ~ (<<m, n>> \in OpToRel(<, Nat))
  BY <1>1
<1>3. n \in Nat /\ n \notin Good /\ n # 0
  BY <1>2
<1>4. n - 1 \in Nat /\ (n - 1) + 1 = n /\ n - 1 < n
  BY <1>3
<1>5. n - 1 \in Bad
  BY <1>3, <1>4
<1>6. <<n - 1, n>> \in OpToRel(<, Nat)
  BY <1>3, <1>4 DEF OpToRel
<1> QED
  BY <1>2, <1>5, <1>6

\* The element the recursion takes out of a set is in it.
LEMMA PickIn == \A s : s # {} => Pick(s) \in s
BY DEF Pick

\* The sum is the last value of the recursion that the fold is defined by.
LEMMA SumDef ==
  ASSUME NEW f, NEW S
  PROVE  SumOver(f, S) = (CHOOSE g : IsSum(g, f, S))[S]
BY Zenon DEF SumOver, MapThenSumSet, MapThenFoldSet, IsSum, Adds, Pick

\* The recursion has one solution, whatever set it is started from, and it looks
\* at the function on that set alone.
LEMMA SumUnique ==
  ASSUME NEW S, NEW f, NEW g, IsSum(g, f, S), NEW V \in SUBSET S, IsFiniteSet(V),
         NEW e, NEW h, IsSum(h, e, V), \A x \in V : f[x] = e[x]
  PROVE  g[V] = h[V]
<1> DEFINE Good == {U \in SUBSET V : g[U] = h[U]}
<1>1. ASSUME NEW U \in SUBSET V, \A W \in SUBSET U : W # U => W \in Good
      PROVE  U \in Good
  <2>1. g[U] = Adds(f, g, U) /\ h[U] = Adds(e, h, U)
    BY DEF IsSum
  <2>2. CASE U = {}
    BY <2>1, <2>2 DEF Adds
  <2>3. CASE U # {}
    <3>1. Pick(U) \in U
      BY <2>3, PickIn
    <3>2. U \ {Pick(U)} \in Good
      BY <1>1, <3>1
    <3>3. f[Pick(U)] = e[Pick(U)]
      BY <3>1
    <3> QED
      BY <2>1, <2>3, <3>2, <3>3 DEF Adds
  <2> QED
    BY <2>2, <2>3
<1> HIDE DEF Good
<1>2. V \in Good
  BY <1>1, SubsetInduction
<1> QED
  BY <1>2 DEF Good

\* The recursion has a solution on every finite set.
LEMMA SumExists ==
  ASSUME NEW S, IsFiniteSet(S), NEW f
  PROVE  \E g : IsSum(g, f, S)
<1> DEFINE Good == {T \in SUBSET S : \E g : IsSum(g, f, T)}
<1>1. ASSUME NEW T \in SUBSET S, \A U \in SUBSET T : U # T => U \in Good
      PROVE  T \in Good
  <2> DEFINE sum(U) == CHOOSE h : IsSum(h, f, U)
             g == [s \in SUBSET T |-> IF s = {} THEN 0
                      ELSE f[Pick(s)] + sum(s \ {Pick(s)})[s \ {Pick(s)}]]
  <2>1. \A U \in SUBSET T : U # T => IsSum(sum(U), f, U)
    BY <1>1
  <2>2. ASSUME NEW U \in SUBSET T, U # T PROVE g[U] = sum(U)[U]
    <3>1. sum(U)[U] = Adds(f, sum(U), U)
      <4> DEFINE h == sum(U)
      <4>1. IsSum(h, f, U)
        BY <2>1, <2>2
      <4> HIDE DEF h
      <4>2. h[U] = Adds(f, h, U)
        BY <4>1 DEF IsSum
      <4> QED
        BY <4>2 DEF h
    <3>2. CASE U = {}
      BY <3>1, <3>2 DEF Adds
    <3>3. CASE U # {}
      <4> DEFINE V == U \ {Pick(U)}
                 h == sum(U)
                 k == sum(V)
      <4>1. Pick(U) \in U
        BY <3>3, PickIn
      <4>2. IsSum(h, f, U) /\ IsSum(k, f, V)
        BY <2>1, <2>2, <4>1
      <4>3. IsFiniteSet(V)
        BY FS_Subset
      <4>4. V \in SUBSET U
        OBVIOUS
      <4>5. h[V] = k[V]
        <5> HIDE DEF h, k, V
        <5> QED
          BY <4>2, <4>3, <4>4, SumUnique
      <4>6. h[U] = f[Pick(U)] + h[V]
        BY <3>1, <3>3 DEF Adds
      <4>7. g[U] = f[Pick(U)] + k[V]
        BY <3>3
      <4> HIDE DEF g, k, V
      <4> QED
        BY <4>5, <4>6, <4>7
    <3> QED
      BY <3>2, <3>3
  <2>3. ASSUME NEW s \in SUBSET T PROVE g[s] = Adds(f, g, s)
    <3>1. CASE s = {}
      BY <3>1 DEF Adds
    <3>2. CASE s # {}
      <4> DEFINE V == s \ {Pick(s)}
      <4>1. V \in SUBSET T /\ V # T
        BY <3>2, PickIn
      <4>2. g[V] = sum(V)[V]
        BY <2>2, <4>1
      <4>3. g[s] = f[Pick(s)] + sum(V)[V]
        BY <3>2
      <4> HIDE DEF g, sum
      <4> QED
        BY <3>2, <4>2, <4>3 DEF Adds
    <3> QED
      BY <3>1, <3>2
  <2>4. DOMAIN g = SUBSET T
    OBVIOUS
  <2>5. g = [s \in SUBSET T |-> g[s]]
    OBVIOUS
  <2> HIDE DEF g
  <2>6. g = [s \in SUBSET T |-> Adds(f, g, s)]
    BY <2>3, <2>5
  <2> QED
    BY <2>6 DEF IsSum
<1> HIDE DEF Good
<1>2. S \in Good
  BY <1>1, SubsetInduction
<1> QED
  BY <1>2 DEF Good

\* A solution for a set holds the sums over all its subsets.
LEMMA SumIs ==
  ASSUME NEW S, IsFiniteSet(S), NEW f, NEW g, IsSum(g, f, S), NEW T \in SUBSET S
  PROVE  SumOver(f, T) = g[T]
<1> DEFINE h == CHOOSE k : IsSum(k, f, T)
<1>1. IsFiniteSet(T)
  BY FS_Subset
<1>2. IsSum(h, f, T)
  BY <1>1, SumExists
<1>3. SumOver(f, T) = h[T]
  BY SumDef
<1> HIDE DEF h
<1>5. h[T] = g[T]
  BY <1>1, <1>2, SumUnique
<1> QED
  BY <1>3, <1>5

-----------------------------------------------------------------------------
\* A sum depends on the values of the function on the set, and on no others.
LEMMA SumSame ==
  ASSUME NEW S, IsFiniteSet(S), NEW f, NEW e, \A x \in S : f[x] = e[x]
  PROVE  SumOver(f, S) = SumOver(e, S)
<1>1. PICK g : IsSum(g, f, S)
  BY SumExists
<1>2. PICK h : IsSum(h, e, S)
  BY SumExists
<1>3. g[S] = h[S]
  <2>1. S \in SUBSET S
    OBVIOUS
  <2> QED
    BY <1>1, <1>2, <2>1, SumUnique
<1> QED
  BY <1>1, <1>2, <1>3, SumIs

\* Nothing sums to 0.
LEMMA SumEmpty == \A f : SumOver(f, {}) = 0
<1> SUFFICES ASSUME NEW f PROVE SumOver(f, {}) = 0
  OBVIOUS
<1>1. IsFiniteSet({})
  BY FS_EmptySet
<1>2. PICK g : IsSum(g, f, {})
  BY <1>1, SumExists
<1>3. SumOver(f, {}) = g[{}]
  BY <1>1, <1>2, SumIs
<1> QED
  BY <1>2, <1>3 DEF IsSum, Adds

\* One step of the recursion.
LEMMA SumPick ==
  ASSUME NEW S, IsFiniteSet(S), S # {}, NEW f
  PROVE  SumOver(f, S) = f[Pick(S)] + SumOver(f, S \ {Pick(S)})
<1>1. PICK g : IsSum(g, f, S)
  BY SumExists
<1>2. SumOver(f, S) = g[S] /\ SumOver(f, S \ {Pick(S)}) = g[S \ {Pick(S)}]
  BY <1>1, SumIs
<1>3. g[S] = Adds(f, g, S)
  BY <1>1 DEF IsSum
<1> QED
  BY <1>2, <1>3 DEF Adds

\* A sum of numbers is a number.
LEMMA SumType ==
  ASSUME NEW S, IsFiniteSet(S), NEW f, NEW Number,
         0 \in Number, \A a, b \in Number : a + b \in Number,
         \A x \in S : f[x] \in Number
  PROVE  SumOver(f, S) \in Number
<1> DEFINE Good == {T \in SUBSET S : SumOver(f, T) \in Number}
<1>1. ASSUME NEW T \in SUBSET S, \A U \in SUBSET T : U # T => U \in Good
      PROVE  T \in Good
  <2>1. CASE T = {}
    <3>1. SumOver(f, {}) = 0
      BY SumEmpty
    <3> QED
      BY <2>1, <3>1
  <2>2. CASE T # {}
    <3>1. Pick(T) \in T
      BY <2>2, PickIn
    <3>2. SumOver(f, T \ {Pick(T)}) \in Number
      BY <1>1, <3>1
    <3>3. IsFiniteSet(T)
      BY FS_Subset
    <3>4. SumOver(f, T) = f[Pick(T)] + SumOver(f, T \ {Pick(T)})
      BY <2>2, <3>3, SumPick
    <3> QED
      BY <3>1, <3>2, <3>4
  <2> QED
    BY <2>1, <2>2
<1> HIDE DEF Good
<1>2. S \in Good
  BY <1>1, SubsetInduction
<1> QED
  BY <1>2 DEF Good

\* A sum of integers is an integer.
LEMMA SumInt ==
  ASSUME NEW S, IsFiniteSet(S), NEW f, \A x \in S : f[x] \in Int
  PROVE  SumOver(f, S) \in Int
<1>1. 0 \in Int /\ \A a, b \in Int : a + b \in Int
  OBVIOUS
<1> QED
  BY <1>1, SumType

\* A sum of naturals is a natural.
LEMMA SumNat ==
  ASSUME NEW S, IsFiniteSet(S), NEW f, \A x \in S : f[x] \in Nat
  PROVE  SumOver(f, S) \in Nat
<1>1. 0 \in Nat /\ \A a, b \in Nat : a + b \in Nat
  OBVIOUS
<1> QED
  BY <1>1, SumType

\* A sum of zeros is 0.
LEMMA SumZero ==
  ASSUME NEW S, IsFiniteSet(S), NEW f, \A x \in S : f[x] = 0
  PROVE  SumOver(f, S) = 0
<1>1. 0 \in {0} /\ \A a, b \in {0} : a + b \in {0}
  OBVIOUS
<1>2. \A x \in S : f[x] \in {0}
  OBVIOUS
<1>3. SumOver(f, S) \in {0}
  BY <1>1, <1>2, SumType
<1> QED
  BY <1>3

-----------------------------------------------------------------------------
\* Any element may be taken out first: the choice the fold makes is immaterial.
LEMMA SumRemove ==
  ASSUME NEW S, IsFiniteSet(S), NEW f, \A x \in S : f[x] \in Int, NEW x \in S
  PROVE  SumOver(f, S) = f[x] + SumOver(f, S \ {x})
<1> DEFINE Good == {T \in SUBSET S :
                      \A y \in T : SumOver(f, T) = f[y] + SumOver(f, T \ {y})}
<1>1. ASSUME NEW T \in SUBSET S, \A U \in SUBSET T : U # T => U \in Good
      PROVE  T \in Good
  <2> SUFFICES ASSUME NEW y \in T PROVE SumOver(f, T) = f[y] + SumOver(f, T \ {y})
    OBVIOUS
  <2> DEFINE c == Pick(T)
  <2>1. c \in T
    BY PickIn
  <2> HIDE DEF c
  <2>2. \A U \in SUBSET S : IsFiniteSet(U)
    BY FS_Subset
  <2>3. SumOver(f, T) = f[c] + SumOver(f, T \ {c})
    BY <2>2, SumPick DEF c
  <2>4. CASE c = y
    BY <2>3, <2>4
  <2>5. CASE c # y
    <3>1. T \ {c} \in Good /\ T \ {y} \in Good
      BY <1>1, <2>1
    <3>2. SumOver(f, T \ {c}) = f[y] + SumOver(f, (T \ {c}) \ {y})
      BY <2>5, <3>1
    <3>3. SumOver(f, T \ {y}) = f[c] + SumOver(f, (T \ {y}) \ {c})
      BY <2>1, <2>5, <3>1
    <3>4. (T \ {c}) \ {y} = (T \ {y}) \ {c}
      OBVIOUS
    <3>5. SumOver(f, (T \ {c}) \ {y}) \in Int
      BY <2>2, SumInt
    <3>6. f[c] \in Int /\ f[y] \in Int
      BY <2>1
    <3> DEFINE rest == SumOver(f, (T \ {c}) \ {y})
    <3>7. SumOver(f, T) = f[c] + (f[y] + rest)
      BY <2>3, <3>2
    <3>8. SumOver(f, T \ {y}) = f[c] + rest
      BY <3>3, <3>4
    <3> HIDE DEF rest
    <3>9. f[c] + (f[y] + rest) = f[y] + (f[c] + rest)
      BY <3>5, <3>6 DEF rest
    <3> QED
      BY <3>7, <3>8, <3>9
  <2> QED
    BY <2>4, <2>5
<1> HIDE DEF Good
<1>2. S \in Good
  BY <1>1, SubsetInduction
<1> QED
  BY <1>2 DEF Good

\* The sum over a set with one more element.
LEMMA SumInsert ==
  ASSUME NEW S, IsFiniteSet(S), NEW x, x \notin S, NEW f, f[x] \in Int,
         \A y \in S : f[y] \in Int
  PROVE  SumOver(f, S \cup {x}) = f[x] + SumOver(f, S)
<1>1. IsFiniteSet(S \cup {x})
  BY FS_AddElement
<1>2. (S \cup {x}) \ {x} = S /\ x \in S \cup {x}
  OBVIOUS
<1>3. \A y \in S \cup {x} : f[y] \in Int
  OBVIOUS
<1>4. SumOver(f, S \cup {x}) = f[x] + SumOver(f, (S \cup {x}) \ {x})
  BY <1>1, <1>2, <1>3, SumRemove
<1> QED
  BY <1>2, <1>4

\* When the function changes at one point, the sum changes by as much.
LEMMA SumChange ==
  ASSUME NEW S, IsFiniteSet(S), NEW f, NEW e, NEW x \in S,
         \A y \in S : f[y] \in Int /\ e[y] \in Int,
         \A y \in S : y # x => e[y] = f[y]
  PROVE  SumOver(e, S) = SumOver(f, S) + (e[x] - f[x])
<1> DEFINE R == S \ {x}
<1>1. IsFiniteSet(R)
  BY FS_RemoveElement
<1>2. SumOver(f, S) = f[x] + SumOver(f, R)
  BY SumRemove
<1>3. SumOver(e, S) = e[x] + SumOver(e, R)
  BY SumRemove
<1>4. \A y \in R : e[y] = f[y]
  OBVIOUS
<1>5. \A y \in R : f[y] \in Int
  OBVIOUS
<1> HIDE DEF R
<1>6. SumOver(e, R) = SumOver(f, R)
  BY <1>1, <1>4, SumSame
<1>7. SumOver(f, R) \in Int
  BY <1>1, <1>5, SumInt
<1>8. f[x] \in Int /\ e[x] \in Int
  OBVIOUS
<1> DEFINE r == SumOver(f, R)
<1>9. SumOver(f, S) = f[x] + r /\ SumOver(e, S) = e[x] + r /\ r \in Int
  BY <1>2, <1>3, <1>6, <1>7
<1> HIDE DEF r
<1> QED
  BY <1>8, <1>9

\* The sum of two functions added point by point.
LEMMA SumPlus ==
  ASSUME NEW S, IsFiniteSet(S), NEW f, NEW e, NEW h,
         \A x \in S : f[x] \in Int /\ e[x] \in Int /\ h[x] = f[x] + e[x]
  PROVE  SumOver(h, S) = SumOver(f, S) + SumOver(e, S)
<1> DEFINE Good == {T \in SUBSET S : SumOver(h, T) = SumOver(f, T) + SumOver(e, T)}
<1>1. ASSUME NEW T \in SUBSET S, \A U \in SUBSET T : U # T => U \in Good
      PROVE  T \in Good
  <2>1. CASE T = {}
    <3>1. SumOver(h, {}) = 0 /\ SumOver(f, {}) = 0 /\ SumOver(e, {}) = 0
      BY SumEmpty
    <3> QED
      BY <2>1, <3>1
  <2>2. CASE T # {}
    <3>1. PICK c : c \in T
      BY <2>2
    <3> DEFINE R == T \ {c}
    <3>2. SumOver(h, R) = SumOver(f, R) + SumOver(e, R)
      BY <1>1, <3>1
    <3>3. IsFiniteSet(T) /\ IsFiniteSet(R)
      BY FS_Subset
    <3>4. \A x \in T : f[x] \in Int /\ e[x] \in Int /\ h[x] \in Int
      OBVIOUS
    <3>5. /\ SumOver(h, T) = h[c] + SumOver(h, R)
          /\ SumOver(f, T) = f[c] + SumOver(f, R)
          /\ SumOver(e, T) = e[c] + SumOver(e, R)
      BY <3>1, <3>3, <3>4, SumRemove
    <3>6. SumOver(f, R) \in Int /\ SumOver(e, R) \in Int
      BY <3>3, SumInt
    <3>7. h[c] = f[c] + e[c] /\ f[c] \in Int /\ e[c] \in Int
      BY <3>1
    <3> HIDE DEF R
    <3>8. SumOver(h, T) = SumOver(f, T) + SumOver(e, T)
      BY <3>2, <3>5, <3>6, <3>7
    <3> QED
      BY <3>8
  <2> QED
    BY <2>1, <2>2
<1> HIDE DEF Good
<1>2. S \in Good
  BY <1>1, SubsetInduction
<1> QED
  BY <1>2 DEF Good

\* A sum over two parts of a set.
LEMMA SumUnion ==
  ASSUME NEW S, IsFiniteSet(S), NEW f, \A x \in S : f[x] \in Int,
         NEW A \in SUBSET S
  PROVE  SumOver(f, S) = SumOver(f, A) + SumOver(f, S \ A)
<1> DEFINE Good == {T \in SUBSET S :
                      A \subseteq T => SumOver(f, T) = SumOver(f, A) + SumOver(f, T \ A)}
<1>1. ASSUME NEW T \in SUBSET S, \A U \in SUBSET T : U # T => U \in Good
      PROVE  T \in Good
  <2> SUFFICES ASSUME A \subseteq T
               PROVE  SumOver(f, T) = SumOver(f, A) + SumOver(f, T \ A)
    OBVIOUS
  <2>0. \A U \in SUBSET S : IsFiniteSet(U) /\ SumOver(f, U) \in Int
    <3> SUFFICES ASSUME NEW U \in SUBSET S
                 PROVE  IsFiniteSet(U) /\ SumOver(f, U) \in Int
      OBVIOUS
    <3>1. IsFiniteSet(U)
      BY FS_Subset
    <3>2. \A x \in U : f[x] \in Int
      OBVIOUS
    <3> QED
      BY <3>1, <3>2, SumInt
  <2>1. CASE T = A
    <3>1. T \ A = {}
      BY <2>1
    <3>2. SumOver(f, A) \in Int /\ SumOver(f, {}) = 0
      BY <2>0, SumEmpty
    <3>3. SumOver(f, T) = SumOver(f, A)
      BY <2>1
    <3>4. SumOver(f, T \ A) = 0
      BY <3>1, <3>2
    <3> QED
      BY <3>2, <3>3, <3>4
  <2>2. CASE T # A
    <3>1. PICK c : c \in T \ A
      BY <2>2
    <3> DEFINE U == T \ {c}
    <3>2. SumOver(f, U) = SumOver(f, A) + SumOver(f, U \ A)
      BY <1>1, <3>1
    <3>3. SumOver(f, T) = f[c] + SumOver(f, U)
      BY <2>0, <3>1, SumRemove
    <3>4. SumOver(f, T \ A) = f[c] + SumOver(f, (T \ A) \ {c})
      BY <2>0, <3>1, SumRemove
    <3>5. (T \ A) \ {c} = U \ A
      OBVIOUS
    <3>6. SumOver(f, A) \in Int /\ SumOver(f, U \ A) \in Int /\ f[c] \in Int
      BY <2>0, <3>1
    <3>7. SumOver(f, T \ A) = f[c] + SumOver(f, U \ A)
      BY <3>4, <3>5
    <3> HIDE DEF U
    <3> QED
      BY <3>2, <3>3, <3>6, <3>7
  <2> QED
    BY <2>1, <2>2
<1> HIDE DEF Good
<1>2. S \in Good
  BY <1>1, SubsetInduction
<1> QED
  BY <1>2 DEF Good

\* No part of a sum of naturals exceeds the whole.
LEMMA SumWithin ==
  ASSUME NEW S, IsFiniteSet(S), NEW f, \A x \in S : f[x] \in Nat, NEW A \in SUBSET S
  PROVE  SumOver(f, A) <= SumOver(f, S)
<1>1. IsFiniteSet(A) /\ IsFiniteSet(S \ A)
  BY FS_Subset
<1>2. SumOver(f, A) \in Nat /\ SumOver(f, S \ A) \in Nat
  BY <1>1, SumNat
<1>3. SumOver(f, S) = SumOver(f, A) + SumOver(f, S \ A)
  BY SumUnion
<1> QED
  BY <1>2, <1>3
=============================================================================
