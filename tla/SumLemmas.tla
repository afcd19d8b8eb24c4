------------------------------ MODULE SumLemmas ------------------------------
(***************************************************************************)
(* Sums over finite sets: what the quotas and the disk budget of the       *)
(* services are stated with.  MapThenSumSet adds up the elements in an     *)
(* order of its own; these lemmas say that the order does not matter.      *)
(***************************************************************************)
EXTENDS Integers, FiniteSets, FiniteSetsExt, FiniteSetTheorems, WellFoundedInduction, TLAPS

\* The sum of w over S.
SumOf(w, S) == MapThenSumSet(LAMBDA x : w[x], S)

\* The recursion behind it.
Pick(s) == CHOOSE x \in s : TRUE
SumEntry(w, g, s) == IF s = {} THEN 0 ELSE w[Pick(s)] + g[s \ {Pick(s)}]
IsSum(w, g, S) == g = [s \in SUBSET S |-> SumEntry(w, g, s)]

LEMMA SumUnfolds ==
  ASSUME NEW w, NEW S
  PROVE  SumOf(w, S) = (CHOOSE g : IsSum(w, g, S))[S]
  BY DEF SumOf, MapThenSumSet, MapThenFoldSet, IsSum, SumEntry, Pick

\* A set of numbers has a least one.
LEMMA LeastNumber ==
  ASSUME NEW N \in SUBSET Nat, N # {}
  PROVE  \E m \in N : \A n \in N : m <= n
<1>1. PICK m \in N : \A n \in N : <<n, m>> \notin OpToRel(<, Nat)
  BY NatLessThanWellFounded, WFMin, Zenon
<1>2. \A n \in N : ~(n < m)
  BY <1>1, Zenon DEF OpToRel
<1> QED
  BY <1>2

LEMMA PickIn ==
  ASSUME NEW s, s # {}
  PROVE  Pick(s) \in s
  BY DEF Pick

\* The elements of S up to a cardinality.
Layer(S, n) == {s \in SUBSET S : Cardinality(s) <= n}

LEMMA SmallerSet ==
  ASSUME NEW S, IsFiniteSet(S), NEW s \in SUBSET S, s # {}
  PROVE  /\ IsFiniteSet(s) /\ Cardinality(s) \in Nat /\ s \ {Pick(s)} \in SUBSET S
         /\ Cardinality(s \ {Pick(s)}) = Cardinality(s) - 1
<1>1. IsFiniteSet(s) /\ Cardinality(s) \in Nat
  BY FS_Subset, FS_CardinalityType
<1> QED
  BY <1>1, PickIn, FS_RemoveElement

\* The recursion has a solution, built one cardinality at a time.
LEMMA SumExists ==
  ASSUME NEW w, NEW S, IsFiniteSet(S)
  PROVE  \E g : IsSum(w, g, S)
<1> DEFINE Good(n) == \E g : g = [s \in Layer(S, n) |-> SumEntry(w, g, s)]
           Bad == {n \in Nat : ~Good(n)}
<1>1. Good(0)
  <2> DEFINE g == [s \in Layer(S, 0) |-> 0]
  <2>1. ASSUME NEW s \in Layer(S, 0) PROVE SumEntry(w, g, s) = 0
    <3>1. s \in SUBSET S /\ Cardinality(s) <= 0
      BY <2>1 DEF Layer
    <3>2. IsFiniteSet(s) /\ Cardinality(s) \in Nat
      BY <3>1, FS_Subset, FS_CardinalityType
    <3>3. s = {}
      BY <3>1, <3>2, FS_EmptySet
    <3> QED
      BY <3>3 DEF SumEntry
  <2>2. g = [s \in Layer(S, 0) |-> SumEntry(w, g, s)]
    BY <2>1
  <2> QED
    BY <2>2
<1>2. ASSUME NEW n \in Nat, Good(n) PROVE Good(n + 1)
  <2>1. PICK g : g = [s \in Layer(S, n) |-> SumEntry(w, g, s)]
    BY <1>2
  <2> DEFINE h == [s \in Layer(S, n + 1) |-> SumEntry(w, g, s)]
  <2>2. ASSUME NEW s \in Layer(S, n) PROVE s \in Layer(S, n + 1) /\ h[s] = g[s]
    <3>1. s \in SUBSET S /\ Cardinality(s) <= n
      BY <2>2 DEF Layer
    <3>2. Cardinality(s) \in Nat
      BY <3>1, FS_Subset, FS_CardinalityType
    <3>3. s \in Layer(S, n + 1)
      BY <3>1, <3>2 DEF Layer
    <3>4. g[s] = SumEntry(w, g, s)
      BY <2>1
    <3> QED
      BY <3>3, <3>4
  <2>3. ASSUME NEW s \in Layer(S, n + 1) PROVE SumEntry(w, h, s) = SumEntry(w, g, s)
    <3>1. CASE s = {}
      BY <3>1 DEF SumEntry
    <3>2. CASE s # {}
      <4>1. s \in SUBSET S /\ Cardinality(s) <= n + 1
        BY <2>3 DEF Layer
      <4>2. s \ {Pick(s)} \in SUBSET S /\ Cardinality(s \ {Pick(s)}) <= n
        BY <3>2, <4>1, SmallerSet
      <4>3. s \ {Pick(s)} \in Layer(S, n)
        BY <4>2 DEF Layer
      <4>4. h[s \ {Pick(s)}] = g[s \ {Pick(s)}]
        BY <2>2, <4>3
      <4> HIDE DEF h
      <4> QED
        BY <4>4 DEF SumEntry
    <3> QED
      BY <3>1, <3>2
  <2>4. h = [s \in Layer(S, n + 1) |-> SumEntry(w, h, s)]
    BY <2>3
  <2> QED
    BY <2>4
<1>3. Bad = {}
  <2> SUFFICES ASSUME Bad # {} PROVE FALSE
    OBVIOUS
  <2> HIDE DEF Good
  <2>1. PICK m \in Bad : \A n \in Bad : m <= n
    BY LeastNumber
  <2>2. m \in Nat /\ ~Good(m) /\ m # 0
    BY <1>1, <2>1
  <2>3. m - 1 \in Nat /\ m - 1 \notin Bad
    BY <2>1, <2>2
  <2>4. Good(m - 1)
    BY <2>3
  <2>5. Good((m - 1) + 1)
    BY <1>2, <2>3, <2>4
  <2>6. (m - 1) + 1 = m
    BY <2>2
  <2> QED
    BY <2>2, <2>5, <2>6
<1>4. Cardinality(S) \in Nat /\ Layer(S, Cardinality(S)) = SUBSET S
  BY FS_CardinalityType, FS_Subset DEF Layer
<1> HIDE DEF Good
<1>5. Good(Cardinality(S))
  BY <1>3, <1>4
<1> QED
  BY <1>4, <1>5 DEF Good, IsSum

\* What MapThenSumSet computes is the value at S of a solution.
LEMMA SumIsSolution ==
  ASSUME NEW w, NEW S, IsFiniteSet(S)
  PROVE  \E g : IsSum(w, g, S) /\ SumOf(w, S) = g[S]
<1>1. PICK h : IsSum(w, h, S)
  BY SumExists
<1> DEFINE g == CHOOSE k : IsSum(w, k, S)
<1>2. IsSum(w, g, S)
  BY <1>1
<1>3. SumOf(w, S) = g[S]
  BY SumUnfolds
<1> QED
  BY <1>2, <1>3

\* Induction on the subsets of a finite set, for a set Q of them instead of a predicate.
LEMMA SubsetInduction ==
  ASSUME NEW S, IsFiniteSet(S), NEW Q,
         \A s \in SUBSET S : (\A t \in SUBSET S : Cardinality(t) < Cardinality(s) => t \in Q) => s \in Q
  PROVE  SUBSET S \subseteq Q
<1> DEFINE Bad == {Cardinality(s) : s \in (SUBSET S) \ Q}
<1> SUFFICES ASSUME (SUBSET S) \ Q # {} PROVE FALSE
  OBVIOUS
<1>1. \A s \in SUBSET S : Cardinality(s) \in Nat
  BY FS_Subset, FS_CardinalityType
<1>2. Bad \in SUBSET Nat /\ Bad # {}
  BY <1>1
<1>3. PICK m \in Bad : \A n \in Bad : m <= n
  BY <1>2, LeastNumber
<1>4. PICK s \in (SUBSET S) \ Q : m = Cardinality(s)
  BY <1>3
<1>5. ASSUME NEW t \in SUBSET S, Cardinality(t) < Cardinality(s) PROVE t \in Q
  <2>1. t \notin Q => Cardinality(t) \in Bad
    OBVIOUS
  <2> HIDE DEF Bad
  <2>2. Cardinality(t) \in Bad => Cardinality(s) <= Cardinality(t)
    BY <1>3, <1>4
  <2>3. Cardinality(s) \in Nat /\ Cardinality(t) \in Nat
    BY <1>1, <1>4
  <2> QED
    BY <1>5, <2>1, <2>2, <2>3
<1> QED
  BY <1>4, <1>5

\* Two solutions agree wherever what they add up agrees.
LEMMA SolutionsAgree ==
  ASSUME NEW w, NEW v, NEW S, NEW R, NEW g, NEW h, IsSum(w, g, S), IsSum(v, h, R),
         NEW T, IsFiniteSet(T), T \subseteq S, T \subseteq R, \A x \in T : w[x] = v[x]
  PROVE  g[T] = h[T]
<1> DEFINE Q == {s \in SUBSET T : g[s] = h[s]}
<1>1. ASSUME NEW s \in SUBSET T,
             \A t \in SUBSET T : Cardinality(t) < Cardinality(s) => t \in Q
      PROVE  s \in Q
  <2>1. g[s] = SumEntry(w, g, s) /\ h[s] = SumEntry(v, h, s)
    <3>1. s \in SUBSET S /\ s \in SUBSET R
      OBVIOUS
    <3> QED
      BY <3>1 DEF IsSum
  <2>2. CASE s = {}
    BY <2>1, <2>2 DEF SumEntry
  <2>3. CASE s # {}
    <3>1. s \ {Pick(s)} \in SUBSET T /\ Cardinality(s \ {Pick(s)}) < Cardinality(s)
      BY <2>3, SmallerSet
    <3>2. g[s \ {Pick(s)}] = h[s \ {Pick(s)}]
      BY <1>1, <3>1
    <3>3. w[Pick(s)] = v[Pick(s)]
      BY <2>3, PickIn
    <3> QED
      BY <2>1, <3>2, <3>3 DEF SumEntry
  <2> QED
    BY <2>2, <2>3
<1> HIDE DEF Q
<1>2. SUBSET T \subseteq Q
  BY <1>1, SubsetInduction
<1> QED
  BY <1>2 DEF Q

\* The sum depends only on what is added up.
LEMMA SumSame ==
  ASSUME NEW w, NEW v, NEW S, IsFiniteSet(S), \A x \in S : w[x] = v[x]
  PROVE  SumOf(w, S) = SumOf(v, S)
<1>1. PICK g : IsSum(w, g, S) /\ SumOf(w, S) = g[S]
  BY SumIsSolution
<1>2. PICK h : IsSum(v, h, S) /\ SumOf(v, S) = h[S]
  BY SumIsSolution
<1> QED
  BY <1>1, <1>2, SolutionsAgree

LEMMA SumEmpty ==
  ASSUME NEW w
  PROVE  SumOf(w, {}) = 0
<1>1. PICK g : IsSum(w, g, {}) /\ SumOf(w, {}) = g[{}]
  BY SumIsSolution, FS_EmptySet
<1> QED
  BY <1>1 DEF IsSum, SumEntry

LEMMA SumPick ==
  ASSUME NEW w, NEW S, IsFiniteSet(S), S # {}
  PROVE  SumOf(w, S) = w[Pick(S)] + SumOf(w, S \ {Pick(S)})
<1> DEFINE T == S \ {Pick(S)}
<1>1. PICK g : IsSum(w, g, S) /\ SumOf(w, S) = g[S]
  BY SumIsSolution
<1>2. IsFiniteSet(T) /\ T \subseteq S
  BY FS_Subset
<1>3. PICK h : IsSum(w, h, T) /\ SumOf(w, T) = h[T]
  BY <1>2, SumIsSolution
<1>4. g[T] = h[T]
  BY <1>1, <1>2, <1>3, SolutionsAgree
<1>5. g[S] = w[Pick(S)] + g[T]
  BY <1>1 DEF IsSum, SumEntry
<1> QED
  BY <1>1, <1>3, <1>4, <1>5

LEMMA SumType ==
  ASSUME NEW w, NEW S, IsFiniteSet(S), \A x \in S : w[x] \in Nat
  PROVE  SumOf(w, S) \in Nat
<1> DEFINE Q == {s \in SUBSET S : SumOf(w, s) \in Nat}
<1>1. ASSUME NEW s \in SUBSET S,
             \A t \in SUBSET S : Cardinality(t) < Cardinality(s) => t \in Q
      PROVE  s \in Q
  <2>1. CASE s = {}
    BY <2>1, SumEmpty
  <2>2. CASE s # {}
    <3>1. /\ s \ {Pick(s)} \in SUBSET S /\ Cardinality(s \ {Pick(s)}) < Cardinality(s)
          /\ IsFiniteSet(s)
      BY <2>2, SmallerSet
    <3>2. SumOf(w, s \ {Pick(s)}) \in Nat
      BY <1>1, <3>1
    <3>3. w[Pick(s)] \in Nat
      BY <2>2, PickIn
    <3>4. SumOf(w, s) = w[Pick(s)] + SumOf(w, s \ {Pick(s)})
      BY <2>2, <3>1, SumPick
    <3> QED
      BY <3>2, <3>3, <3>4
  <2> QED
    BY <2>1, <2>2
<1> HIDE DEF Q
<1>2. SUBSET S \subseteq Q
  BY <1>1, SubsetInduction
<1> QED
  BY <1>2 DEF Q

\* Any element may be taken out first.
LEMMA SumRemove ==
  ASSUME NEW w, NEW S, IsFiniteSet(S), \A x \in S : w[x] \in Nat, NEW y \in S
  PROVE  SumOf(w, S) = w[y] + SumOf(w, S \ {y})
<1> DEFINE Q == {s \in SUBSET S : \A x \in s : SumOf(w, s) = w[x] + SumOf(w, s \ {x})}
<1>1. ASSUME NEW s \in SUBSET S,
             \A t \in SUBSET S : Cardinality(t) < Cardinality(s) => t \in Q
      PROVE  s \in Q
  <2> SUFFICES ASSUME NEW x \in s PROVE SumOf(w, s) = w[x] + SumOf(w, s \ {x})
    OBVIOUS
  <2> DEFINE p == Pick(s)
             t == s \ {p}
             r == s \ {x}
             q == (s \ {p}) \ {x}
  <2>1. /\ p \in s /\ IsFiniteSet(s) /\ Cardinality(s) \in Nat
        /\ t \in SUBSET S /\ Cardinality(t) < Cardinality(s)
    BY PickIn, SmallerSet
  <2>2. SumOf(w, s) = w[p] + SumOf(w, t)
    BY <2>1, SumPick
  <2>3. CASE x = p
    BY <2>2, <2>3
  <2>4. CASE x # p
    <3>1. r \in SUBSET S /\ Cardinality(r) < Cardinality(s) /\ p \in r /\ x \in t
      BY <2>1, <2>4, FS_RemoveElement
    <3>2. t \in Q /\ r \in Q
      BY <1>1, <2>1, <3>1
    <3>3. r \ {p} = q /\ t \ {x} = q
      OBVIOUS
    <3>4. SumOf(w, t) = w[x] + SumOf(w, t \ {x}) /\ SumOf(w, r) = w[p] + SumOf(w, r \ {p})
      BY <3>1, <3>2
    <3>5. /\ w[x] \in Nat /\ w[p] \in Nat
          /\ IsFiniteSet(q) /\ q \in SUBSET S
      BY <2>1, FS_Subset
    <3>6. SumOf(w, q) \in Nat
      BY <3>5, SumType
    <3>7. SumOf(w, t) = w[x] + SumOf(w, q) /\ SumOf(w, r) = w[p] + SumOf(w, q)
      BY <3>3, <3>4
    <3> HIDE DEF p, t, r, q
    <3>8. SumOf(w, s) = w[x] + SumOf(w, r)
      BY <2>2, <3>5, <3>6, <3>7
    <3> QED
      BY <3>8 DEF r
  <2> QED
    BY <2>3, <2>4
<1> HIDE DEF Q
<1>2. SUBSET S \subseteq Q
  BY <1>1, SubsetInduction
<1> QED
  BY <1>2 DEF Q

LEMMA SumAdd ==
  ASSUME NEW w, NEW S, IsFiniteSet(S), NEW y, y \notin S, \A x \in S \cup {y} : w[x] \in Nat
  PROVE  SumOf(w, S \cup {y}) = w[y] + SumOf(w, S)
<1>1. IsFiniteSet(S \cup {y}) /\ (S \cup {y}) \ {y} = S
  BY FS_AddElement
<1> QED
  BY <1>1, SumRemove

LEMMA SumMonotone ==
  ASSUME NEW w, NEW S, IsFiniteSet(S), \A x \in S : w[x] \in Nat, NEW T \in SUBSET S
  PROVE  SumOf(w, T) <= SumOf(w, S)
<1> DEFINE Q == {s \in SUBSET S : T \subseteq s => SumOf(w, T) <= SumOf(w, s)}
<1>0. \A s \in SUBSET S : IsFiniteSet(s) /\ SumOf(w, s) \in Nat
  <2>1. \A s \in SUBSET S : IsFiniteSet(s)
    BY FS_Subset
  <2> QED
    BY <2>1, SumType
<1>1. ASSUME NEW s \in SUBSET S,
             \A t \in SUBSET S : Cardinality(t) < Cardinality(s) => t \in Q
      PROVE  s \in Q
  <2> SUFFICES ASSUME T \subseteq s PROVE SumOf(w, T) <= SumOf(w, s)
    OBVIOUS
  <2>1. CASE s = T
    BY <1>0, <2>1
  <2>2. CASE s # T
    <3>1. PICK x \in s : x \notin T
      BY <2>2
    <3>2. /\ s \ {x} \in SUBSET S /\ T \subseteq s \ {x}
          /\ Cardinality(s \ {x}) < Cardinality(s)
      <4>1. IsFiniteSet(s) /\ Cardinality(s) \in Nat
        BY <1>0, FS_CardinalityType
      <4>2. Cardinality(s \ {x}) = Cardinality(s) - 1
        BY <4>1, FS_RemoveElement
      <4> QED
        BY <3>1, <4>1, <4>2
    <3>3. SumOf(w, T) <= SumOf(w, s \ {x})
      BY <1>1, <3>2
    <3>4. SumOf(w, s) = w[x] + SumOf(w, s \ {x})
      BY <1>0, SumRemove
    <3> QED
      BY <1>0, <3>2, <3>3, <3>4
  <2> QED
    BY <2>1, <2>2
<1> HIDE DEF Q
<1>2. SUBSET S \subseteq Q
  BY <1>1, SubsetInduction
<1> QED
  BY <1>2 DEF Q

\* One entry of the function that is added up changes.
LEMMA SumChange ==
  ASSUME NEW w, NEW v, NEW S, IsFiniteSet(S), NEW y \in S,
         \A x \in S : w[x] \in Nat /\ v[x] \in Nat, \A x \in S \ {y} : v[x] = w[x]
  PROVE  SumOf(v, S) = SumOf(w, S) - w[y] + v[y]
<1>1. IsFiniteSet(S \ {y})
  BY FS_RemoveElement
<1>2. SumOf(w, S) = w[y] + SumOf(w, S \ {y}) /\ SumOf(v, S) = v[y] + SumOf(v, S \ {y})
  BY SumRemove
<1>3. SumOf(v, S \ {y}) = SumOf(w, S \ {y}) /\ SumOf(w, S \ {y}) \in Nat
  BY <1>1, SumSame, SumType
<1> QED
  BY <1>2, <1>3

\* A set is smaller by one without one of its elements.
LEMMA WithoutOne ==
  ASSUME NEW S, IsFiniteSet(S), NEW s \in SUBSET S, s # {}
  PROVE  \E x \in s : /\ IsFiniteSet(s) /\ s \ {x} \in SUBSET S /\ IsFiniteSet(s \ {x})
                      /\ Cardinality(s) \in Nat /\ Cardinality(s \ {x}) \in Nat
                      /\ Cardinality(s) = Cardinality(s \ {x}) + 1
                      /\ Cardinality(s \ {x}) < Cardinality(s)
<1>1. /\ IsFiniteSet(s) /\ Cardinality(s) \in Nat /\ s \ {Pick(s)} \in SUBSET S
      /\ Cardinality(s \ {Pick(s)}) = Cardinality(s) - 1 /\ Pick(s) \in s
  BY SmallerSet, PickIn
<1>2. IsFiniteSet(s \ {Pick(s)}) /\ Cardinality(s \ {Pick(s)}) \in Nat
  BY <1>1, FS_Subset, FS_CardinalityType
<1>3. Cardinality(s) = Cardinality(s \ {Pick(s)}) + 1
  BY <1>1, <1>2
<1>4. Cardinality(s \ {Pick(s)}) < Cardinality(s)
  BY <1>1, <1>2, <1>3
<1> QED
  BY <1>1, <1>2, <1>3, <1>4

LEMMA OneTimeMore ==
  ASSUME NEW n \in Nat, NEW b \in Nat
  PROVE  (n + 1) * b = n * b + b /\ n * b \in Nat
  OBVIOUS

\* What exceeds by at most b at every element exceeds by at most b times their number in sum.
LEMMA SumExcess ==
  ASSUME NEW v, NEW w, NEW S, IsFiniteSet(S), NEW b \in Nat,
         \A x \in S : v[x] \in Nat /\ w[x] \in Nat /\ v[x] <= w[x] + b
  PROVE  SumOf(v, S) <= SumOf(w, S) + Cardinality(S) * b
<1> DEFINE Q == {s \in SUBSET S : SumOf(v, s) <= SumOf(w, s) + Cardinality(s) * b}
<1>0. \A s \in SUBSET S : SumOf(v, s) \in Nat /\ SumOf(w, s) \in Nat
  <2>1. \A s \in SUBSET S : IsFiniteSet(s)
    BY FS_Subset
  <2> QED
    BY <2>1, SumType
<1>1. ASSUME NEW s \in SUBSET S,
             \A t \in SUBSET S : Cardinality(t) < Cardinality(s) => t \in Q
      PROVE  s \in Q
  <2>1. CASE s = {}
    BY <2>1, SumEmpty, FS_EmptySet
  <2>2. CASE s # {}
    <3>1. PICK x \in s : /\ IsFiniteSet(s) /\ s \ {x} \in SUBSET S
                         /\ Cardinality(s \ {x}) \in Nat
                         /\ Cardinality(s) = Cardinality(s \ {x}) + 1
                         /\ Cardinality(s \ {x}) < Cardinality(s)
      BY <2>2, WithoutOne
    <3> DEFINE t == s \ {x}
               n == Cardinality(t)
    <3>2. SumOf(v, t) <= SumOf(w, t) + n * b
      BY <1>1, <3>1
    <3>3. SumOf(v, s) = v[x] + SumOf(v, t) /\ SumOf(w, s) = w[x] + SumOf(w, t)
      BY <3>1, SumRemove
    <3>4. Cardinality(s) * b = n * b + b /\ n * b \in Nat
      BY <3>1, OneTimeMore
    <3>5. v[x] \in Nat /\ w[x] \in Nat /\ v[x] <= w[x] + b
      OBVIOUS
    <3>6. SumOf(v, t) \in Nat /\ SumOf(w, t) \in Nat
      BY <1>0, <3>1
    <3> HIDE DEF t, n
    <3>7. SumOf(v, s) <= SumOf(w, s) + Cardinality(s) * b
      BY <3>2, <3>3, <3>4, <3>5, <3>6
    <3> QED
      BY <3>7
  <2> QED
    BY <2>1, <2>2
<1> HIDE DEF Q
<1>2. SUBSET S \subseteq Q
  BY <1>1, SubsetInduction
<1> QED
  BY <1>2 DEF Q

LEMMA SumNone ==
  ASSUME NEW w, NEW S, IsFiniteSet(S), \A x \in S : w[x] = 0
  PROVE  SumOf(w, S) = 0
<1> DEFINE Q == {s \in SUBSET S : SumOf(w, s) = 0}
<1>1. ASSUME NEW s \in SUBSET S,
             \A t \in SUBSET S : Cardinality(t) < Cardinality(s) => t \in Q
      PROVE  s \in Q
  <2>1. CASE s = {}
    BY <2>1, SumEmpty
  <2>2. CASE s # {}
    <3>1. PICK x \in s : /\ IsFiniteSet(s) /\ s \ {x} \in SUBSET S
                         /\ Cardinality(s \ {x}) < Cardinality(s)
      BY <2>2, WithoutOne
    <3>2. SumOf(w, s) = w[x] + SumOf(w, s \ {x})
      BY <3>1, SumRemove
    <3> QED
      BY <1>1, <3>1, <3>2
  <2> QED
    BY <2>1, <2>2
<1> HIDE DEF Q
<1>2. SUBSET S \subseteq Q
  BY <1>1, SubsetInduction
<1> QED
  BY <1>2 DEF Q

\* What is at most b at every element is at most b times their number in sum.
LEMMA SumBound ==
  ASSUME NEW w, NEW S, IsFiniteSet(S), NEW b \in Nat, \A x \in S : w[x] \in Nat /\ w[x] <= b
  PROVE  SumOf(w, S) <= Cardinality(S) * b
<1> DEFINE z == [x \in S |-> 0]
<1>1. \A x \in S : z[x] = 0
  OBVIOUS
<1> HIDE DEF z
<1>2. SumOf(z, S) = 0
  BY <1>1, SumNone
<1>3. SumOf(w, S) <= SumOf(z, S) + Cardinality(S) * b
  BY <1>1, SumExcess
<1>4. Cardinality(S) * b \in Nat
  BY FS_CardinalityType, OneTimeMore
<1> QED
  BY <1>2, <1>3, <1>4

\* The sum over two sets that have nothing in common.
LEMMA SumUnion ==
  ASSUME NEW w, NEW S, NEW T, IsFiniteSet(S), IsFiniteSet(T), S \cap T = {},
         \A x \in S \cup T : w[x] \in Nat
  PROVE  SumOf(w, S \cup T) = SumOf(w, S) + SumOf(w, T)
<1> DEFINE Q == {s \in SUBSET S : SumOf(w, s \cup T) = SumOf(w, s) + SumOf(w, T)}
<1>1. ASSUME NEW s \in SUBSET S,
             \A t \in SUBSET S : Cardinality(t) < Cardinality(s) => t \in Q
      PROVE  s \in Q
  <2>0. SumOf(w, T) \in Nat
    BY SumType
  <2>1. CASE s = {}
    <3>1. s \cup T = T /\ SumOf(w, s) = 0
      BY <2>1, SumEmpty
    <3>2. 0 + SumOf(w, T) = SumOf(w, T)
      BY <2>0
    <3>3. SumOf(w, s \cup T) = SumOf(w, s) + SumOf(w, T)
      BY <3>1, <3>2, Zenon
    <3> QED
      BY <3>3
  <2>2. CASE s # {}
    <3>1. PICK x \in s : /\ IsFiniteSet(s) /\ s \ {x} \in SUBSET S
                         /\ IsFiniteSet(s \ {x})
                         /\ Cardinality(s \ {x}) < Cardinality(s)
      BY <2>2, WithoutOne
    <3> DEFINE t == s \ {x}
    <3>2. SumOf(w, s) = w[x] + SumOf(w, t)
      BY <3>1, SumRemove
    <3>3. SumOf(w, t \cup T) = SumOf(w, t) + SumOf(w, T)
      BY <1>1, <3>1
    <3>4. IsFiniteSet(s \cup T) /\ x \in s \cup T /\ (s \cup T) \ {x} = t \cup T
      BY <3>1, FS_Union
    <3>5. SumOf(w, s \cup T) = w[x] + SumOf(w, t \cup T)
      BY <3>4, SumRemove
    <3>6. SumOf(w, t) \in Nat /\ w[x] \in Nat
      BY <3>1, SumType
    <3> HIDE DEF t
    <3>7. SumOf(w, s \cup T) = SumOf(w, s) + SumOf(w, T)
      BY <2>0, <3>2, <3>3, <3>5, <3>6
    <3> QED
      BY <3>7
  <2> QED
    BY <2>1, <2>2
<1> HIDE DEF Q
<1>2. SUBSET S \subseteq Q
  BY <1>1, SubsetInduction
<1> QED
  BY <1>2 DEF Q

-----------------------------------------------------------------------------
(* Small sets and small numbers *)

LEMMA OneMore ==
  ASSUME NEW S, NEW T, NEW x, IsFiniteSet(T), S \in SUBSET (T \cup {x})
  PROVE  IsFiniteSet(S) /\ Cardinality(S) <= Cardinality(T) + 1
<1>1. IsFiniteSet(T \cup {x}) /\ Cardinality(T \cup {x}) <= Cardinality(T) + 1 /\ Cardinality(T) \in Nat
  BY FS_AddElement, FS_CardinalityType
<1>2. IsFiniteSet(S) /\ Cardinality(S) <= Cardinality(T \cup {x}) /\ Cardinality(S) \in Nat
  BY <1>1, FS_Subset, FS_CardinalityType
<1>3. Cardinality(T \cup {x}) \in Nat
  BY <1>1, FS_CardinalityType
<1> QED
  BY <1>1, <1>2, <1>3

LEMMA Fewer ==
  ASSUME NEW S, NEW T, IsFiniteSet(T), S \in SUBSET T, NEW n \in Nat, Cardinality(T) <= n
  PROVE  Cardinality(S) <= n
<1>1. Cardinality(S) <= Cardinality(T) /\ Cardinality(S) \in Nat /\ Cardinality(T) \in Nat
  BY FS_Subset, FS_CardinalityType
<1> QED
  BY <1>1

LEMMA BothOneMore ==
  ASSUME NEW a \in Int, NEW b \in Int, b >= 0, NEW x, NEW y, x = a + 1, y = b + 1
  PROVE  x - y = a - b /\ a - b <= a
  OBVIOUS

=============================================================================
