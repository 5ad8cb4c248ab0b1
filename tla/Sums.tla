--------------------------------- MODULE Sums ---------------------------------
(***************************************************************************)
(* Sums over finite sets: what the proofs need to know of SumFunctionOnSet *)
(* and SumFunction.  The library defines them by folding the set in the    *)
(* order of a CHOOSE; the facts below no longer depend on it.              *)
(*                                                                         *)
(* The inductions are by a minimal counterexample.                         *)
(***************************************************************************)
EXTENDS Integers, FiniteSets, FiniteSetsExt, FiniteSetTheorems, TLAPS

First(s) == CHOOSE x \in s : TRUE

\* What the fold of f makes of one subset, if it makes g of the smaller ones.
FoldStep(g, f, s) == IF s = {} THEN 0 ELSE f[First(s)] + g[s \ {First(s)}]

\* The same for the subsets of at most n elements.
IsFoldUpTo(g, f, S, n) ==
    /\ g = [s \in SUBSET S |-> g[s]]
    /\ \A s \in SUBSET S : Cardinality(s) <= n => g[s] = FoldStep(g, f, s)

IsFold(g, f, S) == g = [s \in SUBSET S |-> FoldStep(g, f, s)]

-----------------------------------------------------------------------------
(* Induction.                                                              *)

\* Of the subsets of a finite set in T, one has no other of them below it.
LEMMA MinimalSubset ==
    ASSUME NEW S, IsFiniteSet(S), NEW T, T \subseteq SUBSET S, T # {}
    PROVE  \E x \in T : \A y \in T : y \subseteq x => y = x
<1>1. FiniteSubsetsOf(S) = SUBSET S
  BY FS_FiniteSubsetsOfFinite
<1>2. IsWellFoundedOn(StrictSubsetOrdering(S), SUBSET S)
  BY <1>1, FS_StrictSubsetOrderingWellFounded
<1>3. \E x \in T : \A y \in T : ~ (<<y, x>> \in StrictSubsetOrdering(S))
  BY <1>2, WFMin, Zenon
<1>4. QED
  BY <1>3 DEF StrictSubsetOrdering

\* Some natural number of every set of them is the least.
LEMMA LeastNumber ==
    ASSUME NEW T, T \subseteq Nat, T # {}
    PROVE  \E x \in T : \A y \in T : x <= y
<1> DEFINE less == OpToRel(<, Nat)
<1>1. IsWellFoundedOn(less, Nat)
  BY NatLessThanWellFounded
<1>2. ASSUME NEW x \in Nat, NEW y \in Nat, y < x
      PROVE  <<y, x>> \in less
  BY <1>2, Zenon DEF OpToRel
<1> HIDE DEF less
<1>3. PICK x \in T : \A y \in T : ~ (<<y, x>> \in less)
  BY <1>1, WFMin, Zenon
<1>4. ASSUME NEW y \in T
      PROVE  x <= y
  <2>1. ~ (y < x)
    BY <1>2, <1>3, Zenon
  <2>2. QED
    BY <2>1
<1>5. QED
  BY <1>4

-----------------------------------------------------------------------------
(* The fold is well defined.                                               *)

LEMMA FirstIsOne ==
    ASSUME NEW s, s # {}
    PROVE  First(s) \in s
BY DEF First

\* Up to every cardinality there is a function that satisfies the equation of the fold.
LEMMA FoldUpTo ==
    ASSUME NEW S, IsFiniteSet(S), NEW f, NEW n \in Nat
    PROVE  \E g : IsFoldUpTo(g, f, S, n)
<1> DEFINE upTo(k) == \E g : IsFoldUpTo(g, f, S, k)
           bad == {k \in Nat : ~ upTo(k)}
<1>1. ASSUME NEW s \in SUBSET S
      PROVE  /\ IsFiniteSet(s) /\ Cardinality(s) \in Nat
             /\ Cardinality(s) = 0 <=> s = {}
  BY <1>1, FS_Subset, FS_CardinalityType, FS_EmptySet
<1>2. ASSUME NEW s \in SUBSET S, s # {}
      PROVE  /\ s \ {First(s)} \in SUBSET S
             /\ Cardinality(s \ {First(s)}) = Cardinality(s) - 1
  BY <1>1, <1>2, FS_RemoveElement, FirstIsOne
<1>3. upTo(0)
  <2> DEFINE g == [s \in SUBSET S |-> 0]
  <2>1. g = [s \in SUBSET S |-> g[s]]
    OBVIOUS
  <2>2. \A s \in SUBSET S : Cardinality(s) <= 0 => g[s] = FoldStep(g, f, s)
    BY <1>1 DEF FoldStep
  <2> HIDE DEF g
  <2>3. QED
    BY <2>1, <2>2 DEF IsFoldUpTo
<1>4. ASSUME NEW k \in Nat, upTo(k)
      PROVE  upTo(k + 1)
  <2>1. PICK g : /\ g = [s \in SUBSET S |-> g[s]]
                 /\ \A s \in SUBSET S : Cardinality(s) <= k => g[s] = FoldStep(g, f, s)
    BY <1>4 DEF IsFoldUpTo
  <2> DEFINE h == [s \in SUBSET S |-> IF Cardinality(s) <= k THEN g[s] ELSE FoldStep(g, f, s)]
  <2>2. h = [s \in SUBSET S |-> h[s]]
    OBVIOUS
  <2>3. ASSUME NEW s \in SUBSET S, Cardinality(s) <= k + 1
        PROVE  h[s] = FoldStep(g, f, s)
    BY <2>1
  <2>4. ASSUME NEW s \in SUBSET S, Cardinality(s) <= k + 1, s # {}
        PROVE  h[s \ {First(s)}] = g[s \ {First(s)}]
    BY <1>1, <1>2, <2>4
  <2> HIDE DEF h
  <2>5. ASSUME NEW s \in SUBSET S, Cardinality(s) <= k + 1
        PROVE  h[s] = FoldStep(h, f, s)
    BY <2>3, <2>4, <2>5 DEF FoldStep
  <2>6. QED
    BY <2>2, <2>5 DEF IsFoldUpTo
<1> HIDE DEF upTo
<1>5. ASSUME bad # {}
      PROVE  FALSE
  <2>1. PICK k \in bad : \A m \in bad : k <= m
    BY <1>5, LeastNumber
  <2>2. k # 0
    BY <1>3, <2>1
  <2>3. k - 1 \in Nat /\ k - 1 \notin bad
    BY <2>1, <2>2
  <2>4. upTo((k - 1) + 1)
    BY <1>4, <2>3
  <2>5. QED
    BY <2>1, <2>4
<1>6. upTo(n)
  BY <1>5
<1>7. QED
  BY <1>6 DEF upTo

LEMMA FoldExists ==
    ASSUME NEW S, IsFiniteSet(S), NEW f
    PROVE  \E g : IsFold(g, f, S)
<1>1. Cardinality(S) \in Nat
  BY FS_CardinalityType
<1>2. PICK g : IsFoldUpTo(g, f, S, Cardinality(S))
  BY <1>1, FoldUpTo
<1>3. \A s \in SUBSET S : g[s] = FoldStep(g, f, s)
  BY <1>2, FS_Subset DEF IsFoldUpTo
<1>4. QED
  BY <1>2, <1>3 DEF IsFold, IsFoldUpTo

LEMMA SumIsFold ==
    ASSUME NEW S, IsFiniteSet(S), NEW f
    PROVE  \E g : IsFold(g, f, S) /\ SumFunctionOnSet(f, S) = g[S]
<1> DEFINE fold == CHOOSE g : IsFold(g, f, S)
<1>1. SumFunctionOnSet(f, S) = fold[S]
  BY DEF SumFunctionOnSet, FoldFunctionOnSet, MapThenFoldSet, IsFold, FoldStep, First
<1>2. IsFold(fold, f, S)
  BY FoldExists
<1>3. QED
  BY <1>1, <1>2

\* Folds agree on the sets that both of them have.
LEMMA FoldsAgree ==
    ASSUME NEW S, IsFiniteSet(S), NEW T \in SUBSET S, NEW f, NEW g, NEW h,
           IsFold(g, f, S), IsFold(h, f, T)
    PROVE  h[T] = g[T]
<1> DEFINE bad == {s \in SUBSET T : h[s] # g[s]}
<1>1. IsFiniteSet(T)
  BY FS_Subset
<1>2. ASSUME bad # {}
      PROVE  FALSE
  <2>0. bad \subseteq SUBSET T
    OBVIOUS
  <2> HIDE DEF bad
  <2>1. PICK s \in bad : \A r \in bad : r \subseteq s => r = s
    BY <2>0, <1>1, <1>2, MinimalSubset
  <2> USE DEF bad
  <2>2. s \in SUBSET T /\ h[s] # g[s] /\ h[s] = FoldStep(h, f, s) /\ g[s] = FoldStep(g, f, s)
    BY <2>1 DEF IsFold
  <2>3. s # {}
    BY <2>2 DEF FoldStep
  <2>4. s \ {First(s)} \notin bad
    BY <2>1, <2>3, FirstIsOne
  <2>5. h[s \ {First(s)}] = g[s \ {First(s)}]
    BY <2>2, <2>4
  <2>6. QED
    BY <2>2, <2>5 DEF FoldStep
<1>3. QED
  BY <1>2

\* The function of a fold is the sum of each subset.
LEMMA FoldIsSum ==
    ASSUME NEW S, IsFiniteSet(S), NEW f, NEW g, IsFold(g, f, S), NEW T \in SUBSET S
    PROVE  SumFunctionOnSet(f, T) = g[T]
<1>1. IsFiniteSet(T)
  BY FS_Subset
<1>2. PICK h : IsFold(h, f, T) /\ SumFunctionOnSet(f, T) = h[T]
  BY <1>1, SumIsFold, Zenon
<1>3. QED
  BY <1>2, FoldsAgree

-----------------------------------------------------------------------------
(* Facts about sums.                                                       *)

LEMMA SumEmpty ==
    ASSUME NEW f
    PROVE  SumFunctionOnSet(f, {}) = 0
<1>1. IsFiniteSet({})
  BY FS_EmptySet
<1>2. PICK g : IsFold(g, f, {}) /\ SumFunctionOnSet(f, {}) = g[{}]
  BY <1>1, SumIsFold, Zenon
<1>3. QED
  BY <1>2 DEF IsFold, FoldStep

LEMMA SumFirst ==
    ASSUME NEW S, IsFiniteSet(S), S # {}, NEW f
    PROVE  SumFunctionOnSet(f, S) = f[First(S)] + SumFunctionOnSet(f, S \ {First(S)})
<1>1. PICK g : IsFold(g, f, S)
  BY FoldExists, Zenon
<1>2. g[S] = f[First(S)] + g[S \ {First(S)}]
  BY <1>1 DEF IsFold, FoldStep
<1>3. SumFunctionOnSet(f, S) = g[S]
  BY <1>1, FoldIsSum
<1>4. SumFunctionOnSet(f, S \ {First(S)}) = g[S \ {First(S)}]
  BY <1>1, FoldIsSum
<1>5. QED
  BY <1>2, <1>3, <1>4

\* A set that is closed under addition has the sums of its members.
LEMMA SumClosed ==
    ASSUME NEW S, IsFiniteSet(S), NEW D, 0 \in D, \A i, j \in D : i + j \in D,
           NEW f, \A x \in S : f[x] \in D
    PROVE  SumFunctionOnSet(f, S) \in D
<1> DEFINE bad == {s \in SUBSET S : SumFunctionOnSet(f, s) \notin D}
<1>1. ASSUME bad # {}
      PROVE  FALSE
  <2>1. bad \subseteq SUBSET S
    OBVIOUS
  <2> HIDE DEF bad
  <2>2. PICK s \in bad : \A r \in bad : r \subseteq s => r = s
    BY <2>1, <1>1, MinimalSubset
  <2> USE DEF bad
  <2>3. {} \notin bad
    BY SumEmpty
  <2>4. s # {} /\ IsFiniteSet(s) /\ First(s) \in s
    BY <2>2, <2>3, FS_Subset, FirstIsOne
  <2>5. SumFunctionOnSet(f, s) = f[First(s)] + SumFunctionOnSet(f, s \ {First(s)})
    BY <2>4, SumFirst
  <2>6. SumFunctionOnSet(f, s \ {First(s)}) \in D
    BY <2>2, <2>4
  <2>7. QED
    BY <2>2, <2>4, <2>5, <2>6
<1>2. QED
  BY <1>1

LEMMA SumInt ==
    ASSUME NEW S, IsFiniteSet(S), NEW f, \A x \in S : f[x] \in Int
    PROVE  SumFunctionOnSet(f, S) \in Int
BY SumClosed

LEMMA SumNat ==
    ASSUME NEW S, IsFiniteSet(S), NEW f, \A x \in S : f[x] \in Nat
    PROVE  SumFunctionOnSet(f, S) \in Nat
<1>1. 0 \in Nat /\ \A i, j \in Nat : i + j \in Nat
  OBVIOUS
<1>2. QED
  BY <1>1, SumClosed, Zenon

\* Any element may be taken out, not just the one the fold takes first.
LEMMA SumRemove ==
    ASSUME NEW S, IsFiniteSet(S), NEW f, \A x \in S : f[x] \in Int, NEW y \in S
    PROVE  SumFunctionOnSet(f, S) = f[y] + SumFunctionOnSet(f, S \ {y})
<1> DEFINE sum(s) == SumFunctionOnSet(f, s)
           bad == {s \in SUBSET S : \E z \in s : sum(s) # f[z] + sum(s \ {z})}
<1>1. ASSUME NEW s \in SUBSET S
      PROVE  IsFiniteSet(s) /\ sum(s) \in Int
  BY <1>1, FS_Subset, SumInt
<1>2. ASSUME NEW s \in SUBSET S, s # {}
      PROVE  First(s) \in s /\ sum(s) = f[First(s)] + sum(s \ {First(s)})
  BY <1>1, <1>2, FirstIsOne, SumFirst
<1> HIDE DEF sum
<1>3. ASSUME bad # {}
      PROVE  FALSE
  <2>0. bad \subseteq SUBSET S
    OBVIOUS
  <2> HIDE DEF bad
  <2>1. PICK s \in bad : \A r \in bad : r \subseteq s => r = s
    BY <2>0, <1>3, MinimalSubset
  <2> USE DEF bad
  <2>2. PICK z \in s : sum(s) # f[z] + sum(s \ {z})
    BY <2>1
  <2> DEFINE x == First(s)
  <2>3. x \in s /\ sum(s) = f[x] + sum(s \ {x}) /\ x # z
    BY <1>2, <2>1, <2>2
  <2> HIDE DEF x
  <2>4. s \ {x} \notin bad /\ s \ {z} \notin bad
    BY <2>1, <2>2, <2>3
  <2>5. sum(s \ {x}) = f[z] + sum((s \ {x}) \ {z})
    BY <2>1, <2>2, <2>3, <2>4
  <2>6. sum(s \ {z}) = f[x] + sum((s \ {z}) \ {x})
    BY <2>1, <2>2, <2>3, <2>4
  <2> DEFINE rest == (s \ {x}) \ {z}
  <2>7. (s \ {z}) \ {x} = rest /\ rest \in SUBSET S
    BY <2>1
  <2> HIDE DEF rest
  <2>8. f[x] \in Int /\ f[z] \in Int /\ sum(rest) \in Int
    BY <1>1, <2>1, <2>2, <2>3, <2>7
  <2>9. sum(s \ {x}) = f[z] + sum(rest) /\ sum(s \ {z}) = f[x] + sum(rest)
    BY <2>5, <2>6, <2>7 DEF rest
  <2>10. QED
    BY <2>2, <2>3, <2>8, <2>9
<1>4. sum(S) = f[y] + sum(S \ {y})
  BY <1>3
<1>5. QED
  BY <1>4 DEF sum

\* A sum of sums, element by element.
LEMMA SumAdds ==
    ASSUME NEW S, IsFiniteSet(S), NEW f, NEW g, NEW h,
           \A x \in S : g[x] \in Int /\ h[x] \in Int /\ f[x] = g[x] + h[x]
    PROVE  SumFunctionOnSet(f, S) = SumFunctionOnSet(g, S) + SumFunctionOnSet(h, S)
<1> DEFINE bad == {s \in SUBSET S : SumFunctionOnSet(f, s) #
                                        SumFunctionOnSet(g, s) + SumFunctionOnSet(h, s)}
<1>1. ASSUME bad # {}
      PROVE  FALSE
  <2>0. bad \subseteq SUBSET S
    OBVIOUS
  <2> HIDE DEF bad
  <2>1. PICK s \in bad : \A r \in bad : r \subseteq s => r = s
    BY <2>0, <1>1, MinimalSubset
  <2> USE DEF bad
  <2>2. s # {}
    <3>1. /\ SumFunctionOnSet(f, {}) = 0
          /\ SumFunctionOnSet(g, {}) = 0
          /\ SumFunctionOnSet(h, {}) = 0
      BY SumEmpty
    <3>2. {} \notin bad
      BY <3>1
    <3>3. QED
      BY <2>1, <3>2
  <2> DEFINE x == First(s)
             rest == s \ {x}
  <2>3. IsFiniteSet(s) /\ x \in s
    BY <2>1, <2>2, FS_Subset, FirstIsOne
  <2>4. /\ SumFunctionOnSet(f, s) = f[x] + SumFunctionOnSet(f, rest)
        /\ SumFunctionOnSet(g, s) = g[x] + SumFunctionOnSet(g, rest)
        /\ SumFunctionOnSet(h, s) = h[x] + SumFunctionOnSet(h, rest)
    BY <2>2, <2>3, SumFirst
  <2> HIDE DEF x
  <2>5. rest \in SUBSET S /\ IsFiniteSet(rest)
    BY <2>1, <2>3, FS_Subset
  <2>6. SumFunctionOnSet(g, rest) \in Int /\ SumFunctionOnSet(h, rest) \in Int
    BY <2>5, SumInt
  <2>7. rest \notin bad
    BY <2>1, <2>3
  <2>8. SumFunctionOnSet(f, rest) = SumFunctionOnSet(g, rest) + SumFunctionOnSet(h, rest)
    BY <2>5, <2>7
  <2>9. g[x] \in Int /\ h[x] \in Int /\ f[x] = g[x] + h[x]
    BY <2>1, <2>3
  <2>10. SumFunctionOnSet(f, s) = SumFunctionOnSet(g, s) + SumFunctionOnSet(h, s)
    BY <2>4, <2>6, <2>8, <2>9
  <2>11. QED
    BY <2>1, <2>10
<1>2. QED
  BY <1>1

LEMMA SumZero ==
    ASSUME NEW S, IsFiniteSet(S), NEW f, \A x \in S : f[x] = 0
    PROVE  SumFunctionOnSet(f, S) = 0
<1>1. SumFunctionOnSet(f, S) \in Int
  BY SumInt
<1>2. SumFunctionOnSet(f, S) = SumFunctionOnSet(f, S) + SumFunctionOnSet(f, S)
  BY SumAdds
<1> DEFINE sum == SumFunctionOnSet(f, S)
<1>3. sum \in Int /\ sum = sum + sum
  BY <1>1, <1>2
<1> HIDE DEF sum
<1>4. sum = 0
  BY <1>3
<1>5. QED
  BY <1>4 DEF sum

LEMMA SumSame ==
    ASSUME NEW S, IsFiniteSet(S), NEW f, NEW g,
           \A x \in S : f[x] \in Int /\ f[x] = g[x]
    PROVE  SumFunctionOnSet(f, S) = SumFunctionOnSet(g, S)
<1> DEFINE zero == [x \in S |-> 0]
<1>1. SumFunctionOnSet(zero, S) = 0
  BY SumZero
<1>2. \A x \in S : g[x] \in Int /\ zero[x] \in Int /\ f[x] = g[x] + zero[x]
  OBVIOUS
<1> HIDE DEF zero
<1>3. SumFunctionOnSet(f, S) = SumFunctionOnSet(g, S) + SumFunctionOnSet(zero, S)
  BY <1>2, SumAdds
<1>4. SumFunctionOnSet(g, S) \in Int
  BY <1>2, SumInt
<1>5. QED
  BY <1>1, <1>3, <1>4

LEMMA SumMonotone ==
    ASSUME NEW S, IsFiniteSet(S), NEW f, NEW g,
           \A x \in S : f[x] \in Int /\ g[x] \in Int /\ f[x] <= g[x]
    PROVE  SumFunctionOnSet(f, S) <= SumFunctionOnSet(g, S)
<1> DEFINE gap == [x \in S |-> g[x] - f[x]]
<1>1. \A x \in S : f[x] \in Int /\ gap[x] \in Int /\ g[x] = f[x] + gap[x]
  OBVIOUS
<1>2. \A x \in S : gap[x] \in Nat
  OBVIOUS
<1> HIDE DEF gap
<1>3. SumFunctionOnSet(g, S) = SumFunctionOnSet(f, S) + SumFunctionOnSet(gap, S)
  BY <1>1, SumAdds
<1>4. SumFunctionOnSet(gap, S) \in Nat /\ SumFunctionOnSet(f, S) \in Int
  BY <1>1, <1>2, SumNat, SumInt
<1>5. QED
  BY <1>3, <1>4

\* A sum follows the one element that changes.
LEMMA SumUpdate ==
    ASSUME NEW S, IsFiniteSet(S), NEW f, NEW g, NEW y \in S,
           \A x \in S : f[x] \in Int /\ g[x] \in Int /\ (x # y => f[x] = g[x])
    PROVE  SumFunctionOnSet(g, S) = SumFunctionOnSet(f, S) - f[y] + g[y]
<1> DEFINE rest == S \ {y}
<1>1. IsFiniteSet(rest) /\ \A x \in rest : f[x] \in Int /\ f[x] = g[x]
  BY FS_Subset
<1>2. /\ SumFunctionOnSet(f, S) = f[y] + SumFunctionOnSet(f, rest)
      /\ SumFunctionOnSet(g, S) = g[y] + SumFunctionOnSet(g, rest)
  BY SumRemove
<1> HIDE DEF rest
<1>3. SumFunctionOnSet(f, rest) = SumFunctionOnSet(g, rest)
  BY <1>1, SumSame
<1>4. SumFunctionOnSet(f, rest) \in Int
  BY <1>1, SumInt
<1>5. QED
  BY <1>2, <1>3, <1>4

\* Elements that count nothing may be left out.
LEMMA SumSupport ==
    ASSUME NEW S, IsFiniteSet(S), NEW f, NEW T \in SUBSET S,
           \A x \in S : f[x] \in Int /\ (x \notin T => f[x] = 0)
    PROVE  SumFunctionOnSet(f, S) = SumFunctionOnSet(f, T)
<1> DEFINE sum(s) == SumFunctionOnSet(f, s)
           bad == {s \in SUBSET S : T \subseteq s /\ sum(s) # sum(T)}
<1>1. ASSUME bad # {}
      PROVE  FALSE
  <2>1. bad \subseteq SUBSET S
    OBVIOUS
  <2> HIDE DEF bad
  <2>2. PICK s \in bad : \A r \in bad : r \subseteq s => r = s
    BY <2>1, <1>1, MinimalSubset
  <2>3. s \in SUBSET S /\ T \subseteq s /\ sum(s) # sum(T)
    BY <2>2 DEF bad
  <2>4. PICK y \in s : y \notin T
    BY <2>3
  <2>5. s \ {y} \notin bad
    BY <2>2, <2>4
  <2>6. sum(s \ {y}) = sum(T)
    BY <2>3, <2>4, <2>5 DEF bad
  <2>7. IsFiniteSet(s) /\ IsFiniteSet(s \ {y}) /\ \A x \in s : f[x] \in Int
    BY <2>3, FS_Subset
  <2>8. sum(s) = f[y] + sum(s \ {y}) /\ sum(s \ {y}) \in Int
    BY <2>7, SumRemove, SumInt
  <2>9. f[y] = 0
    BY <2>3, <2>4
  <2>10. QED
    BY <2>3, <2>6, <2>8, <2>9
<1>2. QED
  BY <1>1

\* Two sums are in every relation that holds of their elements and survives addition.
LEMMA SumRelated ==
    ASSUME NEW S, IsFiniteSet(S), NEW R \in SUBSET (Int \X Int), <<0, 0>> \in R,
           \A a, b, c, d : <<a, b>> \in R /\ <<c, d>> \in R => <<a + c, b + d>> \in R,
           NEW f, NEW g, \A x \in S : <<f[x], g[x]>> \in R
    PROVE  <<SumFunctionOnSet(f, S), SumFunctionOnSet(g, S)>> \in R
<1> DEFINE related(s) == <<SumFunctionOnSet(f, s), SumFunctionOnSet(g, s)>> \in R
           bad == {s \in SUBSET S : ~ related(s)}
<1>1. ASSUME bad # {}
      PROVE  FALSE
  <2>1. bad \subseteq SUBSET S
    OBVIOUS
  <2> HIDE DEF bad
  <2>2. PICK s \in bad : \A r \in bad : r \subseteq s => r = s
    BY <2>1, <1>1, MinimalSubset
  <2>3. s \in SUBSET S /\ ~ related(s)
    BY <2>2 DEF bad
  <2>4. related({})
    BY SumEmpty
  <2>5. IsFiniteSet(s) /\ s # {}
    BY <2>3, <2>4, FS_Subset
  <2> DEFINE x == First(s)
  <2>6. x \in s
    BY <2>5, FirstIsOne
  <2>7. /\ SumFunctionOnSet(f, s) = f[x] + SumFunctionOnSet(f, s \ {x})
        /\ SumFunctionOnSet(g, s) = g[x] + SumFunctionOnSet(g, s \ {x})
    BY <2>5, SumFirst
  <2> HIDE DEF x
  <2>8. s \ {x} \notin bad
    BY <2>2, <2>6
  <2>9. related(s \ {x})
    BY <2>3, <2>8 DEF bad
  <2>10. <<f[x], g[x]>> \in R
    BY <2>3, <2>6
  <2>11. QED
    BY <2>3, <2>7, <2>9, <2>10
<1>2. QED
  BY <1>1

LEMMA SumTimes ==
    ASSUME NEW S, IsFiniteSet(S), NEW c \in Int, NEW f, NEW g,
           \A x \in S : f[x] \in Int /\ g[x] = c * f[x]
    PROVE  SumFunctionOnSet(g, S) = c * SumFunctionOnSet(f, S)
<1> DEFINE R == {p \in Int \X Int : p[2] = c * p[1]}
<1>1. \A a, b : <<a, b>> \in R <=> a \in Int /\ b \in Int /\ b = c * a
  OBVIOUS
<1>2. R \in SUBSET (Int \X Int)
  OBVIOUS
<1> HIDE DEF R
<1>3. \A a, d \in Int : c * (a + d) = c * a + c * d
  OBVIOUS
<1>4. <<0, 0>> \in R
  BY <1>1
<1>5. ASSUME NEW a, NEW b, NEW d, NEW e, <<a, b>> \in R, <<d, e>> \in R
      PROVE  <<a + d, b + e>> \in R
  <2>1. a \in Int /\ b \in Int /\ d \in Int /\ e \in Int /\ b = c * a /\ e = c * d
    BY <1>1, <1>5
  <2>2. b + e = c * (a + d)
    BY <1>3, <2>1
  <2>3. QED
    BY <1>1, <2>1, <2>2
<1>6. \A x \in S : <<f[x], g[x]>> \in R
  BY <1>1
<1>7. <<SumFunctionOnSet(f, S), SumFunctionOnSet(g, S)>> \in R
  BY <1>2, <1>4, <1>5, <1>6, SumRelated
<1>8. QED
  BY <1>1, <1>7

LEMMA SumOnes ==
    ASSUME NEW S, IsFiniteSet(S), NEW f, \A x \in S : f[x] = 1
    PROVE  SumFunctionOnSet(f, S) = Cardinality(S)
<1> DEFINE bad == {s \in SUBSET S : SumFunctionOnSet(f, s) # Cardinality(s)}
<1>1. ASSUME bad # {}
      PROVE  FALSE
  <2>1. bad \subseteq SUBSET S
    OBVIOUS
  <2> HIDE DEF bad
  <2>2. PICK s \in bad : \A r \in bad : r \subseteq s => r = s
    BY <2>1, <1>1, MinimalSubset
  <2>3. s \in SUBSET S /\ SumFunctionOnSet(f, s) # Cardinality(s)
    BY <2>2 DEF bad
  <2>4. IsFiniteSet(s) /\ s # {}
    BY <2>3, SumEmpty, FS_EmptySet, FS_Subset
  <2> DEFINE x == First(s)
  <2>5. x \in s
    BY <2>4, FirstIsOne
  <2>6. SumFunctionOnSet(f, s) = f[x] + SumFunctionOnSet(f, s \ {x})
    BY <2>4, SumFirst
  <2> HIDE DEF x
  <2>7. s \ {x} \notin bad
    BY <2>2, <2>5
  <2>8. SumFunctionOnSet(f, s \ {x}) = Cardinality(s \ {x})
    BY <2>3, <2>7 DEF bad
  <2>9. /\ Cardinality(s) \in Nat /\ Cardinality(s \ {x}) = Cardinality(s) - 1
    BY <2>4, <2>5, FS_CardinalityType, FS_RemoveElement
  <2>10. f[x] = 1
    BY <2>3, <2>5
  <2>11. QED
    BY <2>3, <2>6, <2>8, <2>9, <2>10
<1>2. QED
  BY <1>1

LEMMA SumOne ==
    ASSUME NEW f, NEW y, f[y] \in Int
    PROVE  SumFunctionOnSet(f, {y}) = f[y]
<1>1. IsFiniteSet({y}) /\ {y} \ {y} = {}
  BY FS_Singleton
<1>2. \A x \in {y} : f[x] \in Int
  OBVIOUS
<1>3. SumFunctionOnSet(f, {y}) = f[y] + SumFunctionOnSet(f, {y} \ {y})
  BY <1>1, <1>2, SumRemove
<1>4. QED
  BY <1>1, <1>3, SumEmpty

\* A sum is that of the elements of a part and that of the others.
LEMMA SumSplit ==
    ASSUME NEW S, IsFiniteSet(S), NEW f, \A x \in S : f[x] \in Int, NEW A \in SUBSET S
    PROVE  SumFunctionOnSet(f, S) = SumFunctionOnSet(f, A) + SumFunctionOnSet(f, S \ A)
<1> DEFINE B == S \ A
           in == [x \in S |-> IF x \in A THEN f[x] ELSE 0]
           out == [x \in S |-> IF x \in A THEN 0 ELSE f[x]]
<1>1. /\ \A x \in S : in[x] \in Int /\ out[x] \in Int /\ f[x] = in[x] + out[x]
      /\ \A x \in S : (x \notin A => in[x] = 0) /\ (x \notin B => out[x] = 0)
      /\ \A x \in A : in[x] \in Int /\ in[x] = f[x]
      /\ \A x \in B : out[x] \in Int /\ out[x] = f[x]
  OBVIOUS
<1>2. IsFiniteSet(A) /\ IsFiniteSet(B) /\ B \in SUBSET S
  BY FS_Subset
<1> HIDE DEF B, in, out
<1>3. SumFunctionOnSet(f, S) = SumFunctionOnSet(in, S) + SumFunctionOnSet(out, S)
  BY <1>1, SumAdds
<1>4. SumFunctionOnSet(in, S) = SumFunctionOnSet(in, A)
  BY <1>1, SumSupport
<1>5. SumFunctionOnSet(out, S) = SumFunctionOnSet(out, B)
  BY <1>1, <1>2, SumSupport
<1>6. SumFunctionOnSet(in, A) = SumFunctionOnSet(f, A)
  BY <1>1, <1>2, SumSame
<1>7. SumFunctionOnSet(out, B) = SumFunctionOnSet(f, B)
  BY <1>1, <1>2, SumSame
<1>8. QED
  BY <1>3, <1>4, <1>5, <1>6, <1>7 DEF B

LEMMA SumSubset ==
    ASSUME NEW S, IsFiniteSet(S), NEW f, \A x \in S : f[x] \in Nat, NEW A \in SUBSET S
    PROVE  SumFunctionOnSet(f, A) <= SumFunctionOnSet(f, S)
<1> DEFINE B == S \ A
<1>1. IsFiniteSet(A) /\ IsFiniteSet(B) /\ B \in SUBSET S
  BY FS_Subset
<1> HIDE DEF B
<1>2. SumFunctionOnSet(f, A) \in Nat /\ SumFunctionOnSet(f, B) \in Nat
  BY <1>1, SumNat
<1>3. SumFunctionOnSet(f, S) = SumFunctionOnSet(f, A) + SumFunctionOnSet(f, B)
  <2>1. \A x \in S : f[x] \in Int
    OBVIOUS
  <2>2. QED
    BY <2>1, SumSplit DEF B
<1>4. QED
  BY <1>2, <1>3

\* The elements may be summed up by groups.
LEMMA SumGroups ==
    ASSUME NEW S, IsFiniteSet(S), NEW f, \A x \in S : f[x] \in Int,
           NEW G, IsFiniteSet(G), NEW group, \A x \in S : group[x] \in G,
           NEW part, \A g \in G : part[g] = {x \in S : group[x] = g},
           NEW h, \A g \in G : h[g] = SumFunctionOnSet(f, part[g])
    PROVE  SumFunctionOnSet(h, G) = SumFunctionOnSet(f, S)
<1> DEFINE of(g) == {x \in S : group[x] \in g}
           bad == {g \in SUBSET G : SumFunctionOnSet(h, g) # SumFunctionOnSet(f, of(g))}
<1>1. ASSUME bad # {}
      PROVE  FALSE
  <2>1. bad \subseteq SUBSET G
    OBVIOUS
  <2> HIDE DEF bad
  <2>2. PICK s \in bad : \A r \in bad : r \subseteq s => r = s
    BY <2>1, <1>1, MinimalSubset
  <2>3. s \in SUBSET G /\ SumFunctionOnSet(h, s) # SumFunctionOnSet(f, of(s))
    BY <2>2 DEF bad
  <2>4. s # {}
    <3>1. of({}) = {}
      OBVIOUS
    <3>2. QED
      BY <2>3, <3>1, SumEmpty
  <2>5. PICK y \in s : TRUE
    BY <2>4
  <2> DEFINE A == {x \in S : group[x] = y}
             rest == s \ {y}
  <2>6. /\ A \in SUBSET of(s) /\ of(s) \ A = of(rest)
        /\ of(s) \in SUBSET S /\ rest \in SUBSET G
    BY <2>3, <2>5
  <2>7. rest \notin bad
    BY <2>2, <2>5
  <2>8. SumFunctionOnSet(h, rest) = SumFunctionOnSet(f, of(rest))
    BY <2>6, <2>7 DEF bad
  <2>9. IsFiniteSet(s) /\ \A g \in s : h[g] \in Int
    <3>1. ASSUME NEW g \in G
          PROVE  h[g] \in Int
      <4> DEFINE X == {x \in S : group[x] = g}
      <4>1. IsFiniteSet(X) /\ \A x \in X : f[x] \in Int
        BY FS_Subset
      <4> HIDE DEF X
      <4>2. SumFunctionOnSet(f, X) \in Int
        BY <4>1, SumInt
      <4>3. QED
        BY <4>2 DEF X
    <3>2. QED
      BY <2>3, <3>1, FS_Subset
  <2>10. SumFunctionOnSet(h, s) = h[y] + SumFunctionOnSet(h, rest)
    BY <2>9, SumRemove
  <2>11. IsFiniteSet(of(s)) /\ \A x \in of(s) : f[x] \in Int
    BY <2>6, FS_Subset
  <2>12. h[y] = SumFunctionOnSet(f, A)
    BY <2>3
  <2> HIDE DEF A, rest, of
  <2>13. SumFunctionOnSet(f, of(s)) = SumFunctionOnSet(f, A) + SumFunctionOnSet(f, of(s) \ A)
    BY <2>6, <2>11, SumSplit
  <2>14. QED
    BY <2>3, <2>6, <2>8, <2>10, <2>12, <2>13
<1>2. SumFunctionOnSet(h, G) = SumFunctionOnSet(f, of(G))
  BY <1>1
<1>3. of(G) = S
  OBVIOUS
<1>4. QED
  BY <1>2, <1>3

\* Elements may be renamed.
LEMMA SumImage ==
    ASSUME NEW S, IsFiniteSet(S), NEW f, \A x \in S : f[x] \in Int,
           NEW T, NEW m \in [S -> T], \A t \in T : \E x \in S : m[x] = t,
           \A x, y \in S : m[x] = m[y] => x = y,
           NEW g, \A x \in S : g[m[x]] = f[x]
    PROVE  SumFunctionOnSet(g, T) = SumFunctionOnSet(f, S)
<1>1. IsFiniteSet(T)
  <2>1. m \in Surjection(S, T)
    BY DEF Surjection
  <2>2. QED
    BY <2>1, FS_Surjection
<1>2. ASSUME NEW t \in T
      PROVE  g[t] = SumFunctionOnSet(f, {x \in S : m[x] = t})
  <2>1. PICK x \in S : m[x] = t
    OBVIOUS
  <2>2. {y \in S : m[y] = t} = {x}
    BY <2>1
  <2>3. SumFunctionOnSet(f, {x}) = f[x]
    BY SumOne
  <2>4. QED
    BY <2>1, <2>2, <2>3
<1> DEFINE part == [t \in T |-> {x \in S : m[x] = t}]
<1>3. \A t \in T : part[t] = {x \in S : m[x] = t} /\ g[t] = SumFunctionOnSet(f, part[t])
  BY <1>2
<1> HIDE DEF part
<1>4. QED
  BY <1>1, <1>3, SumGroups
=============================================================================
