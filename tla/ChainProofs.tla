----------------------------- MODULE ChainProofs -----------------------------
(***************************************************************************)
(* The uTxOuts, the undo log and the state replaceChain computes at a fork *)
(* are exact, for every set of blocks, every candidate and every value of  *)
(* the parameters.                                                         *)
(***************************************************************************)
EXTENDS Chain, FiniteSetTheorems, WellFoundedInduction, TLAPS

-----------------------------------------------------------------------------
(***************************************************************************)
(* Facts about the operators of Ledger, and about the sums they take.      *)
(***************************************************************************)

(* A nonempty set of numbers has a least one.                              *)
LEMMA LeastNumber ==
  ASSUME NEW T \in SUBSET Nat, T # {}
  PROVE  \E x \in T : \A y \in T : x <= y
<1>1. PICK x \in T : \A y \in T : ~ (<<y, x>> \in OpToRel(<, Nat))
  BY NatLessThanWellFounded, WFMin
<1>2. ASSUME NEW y \in T PROVE x <= y
  <2>1. ~ (y < x)
    BY <1>1 DEF OpToRel
  <2> QED
    BY <2>1
<1> QED
  BY <1>2

(* Among sets of elements of a finite set one has no smaller one, by an    *)
(* element, among them.                                                    *)
LEMMA LeastSet ==
  ASSUME NEW S, IsFiniteSet(S), NEW Bad \in SUBSET SUBSET S, Bad # {}
  PROVE  \E s \in Bad : \A x \in s : s \ {x} \notin Bad
<1> DEFINE sizes == {Cardinality(s) : s \in Bad}
<1>1. \A s \in Bad : IsFiniteSet(s) /\ Cardinality(s) \in Nat
  BY FS_Subset, FS_CardinalityType
<1>2. sizes \in SUBSET Nat /\ sizes # {}
  BY <1>1
<1>3. PICK n \in sizes : \A m \in sizes : n <= m
  <2> HIDE DEF sizes
  <2> QED
    BY <1>2, LeastNumber
<1>4. PICK s \in Bad : n = Cardinality(s)
  OBVIOUS
<1>5. ASSUME NEW x \in s, s \ {x} \in Bad PROVE FALSE
  <2>1. Cardinality(s \ {x}) = Cardinality(s) - 1
    BY <1>1, FS_RemoveElement
  <2>2. Cardinality(s) <= Cardinality(s \ {x})
    BY <1>3, <1>4, <1>5
  <2> QED
    BY <2>1, <2>2, <1>1
<1> QED
  BY <1>4, <1>5

\* The place of i among the places.
Rank(i, places) == Cardinality({j \in places : j <= i})

(* The ranks of a finite set of numbers go up with them, from 1 to its     *)
(* size, without a gap.                                                    *)
LEMMA Ranks ==
  ASSUME NEW n \in Nat, NEW places \in SUBSET (1..n)
  PROVE  /\ Cardinality(places) \in Nat /\ Cardinality(places) <= n
         /\ \A i \in places : Rank(i, places) \in 1..Cardinality(places)
         /\ \A i, j \in places : i < j => Rank(i, places) < Rank(j, places)
         /\ \A k \in 1..Cardinality(places) : \E i \in places : Rank(i, places) = k
<1> DEFINE below(i) == {j \in places : j <= i}
           size == Cardinality(places)
<1>1. IsFiniteSet(places) /\ size \in Nat /\ size <= n
  <2>1. 1 \in Int /\ n \in Int
    OBVIOUS
  <2>2. IsFiniteSet(1..n) /\ Cardinality(1..n) = n
    BY <2>1, FS_Interval
  <2> QED
    BY <2>2, FS_Subset, FS_CardinalityType
<1>2. ASSUME NEW i \in places
      PROVE  IsFiniteSet(below(i)) /\ Cardinality(below(i)) \in 1..size
  <2>1. below(i) \in SUBSET places /\ below(i) # {}
    OBVIOUS
  <2> HIDE DEF below
  <2>2. IsFiniteSet(below(i)) /\ Cardinality(below(i)) <= size
    BY <1>1, <2>1, FS_Subset
  <2>3. Cardinality(below(i)) \in Nat /\ Cardinality(below(i)) # 0
    BY <2>1, <2>2, FS_CardinalityType, FS_EmptySet
  <2> QED
    BY <1>1, <2>2, <2>3
<1>3. ASSUME NEW i \in places, NEW j \in places, i < j
      PROVE  Cardinality(below(i)) < Cardinality(below(j))
  <2>1. below(i) \in SUBSET below(j) /\ j \in below(j) /\ j \notin below(i)
    <3>1. i \in Int /\ j \in Int /\ \A m \in places : m \in Int
      OBVIOUS
    <3>2. ASSUME NEW m \in places, m <= i PROVE m <= j
      BY ONLY <1>3, <3>1, <3>2
    <3>3. j <= j /\ ~ (j <= i)
      BY ONLY <1>3, <3>1
    <3> QED
      BY <3>2, <3>3
  <2> HIDE DEF below
  <2>2. Cardinality(below(i)) <= Cardinality(below(j)) /\ Cardinality(below(i)) # Cardinality(below(j))
    BY <1>2, <2>1, FS_Subset
  <2> QED
    BY <1>1, <1>2, <2>2
<1>4. ASSUME NEW k \in 1..size
      PROVE  \E i \in places : Cardinality(below(i)) = k
  <2> DEFINE f == [i \in places |-> Cardinality(below(i))]
             whole == 1..size
  <2>1. 1 \in Int /\ size \in Int
    BY <1>1
  <2>2. IsFiniteSet(whole) /\ Cardinality(whole) = size
    <3> HIDE DEF size
    <3> QED
      BY <1>1, <2>1, FS_Interval
  <2>3. f \in Injection(places, whole)
    <3>1. f \in [places -> whole]
      BY <1>2
    <3>2. ASSUME NEW i \in places, NEW j \in places, f[i] = f[j] PROVE i = j
      <4> SUFFICES ASSUME i # j PROVE FALSE
        OBVIOUS
      <4>1. i < j \/ j < i
        OBVIOUS
      <4>2. f[i] = Cardinality(below(i)) /\ f[j] = Cardinality(below(j))
        OBVIOUS
      <4>3. f[i] \in Int /\ f[j] \in Int
        BY <1>2, <4>2
      <4> HIDE DEF f, below
      <4>4. ASSUME i < j PROVE f[i] < f[j]
        BY <1>3, <4>2, <4>4
      <4>5. ASSUME j < i PROVE f[j] < f[i]
        BY <1>3, <4>2, <4>5
      <4> QED
        BY <3>2, <4>1, <4>3, <4>4, <4>5
    <3> HIDE DEF f, whole
    <3> QED
      BY <3>1, <3>2 DEF Injection, IsInjective
  <2>4. f \in Surjection(places, whole)
    <3> HIDE DEF f, whole
    <3> QED
      BY <2>2, <2>3, FS_Injection
  <2>5. k \in whole
    OBVIOUS
  <2>6. PICK i \in places : f[i] = k
    <3> HIDE DEF f, whole
    <3> QED
      BY <2>4, <2>5 DEF Surjection
  <2> QED
    BY <2>6
<1> QED
  BY <1>1, <1>2, <1>3, <1>4 DEF Rank

-----------------------------------------------------------------------------
(* Sums.  SumFunction is a recursion over the subsets of a finite set; the *)
(* proofs are by a least counterexample among those subsets.               *)

\* The element a sum takes first, and the function of subsets it is.
Chosen(s) == CHOOSE x \in s : TRUE
Sums(f, D) == CHOOSE g : g = [s \in D |-> IF s = {} THEN 0
                                          ELSE f[Chosen(s)] + g[s \ {Chosen(s)}]]
IsSums(f, D, g) == g = [s \in D |-> IF s = {} THEN 0
                                    ELSE f[Chosen(s)] + g[s \ {Chosen(s)}]]

(* A sum is the value of that function at the whole set.                   *)
LEMMA SumIs ==
  ASSUME NEW f, NEW S
  PROVE  SumFunctionOnSet(f, S) = Sums(f, SUBSET S)[S]
BY DEF SumFunctionOnSet, FoldFunctionOnSet, MapThenFoldSet, Sums, Chosen

(* A set that is not empty has the element a sum takes first.              *)
LEMMA ChosenIn ==
  ASSUME NEW s, s # {}
  PROVE  Chosen(s) \in s
BY DEF Chosen

(* The sums over the subsets of a finite set exist.                        *)
LEMMA SumsExist ==
  ASSUME NEW f, NEW S, IsFiniteSet(S)
  PROVE  IsSums(f, SUBSET S, Sums(f, SUBSET S))
<1> DEFINE UpTo(n) == {s \in SUBSET S : Cardinality(s) <= n}
           Bad == {n \in Nat : ~ \E g : IsSums(f, UpTo(n), g)}
<1>1. \A s \in SUBSET S : IsFiniteSet(s) /\ Cardinality(s) \in Nat
  BY FS_Subset, FS_CardinalityType
<1>2. Bad = {}
  <2> SUFFICES ASSUME Bad # {} PROVE FALSE
    OBVIOUS
  <2>1. PICK n \in Bad : \A m \in Bad : n <= m
    <3>1. Bad \in SUBSET Nat
      OBVIOUS
    <3> HIDE DEF Bad
    <3> QED
      BY <3>1, LeastNumber
  <2>2. n \in Nat /\ ~ \E g : IsSums(f, UpTo(n), g)
    OBVIOUS
  <2>3. CASE n = 0
    <3>1. \A s \in UpTo(n) : s = {}
      BY <1>1, <2>3, FS_EmptySet
    <3> DEFINE g == [s \in UpTo(n) |-> 0]
    <3>2. g = [s \in UpTo(n) |-> IF s = {} THEN 0 ELSE f[Chosen(s)] + g[s \ {Chosen(s)}]]
      BY <3>1
    <3>3. IsSums(f, UpTo(n), g)
      BY <3>2 DEF IsSums
    <3> QED
      BY <3>3, <2>2
  <2>4. CASE n # 0
    <3>1. n - 1 \in Nat /\ n - 1 \notin Bad
      <4>1. n - 1 \in Nat /\ ~ (n <= n - 1)
        BY <2>2, <2>4
      <4> HIDE DEF Bad
      <4> QED
        BY <4>1, <2>1
    <3>2. PICK g : IsSums(f, UpTo(n - 1), g)
      BY <3>1
    <3> DEFINE h == [s \in UpTo(n) |-> IF s = {} THEN 0 ELSE f[Chosen(s)] + g[s \ {Chosen(s)}]]
    <3>3. ASSUME NEW s \in UpTo(n), s # {}
          PROVE  s \ {Chosen(s)} \in UpTo(n - 1) /\ s \ {Chosen(s)} \in UpTo(n)
      <4>1. Chosen(s) \in s
        BY <3>3, ChosenIn
      <4>2. Cardinality(s \ {Chosen(s)}) = Cardinality(s) - 1
        BY <1>1, <4>1, FS_RemoveElement
      <4>3. Cardinality(s) <= n /\ Cardinality(s) \in Nat
        BY <1>1
      <4> QED
        BY <4>2, <4>3, <2>2
    <3>4. ASSUME NEW t \in UpTo(n - 1), t \in UpTo(n) PROVE h[t] = g[t]
      <4>1. g[t] = IF t = {} THEN 0 ELSE f[Chosen(t)] + g[t \ {Chosen(t)}]
        <5> HIDE DEF UpTo
        <5> QED
          BY <3>2 DEF IsSums
      <4> QED
        BY <4>1, <3>4
    <3>5. h = [s \in UpTo(n) |-> IF s = {} THEN 0 ELSE f[Chosen(s)] + h[s \ {Chosen(s)}]]
      <4>1. ASSUME NEW s \in UpTo(n), s # {} PROVE h[s \ {Chosen(s)}] = g[s \ {Chosen(s)}]
        <5> HIDE DEF h, UpTo
        <5> QED
          BY <4>1, <3>3, <3>4
      <4> HIDE DEF UpTo
      <4> QED
        BY <4>1
    <3>6. IsSums(f, UpTo(n), h)
      <4> HIDE DEF h, UpTo
      <4> QED
        BY <3>5 DEF IsSums
    <3> QED
      BY <3>6, <2>2
  <2> QED
    BY <2>3, <2>4
<1>3. PICK g : IsSums(f, UpTo(Cardinality(S)), g)
  BY <1>1, <1>2
<1>4. UpTo(Cardinality(S)) = SUBSET S
  BY <1>1, FS_Subset
<1>5. IsSums(f, SUBSET S, g)
  BY <1>3, <1>4
<1> QED
  BY <1>5 DEF IsSums, Sums

(* They agree where both are defined.                                      *)
LEMMA SumsAgree ==
  ASSUME NEW f, NEW S, IsFiniteSet(S), NEW g, NEW h, NEW R \in SUBSET S,
         IsSums(f, SUBSET S, g), IsSums(f, SUBSET R, h)
  PROVE  g[R] = h[R]
<1> DEFINE Bad == {s \in SUBSET R : g[s] # h[s]}
<1>1. Bad = {}
  <2> SUFFICES ASSUME Bad # {} PROVE FALSE
    OBVIOUS
  <2>1. PICK s \in Bad : \A x \in s : s \ {x} \notin Bad
    <3>1. IsFiniteSet(R) /\ Bad \in SUBSET SUBSET R
      BY FS_Subset
    <3> HIDE DEF Bad
    <3> QED
      BY <3>1, LeastSet
  <2>2. s \in SUBSET R /\ s \in SUBSET S
    OBVIOUS
  <2>3. /\ g[s] = IF s = {} THEN 0 ELSE f[Chosen(s)] + g[s \ {Chosen(s)}]
        /\ h[s] = IF s = {} THEN 0 ELSE f[Chosen(s)] + h[s \ {Chosen(s)}]
    BY <2>2 DEF IsSums
  <2>4. s # {} => g[s \ {Chosen(s)}] = h[s \ {Chosen(s)}]
    BY <2>1, <2>2, ChosenIn
  <2>5. g[s] = h[s]
    BY <2>3, <2>4
  <2> QED
    BY <2>5
<1>2. R \in SUBSET R /\ R \notin Bad
  BY <1>1
<1> QED
  BY <1>2

(* A sum of nothing is 0; a sum is its chosen element and the sum of the   *)
(* others.                                                                 *)
LEMMA SumStep ==
  ASSUME NEW f, NEW S, IsFiniteSet(S)
  PROVE  SumFunctionOnSet(f, S) =
           IF S = {} THEN 0 ELSE f[Chosen(S)] + SumFunctionOnSet(f, S \ {Chosen(S)})
<1> DEFINE g == Sums(f, SUBSET S)
           R == S \ {Chosen(S)}
           h == Sums(f, SUBSET R)
<1>1. IsFiniteSet(R) /\ R \in SUBSET S
  BY FS_Subset
<1>2. IsSums(f, SUBSET S, g) /\ IsSums(f, SUBSET R, h)
  BY <1>1, SumsExist
<1>3. SumFunctionOnSet(f, S) = g[S] /\ SumFunctionOnSet(f, R) = h[R]
  BY SumIs
<1> HIDE DEF g, h
<1>4. g[R] = h[R]
  <2> HIDE DEF R
  <2> QED
    BY <1>1, <1>2, SumsAgree
<1>5. g[S] = IF S = {} THEN 0 ELSE f[Chosen(S)] + g[R]
  BY <1>2 DEF IsSums
<1> QED
  BY <1>3, <1>4, <1>5

(* Sums of numbers are numbers.                                            *)
LEMMA SumType ==
  ASSUME NEW T \in {Nat, Int}, NEW f, NEW S, IsFiniteSet(S), \A x \in S : f[x] \in T
  PROVE  SumFunctionOnSet(f, S) \in T
<1> DEFINE Bad == {s \in SUBSET S : SumFunctionOnSet(f, s) \notin T}
<1>1. Bad = {}
  <2> SUFFICES ASSUME Bad # {} PROVE FALSE
    OBVIOUS
  <2>1. PICK s \in Bad : \A x \in s : s \ {x} \notin Bad
    <3>1. Bad \in SUBSET SUBSET S
      OBVIOUS
    <3> HIDE DEF Bad
    <3> QED
      BY <3>1, LeastSet
  <2>2. s \in SUBSET S /\ IsFiniteSet(s)
    BY FS_Subset
  <2>3. CASE s = {}
    <3>1. SumFunctionOnSet(f, s) = 0
      BY <2>2, <2>3, SumStep
    <3> QED
      BY <3>1
  <2>4. CASE s # {}
    <3>1. Chosen(s) \in s
      BY <2>4, ChosenIn
    <3>2. SumFunctionOnSet(f, s \ {Chosen(s)}) \in T /\ f[Chosen(s)] \in T
      BY <2>1, <2>2, <3>1
    <3>3. SumFunctionOnSet(f, s) = f[Chosen(s)] + SumFunctionOnSet(f, s \ {Chosen(s)})
      BY <2>2, <2>4, SumStep
    <3>4. \A m, n \in T : m + n \in T
      OBVIOUS
    <3>5. SumFunctionOnSet(f, s) \in T
      BY <3>2, <3>3, <3>4
    <3> QED
      BY <3>5
  <2> QED
    BY <2>3, <2>4
<1>2. S \in SUBSET S
  OBVIOUS
<1> QED
  BY <1>1, <1>2

(* Any element can be taken out first.                                     *)
LEMMA SumRemove ==
  ASSUME NEW f, NEW S, IsFiniteSet(S), \A x \in S : f[x] \in Int, NEW a \in S
  PROVE  SumFunctionOnSet(f, S) = f[a] + SumFunctionOnSet(f, S \ {a})
<1> DEFINE Sum(s) == SumFunctionOnSet(f, s)
           Bad == {s \in SUBSET S : \E b \in s : Sum(s) # f[b] + Sum(s \ {b})}
<1>1. \A s \in SUBSET S : IsFiniteSet(s) /\ Sum(s) \in Int
  BY FS_Subset, SumType
<1>2. Bad = {}
  <2> SUFFICES ASSUME Bad # {} PROVE FALSE
    OBVIOUS
  <2>1. PICK s \in Bad : \A x \in s : s \ {x} \notin Bad
    <3>1. Bad \in SUBSET SUBSET S
      OBVIOUS
    <3> HIDE DEF Bad
    <3> QED
      BY <3>1, LeastSet
  <2>2. PICK b \in s : Sum(s) # f[b] + Sum(s \ {b})
    OBVIOUS
  <2>3. s \in SUBSET S /\ IsFiniteSet(s) /\ s # {}
    BY <1>1
  <2> DEFINE c == Chosen(s)
  <2>4. c \in s /\ Sum(s) = f[c] + Sum(s \ {c})
    BY <2>3, ChosenIn, SumStep
  <2>5. c # b
    BY <2>2, <2>4
  <2>6. s \ {c} \in SUBSET S /\ s \ {b} \in SUBSET S /\ b \in s \ {c} /\ c \in s \ {b}
    BY <2>3, <2>4, <2>5
  <2> HIDE DEF c
  <2>7. Sum(s \ {c}) = f[b] + Sum((s \ {c}) \ {b})
    BY <2>1, <2>4, <2>6
  <2>8. Sum(s \ {b}) = f[c] + Sum((s \ {b}) \ {c})
    BY <2>1, <2>6
  <2>9. (s \ {c}) \ {b} = (s \ {b}) \ {c}
    OBVIOUS
  <2> DEFINE n == Sum((s \ {b}) \ {c})
  <2>10. f[b] \in Int /\ f[c] \in Int /\ n \in Int
    BY <1>1, <2>3, <2>4
  <2>11. Sum(s) = f[c] + (f[b] + n)
    BY <2>4, <2>7, <2>9
  <2>12. Sum(s) # f[b] + (f[c] + n)
    BY <2>2, <2>8
  <2> HIDE DEF n, Sum
  <2> QED
    BY <2>10, <2>11, <2>12
<1>3. S \in SUBSET S /\ S \notin Bad
  BY <1>2
<1> QED
  BY <1>3

(* Functions that agree on a set have the same sum over it.                *)
LEMMA SumSame ==
  ASSUME NEW f, NEW g, NEW S, IsFiniteSet(S), \A x \in S : f[x] = g[x]
  PROVE  SumFunctionOnSet(f, S) = SumFunctionOnSet(g, S)
<1> DEFINE Bad == {s \in SUBSET S : SumFunctionOnSet(f, s) # SumFunctionOnSet(g, s)}
<1>1. Bad = {}
  <2> SUFFICES ASSUME Bad # {} PROVE FALSE
    OBVIOUS
  <2>1. PICK s \in Bad : \A x \in s : s \ {x} \notin Bad
    <3>1. Bad \in SUBSET SUBSET S
      OBVIOUS
    <3> HIDE DEF Bad
    <3> QED
      BY <3>1, LeastSet
  <2>2. s \in SUBSET S /\ IsFiniteSet(s)
    BY FS_Subset
  <2>3. /\ SumFunctionOnSet(f, s) = IF s = {} THEN 0
              ELSE f[Chosen(s)] + SumFunctionOnSet(f, s \ {Chosen(s)})
        /\ SumFunctionOnSet(g, s) = IF s = {} THEN 0
              ELSE g[Chosen(s)] + SumFunctionOnSet(g, s \ {Chosen(s)})
    BY <2>2, SumStep
  <2>4. s # {} => /\ f[Chosen(s)] = g[Chosen(s)]
                  /\ SumFunctionOnSet(f, s \ {Chosen(s)}) = SumFunctionOnSet(g, s \ {Chosen(s)})
    BY <2>1, <2>2, ChosenIn
  <2>5. SumFunctionOnSet(f, s) = SumFunctionOnSet(g, s)
    BY <2>3, <2>4
  <2> QED
    BY <2>5
<1>2. S \in SUBSET S
  OBVIOUS
<1> QED
  BY <1>1, <1>2

(* The sum over two disjoint sets is the two sums together.                *)
LEMMA SumUnion ==
  ASSUME NEW f, NEW S, IsFiniteSet(S), NEW T, IsFiniteSet(T), S \cap T = {},
         \A x \in S \cup T : f[x] \in Int
  PROVE  SumFunctionOnSet(f, S \cup T) = SumFunctionOnSet(f, S) + SumFunctionOnSet(f, T)
<1> DEFINE Sum(s) == SumFunctionOnSet(f, s)
           Bad == {t \in SUBSET T : Sum(S \cup t) # Sum(S) + Sum(t)}
<1>1. /\ Sum(S) \in Int
      /\ \A t \in SUBSET T : IsFiniteSet(t) /\ IsFiniteSet(S \cup t) /\ Sum(t) \in Int
  BY FS_Subset, FS_Union, SumType
<1>2. Bad = {}
  <2> SUFFICES ASSUME Bad # {} PROVE FALSE
    OBVIOUS
  <2>1. PICK t \in Bad : \A x \in t : t \ {x} \notin Bad
    <3>1. Bad \in SUBSET SUBSET T
      OBVIOUS
    <3> HIDE DEF Bad
    <3> QED
      BY <3>1, LeastSet
  <2>2. t \in SUBSET T /\ Sum(S \cup t) # Sum(S) + Sum(t)
    OBVIOUS
  <2>3. t # {}
    <3>1. SUFFICES ASSUME t = {} PROVE FALSE
      OBVIOUS
    <3>2. Sum(t) = 0
      BY <1>1, <2>2, <3>1, SumStep
    <3>3. S \cup t = S
      BY <3>1
    <3> HIDE DEF Sum
    <3> QED
      BY <1>1, <2>2, <3>2, <3>3
  <2>4. PICK x \in t : TRUE
    BY <2>3
  <2>5. t \ {x} \in SUBSET T /\ Sum(S \cup (t \ {x})) = Sum(S) + Sum(t \ {x})
    BY <2>1, <2>2, <2>4
  <2>6. Sum(t) = f[x] + Sum(t \ {x})
    BY <1>1, <2>2, <2>4, SumRemove
  <2>7. Sum(S \cup t) = f[x] + Sum((S \cup t) \ {x})
    <3> DEFINE both == S \cup t
    <3>1. IsFiniteSet(both) /\ x \in both /\ \A y \in both : f[y] \in Int
      BY <1>1, <2>2, <2>4
    <3>2. SumFunctionOnSet(f, both) = f[x] + SumFunctionOnSet(f, both \ {x})
      <4> HIDE DEF both
      <4> QED
        BY <3>1, SumRemove
    <3> QED
      BY <3>2
  <2>8. (S \cup t) \ {x} = S \cup (t \ {x})
    BY <2>2, <2>4
  <2>9. f[x] \in Int /\ Sum(t \ {x}) \in Int
    BY <1>1, <2>2, <2>4, <2>5
  <2>10. Sum(S \cup t) = f[x] + (Sum(S) + Sum(t \ {x}))
    BY <2>5, <2>7, <2>8
  <2> HIDE DEF Sum
  <2> QED
    BY <1>1, <2>2, <2>6, <2>9, <2>10
<1>3. T \in SUBSET T /\ T \notin Bad
  BY <1>2
<1> QED
  BY <1>3

(* A part of a sum of natural numbers is no more than the whole.           *)
LEMMA SumPart ==
  ASSUME NEW f, NEW S, IsFiniteSet(S), NEW T \in SUBSET S, \A x \in S : f[x] \in Nat
  PROVE  SumFunctionOnSet(f, T) <= SumFunctionOnSet(f, S)
<1> DEFINE Sum(s) == SumFunctionOnSet(f, s)
<1>1. IsFiniteSet(T) /\ IsFiniteSet(S \ T)
  BY FS_Subset
<1>2. Sum(T) \in Nat /\ Sum(S \ T) \in Nat
  BY <1>1, SumType
<1>3. T \cup (S \ T) = S /\ T \cap (S \ T) = {}
  OBVIOUS
<1>4. Sum(T \cup (S \ T)) = Sum(T) + Sum(S \ T)
  BY <1>1, <1>3, SumUnion
<1> HIDE DEF Sum
<1>5. Sum(S) = Sum(T) + Sum(S \ T)
  BY <1>3, <1>4
<1>6. Sum(T) <= Sum(S)
  BY <1>2, <1>5
<1> QED
  BY <1>6 DEF Sum

(* A sum may be taken over other names of its terms.                       *)
LEMMA SumRenamed ==
  ASSUME NEW f, NEW g, NEW h, NEW S, IsFiniteSet(S),
         \A x \in S : f[x] \in Int /\ f[x] = g[h[x]],
         \A x, y \in S : h[x] = h[y] => x = y
  PROVE  SumFunctionOnSet(g, {h[x] : x \in S}) = SumFunctionOnSet(f, S)
<1> DEFINE Image(s) == {h[x] : x \in s}
           Bad == {s \in SUBSET S : SumFunctionOnSet(g, Image(s)) # SumFunctionOnSet(f, s)}
<1>1. \A s \in SUBSET S : IsFiniteSet(s) /\ IsFiniteSet(Image(s))
  <2>1. ASSUME NEW s \in SUBSET S PROVE IsFiniteSet(s) /\ IsFiniteSet(Image(s))
    <3>1. IsFiniteSet(s)
      BY FS_Subset
    <3> DEFINE to == [x \in s |-> h[x]]
    <3>2. to \in Surjection(s, Image(s))
      BY DEF Surjection
    <3> QED
      BY <3>1, <3>2, FS_Surjection
  <2> QED
    BY <2>1
<1>2. Bad = {}
  <2> SUFFICES ASSUME Bad # {} PROVE FALSE
    OBVIOUS
  <2>1. PICK s \in Bad : \A x \in s : s \ {x} \notin Bad
    <3>1. Bad \in SUBSET SUBSET S
      OBVIOUS
    <3> HIDE DEF Bad
    <3> QED
      BY <3>1, LeastSet
  <2>2. s \in SUBSET S /\ SumFunctionOnSet(g, Image(s)) # SumFunctionOnSet(f, s)
    OBVIOUS
  <2>3. s # {}
    <3>1. SUFFICES ASSUME s = {} PROVE FALSE
      OBVIOUS
    <3>2. Image(s) = {}
      BY <3>1
    <3>3. SumFunctionOnSet(g, Image(s)) = 0 /\ SumFunctionOnSet(f, s) = 0
      BY <1>1, <2>2, <3>1, <3>2, SumStep
    <3> QED
      BY <2>2, <3>3
  <2>4. PICK x \in s : TRUE
    BY <2>3
  <2>5. /\ s \ {x} \in SUBSET S
        /\ SumFunctionOnSet(g, Image(s \ {x})) = SumFunctionOnSet(f, s \ {x})
    BY <2>1, <2>2, <2>4
  <2>6. SumFunctionOnSet(f, s) = f[x] + SumFunctionOnSet(f, s \ {x})
    BY <1>1, <2>2, <2>4, SumRemove
  <2>7. Image(s \ {x}) = Image(s) \ {h[x]} /\ h[x] \in Image(s)
    BY <2>2, <2>4
  <2>8. \A y \in Image(s) : g[y] \in Int
    BY <2>2
  <2>9. SumFunctionOnSet(g, Image(s)) = g[h[x]] + SumFunctionOnSet(g, Image(s) \ {h[x]})
    <3>1. IsFiniteSet(Image(s))
      BY <1>1, <2>2
    <3> HIDE DEF Image
    <3> QED
      BY <2>7, <2>8, <3>1, SumRemove
  <2>10. g[h[x]] = f[x]
    BY <2>2, <2>4
  <2> HIDE DEF Image
  <2> QED
    BY <2>2, <2>5, <2>6, <2>7, <2>9, <2>10
<1>3. S \in SUBSET S /\ S \notin Bad
  BY <1>2
<1> QED
  BY <1>3

(* A sum of differences is the difference of the sums.                     *)
LEMMA SumMinus ==
  ASSUME NEW f, NEW g, NEW d, NEW S, IsFiniteSet(S),
         \A x \in S : f[x] \in Int /\ g[x] \in Int /\ d[x] = f[x] - g[x]
  PROVE  SumFunctionOnSet(d, S) = SumFunctionOnSet(f, S) - SumFunctionOnSet(g, S)
<1> DEFINE F(s) == SumFunctionOnSet(f, s)
           G(s) == SumFunctionOnSet(g, s)
           D(s) == SumFunctionOnSet(d, s)
           Bad == {s \in SUBSET S : D(s) # F(s) - G(s)}
<1>1. \A s \in SUBSET S : IsFiniteSet(s) /\ F(s) \in Int /\ G(s) \in Int
  BY FS_Subset, SumType
<1>2. Bad = {}
  <2> SUFFICES ASSUME Bad # {} PROVE FALSE
    OBVIOUS
  <2>1. PICK s \in Bad : \A x \in s : s \ {x} \notin Bad
    <3>1. Bad \in SUBSET SUBSET S
      OBVIOUS
    <3> HIDE DEF Bad
    <3> QED
      BY <3>1, LeastSet
  <2>2. s \in SUBSET S /\ D(s) # F(s) - G(s)
    OBVIOUS
  <2>3. s # {}
    <3>1. s = {} => F(s) = 0 /\ G(s) = 0 /\ D(s) = 0
      BY <1>1, <2>2, SumStep
    <3> HIDE DEF F, G, D
    <3> QED
      BY <2>2, <3>1
  <2> DEFINE x == Chosen(s)
  <2>4. x \in s /\ s \ {x} \in SUBSET S
    BY <2>2, <2>3, ChosenIn
  <2>5. F(s) = f[x] + F(s \ {x}) /\ G(s) = g[x] + G(s \ {x}) /\ D(s) = d[x] + D(s \ {x})
    BY <1>1, <2>2, <2>3, SumStep
  <2>6. D(s \ {x}) = F(s \ {x}) - G(s \ {x})
    BY <2>1, <2>2, <2>4
  <2>7. /\ F(s \ {x}) \in Int /\ G(s \ {x}) \in Int
        /\ f[x] \in Int /\ g[x] \in Int /\ d[x] = f[x] - g[x]
    BY <1>1, <2>2, <2>4
  <2> HIDE DEF F, G, D, x
  <2> QED
    BY <2>2, <2>5, <2>6, <2>7
<1>3. S \in SUBSET S /\ S \notin Bad
  BY <1>2
<1> QED
  BY <1>3

(* The sum over a union of disjoint sets is the sum of their sums.         *)
LEMMA SumFamily ==
  ASSUME NEW f, NEW K, IsFiniteSet(K), NEW p, NEW n,
         \A k \in K : IsFiniteSet(p[k]) /\ n[k] = SumFunctionOnSet(f, p[k]),
         \A k \in K : \A x \in p[k] : f[x] \in Int,
         \A j, k \in K : j # k => p[j] \cap p[k] = {}
  PROVE  SumFunctionOnSet(f, UNION {p[k] : k \in K}) = SumFunctionOnSet(n, K)
<1> DEFINE All(s) == UNION {p[k] : k \in s}
           Good(s) == IsFiniteSet(All(s)) /\ SumFunctionOnSet(f, All(s)) = SumFunctionOnSet(n, s)
           Bad == {s \in SUBSET K : ~ Good(s)}
<1>1. \A s \in SUBSET K : IsFiniteSet(s)
  BY FS_Subset
<1>2. \A k \in K : n[k] \in Int
  BY SumType
<1>3. Bad = {}
  <2> SUFFICES ASSUME Bad # {} PROVE FALSE
    OBVIOUS
  <2>1. PICK s \in Bad : \A x \in s : s \ {x} \notin Bad
    <3>1. Bad \in SUBSET SUBSET K
      OBVIOUS
    <3> HIDE DEF Bad
    <3> QED
      BY <3>1, LeastSet
  <2>2. s \in SUBSET K /\ ~ Good(s)
    OBVIOUS
  <2>3. s # {}
    <3>1. SUFFICES ASSUME s = {} PROVE FALSE
      OBVIOUS
    <3>2. All(s) = {} /\ IsFiniteSet({})
      BY <3>1, FS_EmptySet
    <3>3. SumFunctionOnSet(f, {}) = 0 /\ SumFunctionOnSet(n, {}) = 0
      BY <3>2, SumStep
    <3> QED
      BY <2>2, <3>1, <3>2, <3>3
  <2>4. PICK x \in s : TRUE
    BY <2>3
  <2>5. s \ {x} \in SUBSET K /\ Good(s \ {x}) /\ x \in K
    BY <2>1, <2>2, <2>4
  <2> DEFINE rest == All(s \ {x})
  <2>6. All(s) = p[x] \cup rest
    BY <2>4
  <2>7. p[x] \cap rest = {}
    BY <2>2, <2>5
  <2>8. \A y \in p[x] \cup rest : f[y] \in Int
    BY <2>2, <2>5
  <2>9. IsFiniteSet(p[x]) /\ n[x] = SumFunctionOnSet(f, p[x]) /\ n[x] \in Int
    BY <1>2, <2>5
  <2>10. IsFiniteSet(rest) /\ SumFunctionOnSet(f, rest) = SumFunctionOnSet(n, s \ {x})
    BY <2>5
  <2> HIDE DEF rest, All
  <2>12. IsFiniteSet(All(s))
    <3>1. IsFiniteSet(p[x] \cup rest)
      BY <2>9, <2>10, FS_Union
    <3> QED
      BY <2>6, <3>1
  <2>11. SumFunctionOnSet(n, s) = n[x] + SumFunctionOnSet(n, s \ {x})
    BY <1>1, <1>2, <2>2, <2>4, SumRemove
  <2>13. SumFunctionOnSet(f, All(s)) = n[x] + SumFunctionOnSet(f, rest)
    BY <2>6, <2>7, <2>8, <2>9, <2>10, SumUnion
  <2> QED
    BY <2>2, <2>10, <2>11, <2>12, <2>13
<1>4. K \in SUBSET K /\ K \notin Bad
  BY <1>3
<1> QED
  BY <1>4

(* The sum of a list with one more entry.                                  *)
LEMMA SumAppend ==
  ASSUME NEW n \in Nat, NEW f, NEW g,
         \A i \in 1..n : g[i] \in Int /\ f[i] = g[i], f[n + 1] \in Int
  PROVE  SumFunctionOnSet(f, 1..(n + 1)) = SumFunctionOnSet(g, 1..n) + f[n + 1]
<1>1. IsFiniteSet(1..(n + 1)) /\ IsFiniteSet(1..n)
  BY FS_Interval
<1>2. \A i \in 1..(n + 1) : i \in 1..n \/ i = n + 1
  OBVIOUS
<1>3. n + 1 \in 1..(n + 1) /\ \A i \in 1..(n + 1) : f[i] \in Int
  BY <1>2
<1>4. (1..(n + 1)) \ {n + 1} = 1..n
  OBVIOUS
<1>5. SumFunctionOnSet(f, 1..(n + 1)) = f[n + 1] + SumFunctionOnSet(f, 1..n)
  <2> DEFINE all == 1..(n + 1)
  <2> HIDE DEF all
  <2>1. SumFunctionOnSet(f, all) = f[n + 1] + SumFunctionOnSet(f, all \ {n + 1})
    BY <1>1, <1>3, SumRemove DEF all
  <2> QED
    BY <1>4, <2>1 DEF all
<1>6. SumFunctionOnSet(f, 1..n) = SumFunctionOnSet(g, 1..n)
  BY <1>1, SumSame
<1>7. SumFunctionOnSet(g, 1..n) \in Int
  BY <1>1, SumType
<1> QED
  BY <1>5, <1>6, <1>7

-----------------------------------------------------------------------------
(* Outputs carry the id of the transaction that makes them.                *)
LEMMA CreatesType ==
  ASSUME NEW t \in Tx
  PROVE  /\ Creates(t) \subseteq Tx \X Nat
         /\ \A o \in Creates(t) : o[1] = t
<1>1. TxOuts[t] \in Seq([address : Address, amount : Nat])
  BY TxAssumption
<1>2. DOMAIN TxOuts[t] \subseteq Nat \ {0}
  BY <1>1
<1> QED
  BY <1>2 DEF Creates

(* An outpoint made by a list of transactions is a transaction and a       *)
(* number.                                                                 *)
LEMMA CreatedByType ==
  ASSUME NEW txs \in Seq(Tx)
  PROVE  CreatedBy(txs) \subseteq Tx \X Nat
BY CreatesType DEF CreatedBy

(* An output made by a list of transactions names the one that makes it.   *)
LEMMA Maker ==
  ASSUME NEW txs \in Seq(Tx), NEW o \in CreatedBy(txs)
  PROVE  \E k \in 1..Len(txs) : txs[k] \in Tx /\ o \in Creates(txs[k]) /\ o[1] = txs[k]
<1>1. PICK k \in 1..Len(txs) : o \in Creates(txs[k])
  BY DEF CreatedBy
<1> QED
  BY <1>1, CreatesType

(* A transaction spends outpoints.                                         *)
LEMMA SpendsType ==
  ASSUME NEW t \in Tx
  PROVE  Spends(t) \subseteq Outpoint
BY TxAssumption DEF Spends, Range

(* A transaction that makes an output spends one.                          *)
LEMMA CreatorSpends ==
  ASSUME NEW t \in Tx, Creates(t) # {}
  PROVE  Spends(t) # {}
<1>1. TxOuts[t] # << >>
  BY DEF Creates
<1>2. TxIns[t] # << >> /\ TxIns[t] \in Seq(Outpoint)
  BY <1>1, NothingFromNothing, TxAssumption
<1>3. 1 \in DOMAIN TxIns[t]
  BY <1>2
<1> QED
  BY <1>3 DEF Spends, Range

(* The new set of a block is of the type of the old one.                   *)
LEMMA UpdateType ==
  ASSUME NEW txs \in Seq(Tx), NEW U \in SUBSET UTxOut, NEW height \in Nat
  PROVE  UpdateUTxOuts(txs, U, height) \in SUBSET UTxOut
<1>1. New(CreatedBy(txs), height) \subseteq UTxOut
  BY CreatedByType DEF New, UTxOut
<1> QED
  BY <1>1 DEF UpdateUTxOuts

(* What transaction k of a block is validated against holds only outputs   *)
(* of the set before the block and of the transactions between the         *)
(* coinbase and k.                                                         *)
LEMMA SeenOuts ==
  ASSUME NEW txs, NEW U, NEW height, NEW k, NEW u \in SeenBy(k, txs, U, height)
  PROVE  u \in U \/ \E j \in 2..(k - 1) : u.out \in Creates(txs[j])
BY DEF SeenBy, New

(* Rewinding is the inverse of applying (the comment at transactions.js    *)
(* 687-692), for a block whose outputs are not in the set already.         *)
LEMMA RollbackUndoes ==
  ASSUME NEW txs, NEW U, NEW height,
         \A u \in U : u.out \notin CreatedBy(txs)
  PROVE  RollbackTxs(txs, UpdateUTxOuts(txs, U, height), CollectConsumed(txs, U)) = U
BY DEF RollbackTxs, UpdateUTxOuts, CollectConsumed, New

-----------------------------------------------------------------------------
(* Issuance. *)

(* 2^e for the epochs that pay.                                            *)
LEMMA PowerType == \A e \in 0..29 : 2^e \in Nat \ {0}
<1>1. \A e \in 0..29 :
        \/ e = 0 \/ e = 1 \/ e = 2 \/ e = 3 \/ e = 4 \/ e = 5 \/ e = 6 \/ e = 7
        \/ e = 8 \/ e = 9 \/ e = 10 \/ e = 11 \/ e = 12 \/ e = 13 \/ e = 14
        \/ e = 15 \/ e = 16 \/ e = 17 \/ e = 18 \/ e = 19 \/ e = 20 \/ e = 21
        \/ e = 22 \/ e = 23 \/ e = 24 \/ e = 25 \/ e = 26 \/ e = 27 \/ e = 28 \/ e = 29
  OBVIOUS
<1>2. /\ 2^0 \in Nat \ {0} /\ 2^1 \in Nat \ {0} /\ 2^2 \in Nat \ {0}
      /\ 2^3 \in Nat \ {0} /\ 2^4 \in Nat \ {0} /\ 2^5 \in Nat \ {0}
      /\ 2^6 \in Nat \ {0} /\ 2^7 \in Nat \ {0} /\ 2^8 \in Nat \ {0}
      /\ 2^9 \in Nat \ {0} /\ 2^10 \in Nat \ {0} /\ 2^11 \in Nat \ {0}
      /\ 2^12 \in Nat \ {0} /\ 2^13 \in Nat \ {0} /\ 2^14 \in Nat \ {0}
      /\ 2^15 \in Nat \ {0} /\ 2^16 \in Nat \ {0} /\ 2^17 \in Nat \ {0}
      /\ 2^18 \in Nat \ {0} /\ 2^19 \in Nat \ {0} /\ 2^20 \in Nat \ {0}
      /\ 2^21 \in Nat \ {0} /\ 2^22 \in Nat \ {0} /\ 2^23 \in Nat \ {0}
      /\ 2^24 \in Nat \ {0} /\ 2^25 \in Nat \ {0} /\ 2^26 \in Nat \ {0}
      /\ 2^27 \in Nat \ {0} /\ 2^28 \in Nat \ {0} /\ 2^29 \in Nat \ {0}
  OBVIOUS
<1> QED
  BY <1>1, <1>2, Zenon

(* What a block pays depends on its epoch only, and is a natural number.   *)
LEMMA SubsidyOfEpoch ==
  ASSUME NEW h \in Nat
  PROVE  LET e == h \div HALVING_INTERVAL
         IN  /\ e \in Nat
             /\ e * HALVING_INTERVAL <= h /\ h < (e + 1) * HALVING_INTERVAL
             /\ GetBlockSubsidy(e * HALVING_INTERVAL) = GetBlockSubsidy(h)
             /\ GetBlockSubsidy(h) \in Nat
             /\ e >= 30 => GetBlockSubsidy(h) = 0
<1> DEFINE e == h \div HALVING_INTERVAL
<1>1. HALVING_INTERVAL \in Nat \ {0}
  BY ParameterAssumption
<1>2. e \in Nat /\ e * HALVING_INTERVAL <= h /\ h < (e + 1) * HALVING_INTERVAL
  BY <1>1
<1>3. (e * HALVING_INTERVAL) \div HALVING_INTERVAL = e
  <2> HIDE DEF e
  <2> QED
    BY <1>1, <1>2
<1>4. GetBlockSubsidy(e * HALVING_INTERVAL) = GetBlockSubsidy(h)
  <2>1. GetBlockSubsidy(h) = IF e >= 30 THEN 0 ELSE INITIAL_SUBSIDY \div (2^e)
    BY DEF GetBlockSubsidy
  <2>2. GetBlockSubsidy(e * HALVING_INTERVAL) = IF e >= 30 THEN 0 ELSE INITIAL_SUBSIDY \div (2^e)
    BY <1>3 DEF GetBlockSubsidy
  <2> QED
    BY <2>1, <2>2
<1>5. e >= 30 => GetBlockSubsidy(h) = 0
  BY DEF GetBlockSubsidy
<1>6. e < 30 => GetBlockSubsidy(h) \in Nat
  <2>1. SUFFICES ASSUME e < 30 PROVE INITIAL_SUBSIDY \div (2^e) \in Nat
    BY <1>2 DEF GetBlockSubsidy
  <2>2. e \in 0..29
    BY <1>2, <2>1
  <2>3. 2^e \in Nat \ {0}
    BY <2>2, PowerType
  <2>4. INITIAL_SUBSIDY \in Nat
    BY ParameterAssumption
  <2> DEFINE p == 2^e
  <2> HIDE DEF p, e
  <2> QED
    BY <2>3, <2>4 DEF p
<1> QED
  BY <1>2, <1>4, <1>5, <1>6

\* The blocks of epoch e among the first n.
InEpoch(n, e) ==
  LET left == n - e * HALVING_INTERVAL
  IN  IF left <= 0 THEN 0 ELSE IF left < HALVING_INTERVAL THEN left ELSE HALVING_INTERVAL

Issued(n) == [e \in 0..29 |-> InEpoch(n, e) * GetBlockSubsidy(e * HALVING_INTERVAL)]

(* The supply is a sum over the epochs that pay.                           *)
LEMMA TotalSupplyIs ==
  ASSUME NEW h \in Int
  PROVE  GetTotalSupply(h) = SumFunctionOnSet(Issued(h + 1), 0..29)
<1>1. GetTotalSupply(h) = SumFunction(Issued(h + 1))
  BY DEF GetTotalSupply, Issued, InEpoch
<1>2. DOMAIN Issued(h + 1) = 0..29
  BY DEF Issued
<1> QED
  BY <1>1, <1>2 DEF SumFunction

(* The next block is one more of its own epoch and of no other.            *)
LEMMA InEpochStep ==
  ASSUME NEW h \in Nat, NEW e \in Nat
  PROVE  /\ InEpoch(h, e) \in Nat
         /\ e # h \div HALVING_INTERVAL => InEpoch(h + 1, e) = InEpoch(h, e)
         /\ e = h \div HALVING_INTERVAL => InEpoch(h + 1, e) = InEpoch(h, e) + 1
<1> DEFINE H == HALVING_INTERVAL
           E == h \div H
<1>1. H \in Nat \ {0}
  BY ParameterAssumption
<1>2. E \in Nat /\ E * H <= h /\ h < E * H + H
  BY <1>1
<1>3. e * H \in Nat
  BY <1>1
<1> DEFINE m == e * H
           M == E * H
<1>4. m \in Nat /\ M \in Nat
  BY <1>1, <1>2
<1>5. /\ InEpoch(h, e) = IF h - m <= 0 THEN 0 ELSE IF h - m < H THEN h - m ELSE H
      /\ InEpoch(h + 1, e) = IF (h + 1) - m <= 0 THEN 0 ELSE IF (h + 1) - m < H THEN (h + 1) - m ELSE H
  BY DEF InEpoch
<1>6. CASE e = E
  <2>1. m = M
    BY <1>6
  <2> HIDE DEF m, M, H, E
  <2> QED
    BY <1>1, <1>2, <1>4, <1>5, <1>6, <2>1 DEF M, H, E
<1>7. CASE e < E
  <2>1. m + H <= M
    <3>1. e + 1 <= E
      BY <1>2, <1>7
    <3>2. (e + 1) * H <= E * H /\ (e + 1) * H = e * H + H
      <4> HIDE DEF E, H
      <4> QED
        BY <1>1, <1>2, <3>1
    <3> QED
      BY <1>1, <3>2
  <2>2. M <= h
    BY <1>2
  <2> HIDE DEF m, M, H, E
  <2>3. h - m >= H
    BY <1>1, <1>4, <2>1, <2>2
  <2> QED
    BY <1>1, <1>4, <1>5, <1>7, <2>3 DEF H, E
<1>8. CASE e > E
  <2>1. M + H <= m
    <3>1. E + 1 <= e
      BY <1>2, <1>8
    <3>2. (E + 1) * H <= e * H /\ (E + 1) * H = E * H + H
      <4> HIDE DEF E, H
      <4> QED
        BY <1>1, <1>2, <3>1
    <3> QED
      BY <1>1, <3>2
  <2>2. h < M + H
    BY <1>2
  <2> HIDE DEF m, M, H, E
  <2>3. (h + 1) - m <= 0
    BY <1>1, <1>4, <2>1, <2>2
  <2> QED
    BY <1>1, <1>4, <1>5, <1>8, <2>3 DEF H, E
<1> QED
  BY <1>2, <1>6, <1>7, <1>8

(* getTotalSupply, an epoch at a time, is what the blocks pay one by one.  *)
LEMMA TotalSupplyStep ==
  ASSUME NEW h \in Nat
  PROVE  /\ GetTotalSupply(-1) = 0
         /\ GetTotalSupply(h) = GetTotalSupply(h - 1) + GetBlockSubsidy(h)
         /\ GetTotalSupply(h) \in Int
<1> DEFINE new == Issued(h + 1)
           old == Issued(h)
           E == h \div HALVING_INTERVAL
           pays(e) == GetBlockSubsidy(e * HALVING_INTERVAL)
<1>1. /\ GetTotalSupply(h) = SumFunctionOnSet(new, 0..29)
      /\ GetTotalSupply(h - 1) = SumFunctionOnSet(old, 0..29)
  BY TotalSupplyIs
<1>2. IsFiniteSet(0..29)
  <2>1. 0 \in Int /\ 29 \in Int
    OBVIOUS
  <2> QED
    BY ONLY <2>1, FS_Interval
<1>3. ASSUME NEW e \in 0..29
      PROVE  /\ new[e] = InEpoch(h + 1, e) * pays(e) /\ old[e] = InEpoch(h, e) * pays(e)
             /\ pays(e) \in Nat /\ old[e] \in Int /\ new[e] \in Int
  <2>1. e * HALVING_INTERVAL \in Nat
    BY ParameterAssumption
  <2>2. pays(e) \in Nat
    BY <2>1, SubsidyOfEpoch
  <2>3. InEpoch(h, e) \in Nat /\ InEpoch(h + 1, e) \in Nat
    <3>1. e \in Nat /\ h + 1 \in Nat
      OBVIOUS
    <3> QED
      BY <3>1, InEpochStep
  <2>4. new[e] = InEpoch(h + 1, e) * pays(e) /\ old[e] = InEpoch(h, e) * pays(e)
    BY DEF Issued
  <2> HIDE DEF new, old, pays
  <2> QED
    BY <2>2, <2>3, <2>4
<1>4. E \in Nat /\ pays(E) = GetBlockSubsidy(h) /\ (E >= 30 => GetBlockSubsidy(h) = 0)
      /\ GetBlockSubsidy(h) \in Nat
  BY SubsidyOfEpoch
<1>5. \A e \in 0..29 : e # E => new[e] = old[e]
  <2>1. ASSUME NEW e \in 0..29, e # E PROVE new[e] = old[e]
    <3>1. e \in Nat
      OBVIOUS
    <3>2. InEpoch(h + 1, e) = InEpoch(h, e)
      BY <2>1, <3>1, InEpochStep
    <3> QED
      BY <1>3, <3>2
  <2> QED
    BY <2>1
<1>6. E \in 0..29 => new[E] = old[E] + GetBlockSubsidy(h)
  <2>1. SUFFICES ASSUME E \in 0..29 PROVE new[E] = old[E] + GetBlockSubsidy(h)
    OBVIOUS
  <2>2. InEpoch(h, E) \in Nat /\ InEpoch(h + 1, E) = InEpoch(h, E) + 1
    BY <1>4, InEpochStep
  <2>3. new[E] = InEpoch(h + 1, E) * pays(E) /\ old[E] = InEpoch(h, E) * pays(E)
    BY <1>3, <2>1
  <2> HIDE DEF new, old, pays, E
  <2> QED
    BY <1>4, <2>2, <2>3
<1> HIDE DEF new, old, E, pays
<1>7. SumFunctionOnSet(new, 0..29) = SumFunctionOnSet(old, 0..29) + GetBlockSubsidy(h)
  <2>1. SumFunctionOnSet(old, 0..29) \in Int
    BY <1>2, <1>3, SumType
  <2>2. CASE E \in 0..29
    <3>1. /\ SumFunctionOnSet(new, 0..29) = new[E] + SumFunctionOnSet(new, 0..29 \ {E})
          /\ SumFunctionOnSet(old, 0..29) = old[E] + SumFunctionOnSet(old, 0..29 \ {E})
      BY <1>2, <1>3, <2>2, SumRemove
    <3> DEFINE rest == 0..29 \ {E}
    <3>2. IsFiniteSet(rest) /\ \A e \in rest : new[e] = old[e] /\ old[e] \in Int
      BY <1>2, <1>3, <1>5, FS_Subset
    <3> HIDE DEF rest
    <3>3. SumFunctionOnSet(new, rest) = SumFunctionOnSet(old, rest) /\ SumFunctionOnSet(old, rest) \in Int
      BY <3>2, SumSame, SumType
    <3>4. new[E] = old[E] + GetBlockSubsidy(h) /\ old[E] \in Int
      BY <1>3, <1>6, <2>2
    <3> QED
      BY <1>4, <2>1, <3>1, <3>3, <3>4 DEF rest
  <2>3. CASE E \notin 0..29
    <3>1. SumFunctionOnSet(new, 0..29) = SumFunctionOnSet(old, 0..29)
      BY <1>2, <1>5, <2>3, SumSame
    <3>2. GetBlockSubsidy(h) = 0
      BY <1>4, <2>3
    <3> QED
      BY <2>1, <3>1, <3>2
  <2> QED
    BY <2>2, <2>3
<1>8. GetTotalSupply(-1) = 0
  <2> DEFINE none == Issued(0)
  <2>1. \A e \in 0..29 : none[e] = 0
    <3>1. ASSUME NEW e \in 0..29 PROVE none[e] = 0
      <4>1. e * HALVING_INTERVAL \in Nat
        BY ParameterAssumption
      <4>2. InEpoch(0, e) = 0
        BY <4>1 DEF InEpoch
      <4>3. GetBlockSubsidy(e * HALVING_INTERVAL) \in Nat
        BY <4>1, SubsidyOfEpoch
      <4> QED
        BY <4>2, <4>3 DEF Issued
    <3> QED
      BY <3>1
  <2>2. GetTotalSupply(-1) = SumFunctionOnSet(none, 0..29)
    BY TotalSupplyIs
  <2> HIDE DEF none
  <2>3. SumFunctionOnSet(none, 0..29) = SumFunctionOnSet(none, 0..29) - SumFunctionOnSet(none, 0..29)
    BY <1>2, <2>1, SumMinus
  <2>4. SumFunctionOnSet(none, 0..29) \in Int
    BY <1>2, <2>1, SumType
  <2> QED
    BY <2>2, <2>3, <2>4
<1>9. SumFunctionOnSet(new, 0..29) \in Int
  BY <1>2, <1>3, SumType
<1> QED
  BY <1>1, <1>7, <1>8, <1>9

-----------------------------------------------------------------------------
(* Amounts. *)

\* The amount of every outpoint that may be one of an output.
Amount == [o \in Tx \X Nat |-> AmountOf(o)]
Value(outs) == SumFunctionOnSet(Amount, outs)

(* The outputs of a transaction are numbered from 1 here.                  *)
LEMMA OutputType ==
  ASSUME NEW t \in Tx, NEW n \in DOMAIN TxOuts[t]
  PROVE  n \in Nat \ {0} /\ TxOuts[t][n].amount \in Nat
<1> DEFINE Output == [address : Address, amount : Nat]
           outs == TxOuts[t]
<1>1. outs \in Seq(Output)
  BY TxAssumption
<1>2. \A o \in Output : o.amount \in Nat
  OBVIOUS
<1> HIDE DEF Output
<1>3. n \in 1..Len(outs) /\ Len(outs) \in Nat
  BY <1>1
<1>4. outs[n] \in Output
  BY <1>1, <1>3
<1> QED
  BY <1>2, <1>3, <1>4

(* An output has a natural amount.                                         *)
LEMMA AmountType ==
  ASSUME NEW t \in Tx, NEW o \in Creates(t)
  PROVE  Amount[o] = AmountOf(o) /\ Amount[o] \in Nat
<1>1. PICK n \in DOMAIN TxOuts[t] : o = <<t, n - 1>>
  BY DEF Creates
<1>3. n \in Nat \ {0} /\ TxOuts[t][n].amount \in Nat
  BY <1>1, OutputType
<1>4. o[1] = t /\ o[2] + 1 = n /\ o \in Tx \X Nat
  BY <1>1, <1>3
<1> QED
  BY <1>3, <1>4 DEF Amount, AmountOf

(* What the outputs of a transaction add up to.                            *)
LEMMA OutputsOf ==
  ASSUME NEW t \in Tx
  PROVE  /\ IsFiniteSet(Creates(t))
         /\ Value(Creates(t)) = SumFunction([i \in DOMAIN TxOuts[t] |-> TxOuts[t][i].amount])
         /\ Value(Creates(t)) \in Nat
<1> DEFINE D == DOMAIN TxOuts[t]
           f == [i \in D |-> TxOuts[t][i].amount]
           h == [i \in D |-> <<t, i - 1>>]
<1>1. TxOuts[t] \in Seq([address : Address, amount : Nat])
  BY TxAssumption
<1>2. D = 1..Len(TxOuts[t]) /\ Len(TxOuts[t]) \in Nat
  BY <1>1
<1>3. IsFiniteSet(D)
  <2>1. 1 \in Int /\ Len(TxOuts[t]) \in Int
    BY <1>2
  <2> QED
    BY <1>2, <2>1, FS_Interval
<1>4. {h[i] : i \in D} = Creates(t)
  BY DEF Creates
<1>5. ASSUME NEW i \in D PROVE f[i] \in Nat /\ f[i] = Amount[h[i]] /\ i \in Nat \ {0}
  <2>1. i \in Nat \ {0} /\ TxOuts[t][i].amount \in Nat
    BY OutputType
  <2>2. h[i] \in Tx \X Nat /\ h[i][1] = t /\ h[i][2] + 1 = i
    BY <2>1
  <2>3. Amount[h[i]] = TxOuts[t][i].amount
    BY <2>2 DEF Amount, AmountOf
  <2> QED
    BY <2>1, <2>3
<1>6. \A i, j \in D : h[i] = h[j] => i = j
  <2>1. ASSUME NEW i \in D, NEW j \in D, h[i] = h[j] PROVE i = j
    <3>1. i - 1 = j - 1
      BY <2>1
    <3>2. i \in Nat /\ j \in Nat
      BY OutputType
    <3> QED
      BY <3>1, <3>2
  <2> QED
    BY <2>1
<1>7. SumFunction(f) = SumFunctionOnSet(f, D)
  BY DEF SumFunction
<1>8. IsFiniteSet({h[i] : i \in D})
  <2>1. h \in Surjection(D, {h[i] : i \in D})
    BY DEF Surjection
  <2> QED
    BY <1>3, <2>1, FS_Surjection
<1> HIDE DEF D, f, h
<1>9. SumFunctionOnSet(Amount, {h[i] : i \in D}) = SumFunctionOnSet(f, D)
  BY <1>3, <1>5, <1>6, SumRenamed
<1>10. SumFunctionOnSet(f, D) \in Nat
  BY <1>3, <1>5, SumType
<1> QED
  BY <1>4, <1>7, <1>8, <1>9, <1>10 DEF Value, f, D

(* What its inputs add up to, when none is named twice and all are outputs.*)
LEMMA InputsOf ==
  ASSUME NEW t \in Tx, IsInjective(TxIns[t]),
         \A o \in Spends(t) : \E p \in Tx : o \in Creates(p)
  PROVE  /\ IsFiniteSet(Spends(t))
         /\ Value(Spends(t)) = SumFunction([i \in DOMAIN TxIns[t] |-> AmountOf(TxIns[t][i])])
         /\ Value(Spends(t)) \in Nat
<1> DEFINE h == TxIns[t]
           D == DOMAIN h
           f == [i \in D |-> AmountOf(h[i])]
<1>1. h \in Seq(Outpoint)
  BY TxAssumption
<1>2. D = 1..Len(h) /\ Len(h) \in Nat
  BY <1>1
<1>3. IsFiniteSet(D)
  <2>1. 1 \in Int /\ Len(h) \in Int
    BY <1>2
  <2> QED
    BY <1>2, <2>1, FS_Interval
<1>4. {h[i] : i \in D} = Spends(t)
  BY DEF Spends, Range
<1>5. ASSUME NEW i \in D PROVE f[i] \in Nat /\ f[i] = Amount[h[i]]
  <2>1. h[i] \in Spends(t)
    BY <1>4
  <2>2. Amount[h[i]] = AmountOf(h[i]) /\ Amount[h[i]] \in Nat
    BY <2>1, AmountType
  <2> QED
    BY <2>2
<1>6. \A i, j \in D : h[i] = h[j] => i = j
  BY DEF IsInjective
<1>7. SumFunction(f) = SumFunctionOnSet(f, D)
  BY DEF SumFunction
<1>8. IsFiniteSet({h[i] : i \in D})
  <2>1. h \in Surjection(D, {h[i] : i \in D})
    BY <1>1 DEF Surjection
  <2> QED
    BY <1>3, <2>1, FS_Surjection
<1> HIDE DEF D, f, h
<1>9. SumFunctionOnSet(Amount, {h[i] : i \in D}) = SumFunctionOnSet(f, D)
  BY <1>3, <1>5, <1>6, SumRenamed
<1>10. SumFunctionOnSet(f, D) \in Nat
  BY <1>3, <1>5, SumType
<1> QED
  BY <1>4, <1>7, <1>8, <1>9, <1>10 DEF Value, f, D, h

(* The fee is what goes in less what comes out.                            *)
LEMMA FeeOf ==
  ASSUME NEW t \in Tx, IsInjective(TxIns[t]),
         \A o \in Spends(t) : \E p \in Tx : o \in Creates(p)
  PROVE  GetTxFee(t) = Value(Spends(t)) - Value(Creates(t))
BY InputsOf, OutputsOf DEF GetTxFee


(* The fees of the transactions after the coinbase are what they take less *)
(* what they make.                                                         *)
LEMMA FeesOf ==
  ASSUME NEW txs \in Seq(Tx), NoDuplicateInputs(txs), IsInjective(txs),
         \A k \in 2..Len(txs) : \A o \in Spends(txs[k]) : \E p \in Tx : o \in Creates(p)
  PROVE  LET in == UNION {Spends(txs[k]) : k \in 2..Len(txs)}
             out == UNION {Creates(txs[k]) : k \in 2..Len(txs)}
         IN  /\ IsFiniteSet(in) /\ IsFiniteSet(out)
             /\ Value(in) \in Int /\ Value(out) \in Int
             /\ SumFunction([k \in 2..Len(txs) |-> GetTxFee(txs[k])]) = Value(in) - Value(out)
<1> DEFINE K == 2..Len(txs)
           ins == [k \in K |-> Spends(txs[k])]
           outs == [k \in K |-> Creates(txs[k])]
           f == [k \in K |-> Value(ins[k])]
           g == [k \in K |-> Value(outs[k])]
           fees == [k \in K |-> GetTxFee(txs[k])]
           in == UNION {ins[k] : k \in K}
           out == UNION {outs[k] : k \in K}
<1>1. IsFiniteSet(K)
  <2>1. 2 \in Int /\ Len(txs) \in Int
    OBVIOUS
  <2> QED
    BY <2>1, FS_Interval
<1>2. ASSUME NEW k \in K
      PROVE  /\ txs[k] \in Tx /\ IsInjective(TxIns[txs[k]])
             /\ IsFiniteSet(Spends(txs[k])) /\ Value(Spends(txs[k])) \in Nat
             /\ IsFiniteSet(Creates(txs[k])) /\ Value(Creates(txs[k])) \in Nat
             /\ GetTxFee(txs[k]) = Value(Spends(txs[k])) - Value(Creates(txs[k]))
  <2>1. txs[k] \in Tx /\ IsInjective(TxIns[txs[k]])
    BY DEF NoDuplicateInputs
  <2> QED
    BY <2>1, InputsOf, OutputsOf, FeeOf
<1>3. ASSUME NEW k \in K
      PROVE  /\ ins[k] = Spends(txs[k]) /\ outs[k] = Creates(txs[k]) /\ fees[k] = f[k] - g[k]
             /\ IsFiniteSet(ins[k]) /\ IsFiniteSet(outs[k])
             /\ f[k] = SumFunctionOnSet(Amount, ins[k]) /\ g[k] = SumFunctionOnSet(Amount, outs[k])
             /\ f[k] \in Nat /\ g[k] \in Nat
  BY <1>2 DEF Value
<1>4. \A k \in K : /\ \A o \in ins[k] : Amount[o] \in Nat
                   /\ \A o \in outs[k] : Amount[o] \in Nat
  BY <1>2, <1>3, AmountType
<1>5. \A j, k \in K : j # k => ins[j] \cap ins[k] = {}
  <2>1. ASSUME NEW j \in K, NEW k \in K, j # k PROVE ins[j] \cap ins[k] = {}
    <3>1. j \in DOMAIN txs /\ k \in DOMAIN txs
      OBVIOUS
    <3>2. Spends(txs[j]) \cap Spends(txs[k]) = {}
      BY <2>1, <3>1 DEF NoDuplicateInputs
    <3> QED
      BY <1>3, <3>2
  <2> QED
    BY <2>1
<1>6. \A j, k \in K : j # k => outs[j] \cap outs[k] = {}
  <2>1. SUFFICES ASSUME NEW j \in K, NEW k \in K, NEW o \in outs[j], o \in outs[k] PROVE j = k
    OBVIOUS
  <2>2. txs[j] = txs[k]
    BY <1>2, <1>3, <2>1, CreatesType
  <2> QED
    BY <2>2 DEF IsInjective
<1>7. SumFunction(fees) = SumFunctionOnSet(fees, K)
  BY DEF SumFunction
<1>8. /\ in = UNION {Spends(txs[k]) : k \in 2..Len(txs)}
      /\ out = UNION {Creates(txs[k]) : k \in 2..Len(txs)}
  OBVIOUS
<1>9. IsFiniteSet(in) /\ IsFiniteSet(out)
  <2>1. ins \in Surjection(K, {ins[k] : k \in K}) /\ outs \in Surjection(K, {outs[k] : k \in K})
    BY DEF Surjection
  <2>2. IsFiniteSet({ins[k] : k \in K}) /\ IsFiniteSet({outs[k] : k \in K})
    BY <1>1, <2>1, FS_Surjection
  <2> HIDE DEF ins, outs
  <2> QED
    BY <1>3, <2>2, FS_UNION
<1> HIDE DEF ins, outs, f, g, fees
<1>10. SumFunctionOnSet(fees, K) = SumFunctionOnSet(f, K) - SumFunctionOnSet(g, K)
  <2> HIDE DEF K
  <2> QED
    BY <1>1, <1>3, SumMinus
<1>11. SumFunctionOnSet(Amount, in) = SumFunctionOnSet(f, K)
  <2> HIDE DEF K
  <2>1. \A k \in K : IsFiniteSet(ins[k]) /\ f[k] = SumFunctionOnSet(Amount, ins[k])
    BY <1>3
  <2>2. \A k \in K : \A o \in ins[k] : Amount[o] \in Int
    BY <1>4
  <2>3. SumFunctionOnSet(Amount, UNION {ins[k] : k \in K}) = SumFunctionOnSet(f, K)
    <3> HIDE DEF in
    <3> QED
      BY <1>1, <1>5, <2>1, <2>2, SumFamily
  <2> QED
    BY <2>3
<1>12. SumFunctionOnSet(Amount, out) = SumFunctionOnSet(g, K)
  <2> HIDE DEF K
  <2>1. \A k \in K : IsFiniteSet(outs[k]) /\ g[k] = SumFunctionOnSet(Amount, outs[k])
    BY <1>3
  <2>2. \A k \in K : \A o \in outs[k] : Amount[o] \in Int
    BY <1>4
  <2>3. SumFunctionOnSet(Amount, UNION {outs[k] : k \in K}) = SumFunctionOnSet(g, K)
    <3> HIDE DEF out
    <3> QED
      BY <1>1, <1>6, <2>1, <2>2, SumFamily
  <2> QED
    BY <2>3
<1>13. SumFunctionOnSet(f, K) \in Int /\ SumFunctionOnSet(g, K) \in Int
  <2> HIDE DEF K
  <2>1. /\ \A k \in K : f[k] \in Int
        /\ \A k \in K : g[k] \in Int
    BY <1>3
  <2> QED
    BY <1>1, <2>1, SumType
<1> QED
  BY <1>7, <1>8, <1>9, <1>10, <1>11, <1>12, <1>13 DEF Value, fees

(* The outpoints of new entries.                                           *)
LEMMA OutsOfNew ==
  ASSUME NEW outs, NEW height
  PROVE  Outs(New(outs, height)) = outs
<1> DEFINE entry(o) == [out |-> o, height |-> height]
<1>1. \A o : entry(o).out = o
  OBVIOUS
<1>2. Outs(New(outs, height)) = {u.out : u \in {entry(o) : o \in outs}}
  BY DEF Outs, New
<1> HIDE DEF entry
<1> QED
  BY <1>1, <1>2
-----------------------------------------------------------------------------

(***************************************************************************)
(* What validation establishes about a chain and the argument needs: no    *)
(* output is made twice, and but for the first transaction of a block none *)
(* is spent before it is made.                                             *)
(***************************************************************************)

\* Every input names an output, and they pay for what is made.
Backed(t) ==
  /\ \A o \in Spends(t) : o[1] \in Tx /\ o \in Creates(o[1])
  /\ GetTxFee(t) >= 0

BlockShape(b) ==
  /\ b.data # << >>
  /\ \E name : Spends(b.data[1]) = {<<name, b.index>>}
  /\ \A k \in 2..Len(b.data) : Backed(b.data[k])

Heights(c) == \A i \in 1..Len(c) : c[i].index = i - 1

Shapes(c) == \A i \in 1..Len(c) : BlockShape(c[i])

MadeOnce(c) ==
  \A i, j \in 1..Len(c) : i # j => CreatedBy(c[i].data) \cap CreatedBy(c[j].data) = {}

MadeBeforeSpent(c) ==
  \A i \in 1..Len(c) : \A k \in 2..Len(c[i].data) : \A o \in Spends(c[i].data[k]) :
    \E j \in 1..i : o \in CreatedBy(c[j].data)

Sound(c) == Heights(c) /\ Shapes(c) /\ MadeOnce(c) /\ MadeBeforeSpent(c)

-----------------------------------------------------------------------------
(* Typing of blocks and of what they make. *)

(* A block has a list of transactions and a height.                        *)
LEMMA BlockFields ==
  ASSUME NEW b \in Block
  PROVE  b.data \in Seq(Tx) /\ b.index \in Nat
BY BlockAssumption DEF BlockType

(* The unspent outputs of a chain are entries of the set.                  *)
LEMMA UnspentType ==
  ASSUME NEW c \in Seq(Block)
  PROVE  Unspent(c) \in SUBSET UTxOut
<1>1. ASSUME NEW i \in 1..Len(c) PROVE LeftOf(c, i) \subseteq UTxOut
  <2>1. c[i] \in Block
    OBVIOUS
  <2>2. c[i].data \in Seq(Tx) /\ c[i].index \in Nat
    BY <2>1, BlockFields
  <2>3. CreatedBy(c[i].data) \subseteq Tx \X Nat
    BY <2>2, CreatedByType
  <2> QED
    BY <2>2, <2>3 DEF LeftOf, New, UTxOut
<1> QED
  BY <1>1 DEF Unspent

(* Every output in the set of a chain was made by one of its blocks, and   *)
(* spent neither by that block nor after it.                               *)
LEMMA UnspentIsLeft ==
  ASSUME NEW c, NEW u \in Unspent(c)
  PROVE  \E i \in 1..Len(c) : /\ u.out \in CreatedBy(c[i].data)
                             /\ \A j \in i..Len(c) : u.out \notin SpentBy(c[j].data)
BY DEF Unspent, LeftOf, New, SpentFrom

(* So every output in the set of a chain was made by one of its blocks.    *)
LEMMA UnspentIsMade ==
  ASSUME NEW c, NEW u \in Unspent(c)
  PROVE  \E i \in 1..Len(c) : u.out \in CreatedBy(c[i].data)
BY UnspentIsLeft

(* An output some block of c spends, made in it or before, is not in its   *)
(* set.                                                                    *)
LEMMA UsedIsGone ==
  ASSUME NEW c, MadeOnce(c), Len(c) \in Nat, NEW i \in 1..Len(c), NEW h \in 1..i,
         NEW o \in SpentBy(c[i].data), o \in CreatedBy(c[h].data), NEW u \in Unspent(c)
  PROVE  u.out # o
<1>1. PICK j \in 1..Len(c) : /\ u.out \in CreatedBy(c[j].data)
                            /\ \A k \in j..Len(c) : u.out \notin SpentBy(c[k].data)
  BY UnspentIsLeft
<1>2. SUFFICES ASSUME u.out = o PROVE FALSE
  OBVIOUS
<1>3. h \in 1..Len(c) /\ i \in h..Len(c)
  OBVIOUS
<1>4. j = h
  BY <1>1, <1>2, <1>3 DEF MadeOnce
<1> QED
  BY <1>1, <1>2, <1>3, <1>4

-----------------------------------------------------------------------------
(* A block that validates against the set of a sound chain. *)

(* The outputs in the set are outputs of their transactions.               *)
LEMMA UnspentCreated ==
  ASSUME NEW c \in Seq(Block), NEW u \in Unspent(c)
  PROVE  u.out[1] \in Tx /\ u.out \in Creates(u.out[1])
<1>1. PICK i \in 1..Len(c) : u.out \in CreatedBy(c[i].data)
  BY UnspentIsMade
<1>2. c[i].data \in Seq(Tx)
  BY BlockFields
<1>3. PICK k \in 1..Len(c[i].data) : u.out \in Creates(c[i].data[k]) /\ u.out[1] = c[i].data[k]
  BY <1>1, <1>2, Maker
<1> QED
  BY <1>2, <1>3

(* Its first transaction has one input, which carries its height; the      *)
(* others spend outputs and pay for what they make.                        *)
LEMMA ValidShape ==
  ASSUME NEW b \in Block, NEW c \in Seq(Block), NEW mtp,
         ValidateBlockTxs(b.data, Unspent(c), b.index, mtp)
  PROVE  BlockShape(b)
<1> DEFINE txs == b.data
<1>1. txs \in Seq(Tx) /\ txs # << >>
  BY BlockFields DEF ValidateBlockTxs
<1>2. \E name : Spends(txs[1]) = {<<name, b.index>>}
  <2>1. txs[1] \in Tx
    BY <1>1
  <2>2. TxIns[txs[1]] \in Seq(Outpoint)
    BY <2>1, TxAssumption
  <2>3. Len(TxIns[txs[1]]) = 1 /\ TxIns[txs[1]][1][2] = b.index
    BY DEF ValidateBlockTxs, ValidateCoinbaseTx
  <2>4. Spends(txs[1]) = {TxIns[txs[1]][1]}
    BY <2>2, <2>3 DEF Spends, Range
  <2>5. TxIns[txs[1]][1] \in Outpoint
    BY <2>2, <2>3
  <2>6. TxIns[txs[1]][1] = <<TxIns[txs[1]][1][1], b.index>>
    BY <2>3, <2>5 DEF Outpoint
  <2> QED
    BY <2>4, <2>6
<1>3. ASSUME NEW k \in 2..Len(txs)
      PROVE  Backed(txs[k])
  <2>1. ASSUME NEW o \in Spends(txs[k])
        PROVE  o[1] \in Tx /\ o \in Creates(o[1])
    <3>1. PICK u \in SeenBy(k, txs, Unspent(c), b.index) : u.out = o
      BY DEF ValidateBlockTxs, ValidateTx, ValidateTxIn
    <3>2. CASE u \in Unspent(c)
      BY <3>1, <3>2, UnspentCreated
    <3>3. CASE \E j \in 2..(k - 1) : u.out \in Creates(txs[j])
      <4>1. PICK j \in 2..(k - 1) : u.out \in Creates(txs[j])
        BY <3>3
      <4>2. txs[j] \in Tx
        BY <1>1
      <4> QED
        BY <3>1, <4>1, <4>2, CreatesType
    <3> QED
      BY <3>1, <3>2, <3>3, SeenOuts
  <2>2. GetTxFee(txs[k]) >= 0
    BY DEF ValidateBlockTxs, ValidateTx
  <2> QED
    BY <2>1, <2>2 DEF Backed
<1> QED
  BY <1>1, <1>2, <1>3 DEF BlockShape

(* The first transaction of a block is no transaction that spends outputs  *)
(* and pays for what it makes.                                             *)
LEMMA FirstNotBacked ==
  ASSUME NEW b \in Block, BlockShape(b), NEW t \in Tx, Backed(t)
  PROVE  t # b.data[1]
<1>1. PICK o \in Spends(b.data[1]) : TRUE
  BY DEF BlockShape
<1>2. b.data # << >>
  BY DEF BlockShape
<1>3. o[1] = NoTx \/ o \notin Creates(o[1]) \/ ~ (GetTxFee(b.data[1]) >= 0)
  BY <1>1, <1>2, FirstTxAssumption
<1> QED
  BY <1>1, <1>3, TxAssumption DEF Backed

(* Transaction t is in a block of c.                                       *)
Has(c, t) == \E i \in 1..Len(c) : \E m \in 1..Len(c[i].data) : c[i].data[m] = t

(* The first transaction of the next block is in no block of the chain: it *)
(* commits to its height.                                                  *)
LEMMA NewCoinbase ==
  ASSUME NEW c \in Seq(Block), Sound(c), NEW b \in Block, b.index = Len(c), BlockShape(b)
  PROVE  ~ Has(c, b.data[1])
<1>1. SUFFICES ASSUME NEW i \in 1..Len(c), NEW m \in 1..Len(c[i].data),
                      c[i].data[m] = b.data[1]
               PROVE  FALSE
  BY DEF Has
<1>2. PICK name : Spends(c[i].data[m]) = {<<name, Len(c)>>}
  BY <1>1 DEF BlockShape
<1>3. BlockShape(c[i]) /\ c[i].index = i - 1
  BY DEF Sound, Shapes, Heights
<1>4. CASE m = 1
  <2>1. PICK other : Spends(c[i].data[m]) = {<<other, i - 1>>}
    BY <1>3, <1>4 DEF BlockShape
  <2>2. <<name, Len(c)>> = <<other, i - 1>>
    BY <1>2, <2>1
  <2> QED
    BY <2>2
<1>5. CASE m # 1
  <2>1. m \in 2..Len(c[i].data) /\ c[i].data[m] \in Tx
    BY <1>5, BlockFields
  <2>2. Backed(c[i].data[m])
    BY <1>3, <2>1 DEF BlockShape
  <2> QED
    BY <1>1, <2>1, <2>2, FirstNotBacked
<1> QED
  BY <1>4, <1>5

(* A transaction of an accepted block, but for the first, that is in the   *)
(* chain already spends there what was made before it.                     *)
LEMMA FoundAgain ==
  ASSUME NEW c \in Seq(Block), Sound(c), NEW t \in Tx, Backed(t), Has(c, t), NEW o \in Spends(t)
  PROVE  \E i \in 1..Len(c) : /\ o \in SpentBy(c[i].data)
                             /\ \E h \in 1..i : o \in CreatedBy(c[h].data)
<1>1. PICK i \in 1..Len(c) : \E m \in 1..Len(c[i].data) : c[i].data[m] = t
  BY DEF Has
<1>2. PICK m \in 1..Len(c[i].data) : c[i].data[m] = t
  BY <1>1
<1>3. c[i] \in Block /\ c[i].data \in Seq(Tx) /\ BlockShape(c[i])
  BY BlockFields DEF Sound, Shapes
<1>4. m # 1
  BY <1>2, <1>3, FirstNotBacked
<1>5. m \in 2..Len(c[i].data)
  BY <1>3, <1>4
<1>6. \E h \in 1..i : o \in CreatedBy(c[h].data)
  BY <1>2, <1>5 DEF Sound, MadeBeforeSpent
<1>7. o \in SpentBy(c[i].data)
  BY <1>2, <1>3 DEF SpentBy
<1> QED
  BY <1>6, <1>7

(* What such a transaction spends is not unspent.                          *)
LEMMA SpentAgain ==
  ASSUME NEW c \in Seq(Block), Sound(c), NEW t \in Tx, Backed(t), Has(c, t), NEW o \in Spends(t),
         NEW u \in Unspent(c)
  PROVE  u.out # o
<1>1. PICK i \in 1..Len(c) : o \in SpentBy(c[i].data) /\ \E h \in 1..i : o \in CreatedBy(c[h].data)
  BY FoundAgain
<1>2. PICK h \in 1..i : o \in CreatedBy(c[h].data)
  BY <1>1
<1>3. MadeOnce(c) /\ Len(c) \in Nat
  BY DEF Sound
<1> QED
  BY <1>1, <1>2, <1>3, UsedIsGone

(* A transaction of an accepted block is not in the chain already, unless  *)
(* it makes nothing: the first such would spend what is gone, or an output *)
(* of one before it.                                                       *)
LEMMA NewTxs ==
  ASSUME NEW c \in Seq(Block), Sound(c),
         NEW b \in Block, b.index = Len(c), NEW mtp,
         ValidateBlockTxs(b.data, Unspent(c), b.index, mtp),
         NEW k \in 1..Len(b.data), Has(c, b.data[k])
  PROVE  Creates(b.data[k]) = {}
<1> DEFINE txs == b.data
           T == {n \in 2..Len(txs) : Creates(txs[n]) # {} /\ Has(c, txs[n])}
<1>1. BlockShape(b) /\ txs \in Seq(Tx)
  BY ValidShape, BlockFields
<1>2. k # 1
  BY <1>1, NewCoinbase
<1>3. SUFFICES ASSUME Creates(txs[k]) # {} PROVE FALSE
  OBVIOUS
<1>4. T \in SUBSET Nat /\ k \in T
  BY <1>1, <1>2, <1>3
<1>5. PICK x \in T : \A y \in T : x <= y
  BY <1>4, LeastNumber
<1>6. txs[x] \in Tx /\ Backed(txs[x]) /\ Has(c, txs[x])
  BY <1>1, <1>5 DEF BlockShape
<1>7. PICK o \in Spends(txs[x]) : TRUE
  BY <1>5, <1>6, CreatorSpends
<1>8. PICK u \in SeenBy(x, txs, Unspent(c), b.index) : u.out = o
  BY <1>5, <1>7 DEF ValidateBlockTxs, ValidateTx, ValidateTxIn
<1>9. u \notin Unspent(c)
  BY <1>6, <1>7, <1>8, SpentAgain
<1>10. PICK j \in 2..(x - 1) : o \in Creates(txs[j])
  BY <1>8, <1>9, SeenOuts
<1>11. txs[j] \in Tx /\ o[1] = txs[j]
  BY <1>1, <1>5, <1>10, CreatesType
<1>12. PICK i \in 1..Len(c) : \E h \in 1..i : o \in CreatedBy(c[h].data)
  BY <1>6, <1>7, FoundAgain
<1>13. PICK h \in 1..i : o \in CreatedBy(c[h].data)
  BY <1>12
<1>14. h \in 1..Len(c) /\ c[h].data \in Seq(Tx)
  BY BlockFields
<1>15. Has(c, txs[j])
  BY <1>11, <1>13, <1>14, Maker DEF Has
<1>16. j \in 2..Len(txs) /\ Creates(txs[j]) # {}
  BY <1>5, <1>10
<1>17. j \in T
  BY <1>15, <1>16
<1>18. x <= j /\ x \in Nat /\ j \in Nat
  BY <1>4, <1>5, <1>17
<1> HIDE DEF T
<1> QED
  BY <1>10, <1>18

(* So none of its outputs has been made before.                            *)
LEMMA NewOutputs ==
  ASSUME NEW c \in Seq(Block), Sound(c),
         NEW b \in Block, b.index = Len(c), NEW mtp,
         ValidateBlockTxs(b.data, Unspent(c), b.index, mtp),
         NEW i \in 1..Len(c)
  PROVE  CreatedBy(c[i].data) \cap CreatedBy(b.data) = {}
<1>1. SUFFICES ASSUME NEW o \in CreatedBy(c[i].data), o \in CreatedBy(b.data)
               PROVE  FALSE
  OBVIOUS
<1>2. c[i].data \in Seq(Tx) /\ b.data \in Seq(Tx)
  BY BlockFields
<1>3. PICK k \in 1..Len(b.data) : o \in Creates(b.data[k]) /\ o[1] = b.data[k]
  BY <1>1, <1>2, Maker
<1>4. Has(c, b.data[k])
  BY <1>1, <1>2, <1>3, Maker DEF Has
<1> QED
  BY <1>3, <1>4, NewTxs

-----------------------------------------------------------------------------
(* One more block. *)

\* d is c with the block b added.
Grows(d, c, b) ==
  /\ Len(d) = Len(c) + 1
  /\ \A i \in 1..Len(c) : d[i] = c[i]
  /\ d[Len(c) + 1] = b

(* Its inputs, but for the first transaction's, were made before it or in  *)
(* it.                                                                     *)
LEMMA InputsMade ==
  ASSUME NEW c \in Seq(Block), NEW b \in Block, NEW mtp,
         ValidateBlockTxs(b.data, Unspent(c), b.index, mtp),
         NEW k \in 2..Len(b.data), NEW o \in Spends(b.data[k])
  PROVE  o \in CreatedBy(b.data) \/ \E i \in 1..Len(c) : o \in CreatedBy(c[i].data)
<1>1. b.data \in Seq(Tx)
  BY BlockFields
<1>2. PICK u \in SeenBy(k, b.data, Unspent(c), b.index) : u.out = o
  BY DEF ValidateBlockTxs, ValidateTx, ValidateTxIn
<1>3. CASE u \in Unspent(c)
  BY <1>2, <1>3, UnspentIsMade
<1>4. CASE \E j \in 2..(k - 1) : u.out \in Creates(b.data[j])
  BY <1>1, <1>2, <1>4 DEF CreatedBy
<1> QED
  BY <1>2, <1>3, <1>4, SeenOuts

(* A sound chain stays sound under a block that is accepted.               *)
LEMMA SoundStep ==
  ASSUME NEW c \in Seq(Block), Sound(c), NEW b \in Block, b.index = Len(c), NEW mtp,
         ValidateBlockTxs(b.data, Unspent(c), b.index, mtp),
         NEW d, Grows(d, c, b)
  PROVE  Sound(d)
<1> DEFINE n == Len(c) + 1
<1>1. /\ Len(d) = n /\ d[n] = b /\ n \in Nat
      /\ \A i \in 1..n : i # n => i \in 1..Len(c) /\ d[i] = c[i]
  BY DEF Grows
<1>2. Heights(d)
  BY <1>1 DEF Sound, Heights
<1>3. Shapes(d)
  <2>1. BlockShape(b)
    BY ValidShape
  <2> QED
    BY <1>1, <2>1 DEF Sound, Shapes
<1>4. MadeOnce(d)
  <2>1. \A i \in 1..Len(c) : CreatedBy(c[i].data) \cap CreatedBy(b.data) = {}
    BY NewOutputs
  <2> QED
    BY <1>1, <2>1 DEF Sound, MadeOnce
<1>5. MadeBeforeSpent(d)
  <2>1. SUFFICES ASSUME NEW i \in 1..n, NEW k \in 2..Len(d[i].data), NEW o \in Spends(d[i].data[k])
                 PROVE  \E j \in 1..i : o \in CreatedBy(d[j].data)
    BY <1>1 DEF MadeBeforeSpent
  <2>2. CASE i = n
    <3>1. o \in CreatedBy(b.data) \/ \E j \in 1..Len(c) : o \in CreatedBy(c[j].data)
      BY <1>1, <2>1, <2>2, InputsMade
    <3> QED
      BY <1>1, <2>2, <3>1
  <2>3. CASE i # n
    <3>1. PICK j \in 1..i : o \in CreatedBy(c[j].data)
      BY <1>1, <2>1, <2>3 DEF Sound, MadeBeforeSpent
    <3>2. j # n
      BY <1>1, <2>3
    <3> QED
      BY <1>1, <3>1, <3>2
  <2> QED
    BY <2>2, <2>3
<1> QED
  BY <1>2, <1>3, <1>4, <1>5 DEF Sound

(* The outputs a block makes are not in the set of the chain before it...  *)
LEMMA NewNotUnspent ==
  ASSUME NEW c, NEW d, NEW b, Grows(d, c, b), Len(c) \in Nat, MadeOnce(d), NEW u \in Unspent(c)
  PROVE  u.out \notin CreatedBy(b.data)
<1>1. PICK i \in 1..Len(c) : u.out \in CreatedBy(c[i].data)
  BY UnspentIsMade
<1>2. i # Len(c) + 1 /\ i \in 1..Len(d) /\ Len(c) + 1 \in 1..Len(d)
  BY DEF Grows
<1> QED
  BY <1>1, <1>2 DEF MadeOnce, Grows

(* Adding a block to a chain updates its set as updateUTxOuts does.        *)
LEMMA UnspentStep ==
  ASSUME NEW c, NEW d, NEW b, Grows(d, c, b), Len(c) \in Nat
  PROVE  Unspent(d) = UpdateUTxOuts(b.data, Unspent(c), b.index)
<1> DEFINE n == Len(c) + 1
           spent == SpentBy(b.data)
<1>1. Len(d) = n /\ d[n] = b /\ \A i \in 1..Len(c) : d[i] = c[i]
  BY DEF Grows
<1>2. ASSUME NEW i \in 1..Len(c)
      PROVE  LeftOf(d, i) = {u \in LeftOf(c, i) : u.out \notin spent}
  <2>1. SpentFrom(d, i) = SpentFrom(c, i) \cup spent
    BY <1>1 DEF SpentFrom
  <2> QED
    BY <1>1, <2>1 DEF LeftOf, New
<1>3. LeftOf(d, n) = {u \in New(CreatedBy(b.data), b.index) : u.out \notin spent}
  <2>1. SpentFrom(d, n) = spent
    BY <1>1 DEF SpentFrom
  <2> QED
    BY <1>1, <2>1 DEF LeftOf, New
<1>4. 1..Len(d) = 1..Len(c) \cup {n}
  BY <1>1
<1> HIDE DEF n, spent
<1> DEFINE kept == {u \in Unspent(c) : u.out \notin spent}
<1>5. \A u : u \in Unspent(d) <=> u \in kept \/ u \in LeftOf(d, n)
  <2>1. \A u : u \in Unspent(d) <=> \E i \in 1..Len(d) : u \in LeftOf(d, i)
    BY DEF Unspent
  <2>2. \A u : u \in kept <=> \E i \in 1..Len(c) : u \in LeftOf(d, i)
    BY <1>2 DEF Unspent
  <2> QED
    BY <1>4, <2>1, <2>2
<1>6. UpdateUTxOuts(b.data, Unspent(c), b.index) = kept \cup LeftOf(d, n)
  BY <1>3 DEF UpdateUTxOuts, spent
<1> HIDE DEF kept
<1> QED
  BY <1>5, <1>6

(* Taking it away again is rollbackTxs with its undo data.                 *)
LEMMA UnspentBack ==
  ASSUME NEW c, NEW d, NEW b, Grows(d, c, b), Len(c) \in Nat, Sound(d), b.data \in Seq(Tx)
  PROVE  RollbackTxs(b.data, Unspent(d), CollectConsumed(b.data, Unspent(c))) = Unspent(c)
<1>1. \A u \in Unspent(c) : u.out \notin CreatedBy(b.data)
  BY NewNotUnspent DEF Sound
<1> QED
  BY <1>1, UnspentStep, RollbackUndoes

-----------------------------------------------------------------------------
(* Prefixes of a chain. *)

(* What a prefix of a chain is: its length, its blocks and its own         *)
(* prefixes.                                                               *)
LEMMA PrefixFacts ==
  ASSUME NEW c \in Seq(Block), NEW n \in 0..Len(c)
  PROVE  /\ Prefix(c, n) \in Seq(Block)
         /\ Len(Prefix(c, n)) = n
         /\ \A i \in 1..n : Prefix(c, n)[i] = c[i]
         /\ \A m \in 0..n : Prefix(Prefix(c, n), m) = Prefix(c, m)
BY DEF Prefix

(* A chain is its own longest prefix.                                      *)
LEMMA PrefixOfAll ==
  ASSUME NEW c \in Seq(Block)
  PROVE  Prefix(c, Len(c)) = c
BY DEF Prefix

(* The next longer prefix is one block on.                                 *)
LEMMA PrefixGrows ==
  ASSUME NEW c \in Seq(Block), NEW n \in 1..Len(c)
  PROVE  Grows(Prefix(c, n), Prefix(c, n - 1), c[n])
<1>1. n \in 0..Len(c) /\ n - 1 \in 0..Len(c) /\ (n - 1) + 1 = n /\ n \in 1..n
  OBVIOUS
<1>2. /\ Len(Prefix(c, n)) = n /\ \A i \in 1..n : Prefix(c, n)[i] = c[i]
      /\ Len(Prefix(c, n - 1)) = n - 1 /\ \A i \in 1..(n - 1) : Prefix(c, n - 1)[i] = c[i]
  BY <1>1, PrefixFacts
<1> QED
  BY <1>1, <1>2 DEF Grows

(* A prefix of a sound chain is sound.                                     *)
LEMMA PrefixSound ==
  ASSUME NEW c \in Seq(Block), Sound(c), NEW n \in 0..Len(c)
  PROVE  Sound(Prefix(c, n))
<1> DEFINE p == Prefix(c, n)
<1>1. Len(p) = n /\ \A i \in 1..n : i \in 1..Len(c) /\ p[i] = c[i]
  BY PrefixFacts
<1> HIDE DEF p
<1>2. Heights(p) /\ Shapes(p)
  BY <1>1 DEF Sound, Heights, Shapes
<1>3. MadeOnce(p)
  BY <1>1 DEF Sound, MadeOnce
<1>4. MadeBeforeSpent(p)
  <2>1. ASSUME NEW i \in 1..n, NEW k \in 2..Len(p[i].data), NEW o \in Spends(p[i].data[k])
        PROVE  \E j \in 1..i : o \in CreatedBy(p[j].data)
    <3>1. PICK j \in 1..i : o \in CreatedBy(c[j].data)
      BY <1>1, <2>1 DEF Sound, MadeBeforeSpent
    <3> QED
      BY <1>1, <3>1
  <2> QED
    BY <1>1, <2>1 DEF MadeBeforeSpent
<1> QED
  BY <1>2, <1>3, <1>4 DEF Sound, p

(* Appending a block lengthens the chain by it and leaves its prefixes     *)
(* alone.                                                                  *)
LEMMA AppendGrows ==
  ASSUME NEW c \in Seq(Block), NEW b \in Block
  PROVE  /\ Append(c, b) \in Seq(Block)
         /\ Grows(Append(c, b), c, b)
         /\ \A n \in 0..Len(c) : Prefix(Append(c, b), n) = Prefix(c, n)
BY DEF Grows, Prefix

-----------------------------------------------------------------------------
(* The undo log. *)

(* The undo log still matches when a block and what it consumed are        *)
(* appended.                                                               *)
LEMMA UndoAppend ==
  ASSUME NEW c \in Seq(Block), NEW b \in Block, NEW log \in Seq(Undo), UndoMatches(log, c)
  PROVE  UndoMatches(Append(log, CollectConsumed(b.data, Unspent(c))), Append(c, b))
<1> DEFINE d == Append(c, b)
           new == Append(log, CollectConsumed(b.data, Unspent(c)))
<1>1. Len(new) = Len(d) /\ Len(d) = Len(c) + 1 /\ Len(log) = Len(c) /\ Len(c) \in Nat
  BY DEF UndoMatches
<1>2. ASSUME NEW i \in 1..Len(d), new[i] # NoUndo
      PROVE  new[i] = CollectConsumed(d[i].data, Unspent(Prefix(d, i - 1)))
  <2>1. Prefix(d, i - 1) = Prefix(c, i - 1)
    BY <1>1, AppendGrows
  <2>2. CASE i = Len(d)
    <3>1. Prefix(c, i - 1) = c
      BY <1>1, <2>2, PrefixOfAll
    <3> QED
      BY <1>1, <2>1, <2>2, <3>1
  <2>3. CASE i # Len(d)
    <3>1. i \in 1..Len(c) /\ d[i] = c[i] /\ new[i] = log[i]
      BY <1>1, <2>3
    <3> QED
      BY <1>2, <2>1, <3>1 DEF UndoMatches
  <2> QED
    BY <2>2, <2>3
<1> QED
  BY <1>1, <1>2 DEF UndoMatches

(* The undo log still matches when its oldest entries are cut off.         *)
LEMMA UndoTrim ==
  ASSUME NEW c, NEW log \in Seq(Undo), UndoMatches(log, c)
  PROVE  TrimUndoLog(log) \in Seq(Undo) /\ UndoMatches(TrimUndoLog(log), c)
<1>1. NoUndo \in Undo
  BY DEF Undo
<1>2. TrimUndoLog(log) \in Seq(Undo) /\ Len(TrimUndoLog(log)) = Len(log)
  BY <1>1 DEF TrimUndoLog
<1>3. \A i \in 1..Len(log) : TrimUndoLog(log)[i] \in {NoUndo, log[i]}
  BY DEF TrimUndoLog
<1> QED
  BY <1>2, <1>3 DEF UndoMatches

(* The undo log of a chain, cut to a prefix, is that of the prefix.        *)
LEMMA UndoPrefix ==
  ASSUME NEW c \in Seq(Block), NEW log \in Seq(Undo), UndoMatches(log, c), NEW n \in 0..Len(c)
  PROVE  /\ SubSeq(log, 1, n) \in Seq(Undo)
         /\ UndoMatches(SubSeq(log, 1, n), Prefix(c, n))
<1>1. Len(log) = Len(c)
  BY DEF UndoMatches
<1>2. SubSeq(log, 1, n) \in Seq(Undo) /\ Len(SubSeq(log, 1, n)) = n
  BY <1>1
<1>3. ASSUME NEW i \in 1..n
      PROVE  /\ SubSeq(log, 1, n)[i] = log[i]
             /\ Prefix(c, n)[i] = c[i]
             /\ Prefix(Prefix(c, n), i - 1) = Prefix(c, i - 1)
  BY <1>1, PrefixFacts
<1>4. Len(Prefix(c, n)) = n
  BY PrefixFacts
<1>5. ASSUME NEW i \in 1..n, log[i] # NoUndo
      PROVE  log[i] = CollectConsumed(c[i].data, Unspent(Prefix(c, i - 1)))
  BY <1>5 DEF UndoMatches
<1> QED
  BY <1>2, <1>3, <1>4, <1>5 DEF UndoMatches

-----------------------------------------------------------------------------
(* Blocks stay valid where they are. *)

(* A prefix of a chain that revalidates does so too.                       *)
LEMMA RevalidatesPrefix ==
  ASSUME NEW c \in Seq(Block), Revalidates(c), NEW n \in 0..Len(c)
  PROVE  Revalidates(Prefix(c, n))
<1>1. ASSUME NEW i \in 2..n
      PROVE  /\ Prefix(c, n)[i] = c[i] /\ Prefix(c, n)[i - 1] = c[i - 1]
             /\ Prefix(Prefix(c, n), i - 1) = Prefix(c, i - 1)
             /\ i \in 2..Len(c)
  BY PrefixFacts
<1>2. Len(Prefix(c, n)) = n
  BY PrefixFacts
<1> QED
  BY <1>1, <1>2 DEF Revalidates

(* A chain that revalidates still does so with a block that is accepted.   *)
LEMMA RevalidatesStep ==
  ASSUME NEW c \in Seq(Block), c # << >>, Heights(c), Revalidates(c),
         NEW b \in Block, NEW now, IsBlockValid(b, c, now), TxsAccepted(b, Unspent(c), c)
  PROVE  Revalidates(Append(c, b))
<1> DEFINE d == Append(c, b)
           n == Len(c)
           Good(x, i, before, last) ==
             /\ ~ ViolatesCheckpoint(x) /\ x.headerOk /\ x.merkleOk
             /\ x.index = i - 1 /\ x.previousHash = last.hash
             /\ x.timestamp > MedianTimePast(before)
             /\ TxsAccepted(x, Unspent(before), before)
<1>1. /\ n \in Nat /\ n >= 1 /\ Len(d) = n + 1 /\ d[n + 1] = b /\ d[n] = c[n]
      /\ \A i \in 1..n : d[i] = c[i]
  BY AppendGrows DEF Grows
<1>2. b.index = n
  <2>1. b.index = c[n].index + 1 /\ c[n].index = n - 1
    BY <1>1 DEF IsBlockValid, IsHeaderValid, Tip, Heights
  <2> QED
    BY <1>1, <2>1
<1>3. Good(b, n + 1, c, c[n])
  BY <1>1, <1>2 DEF IsBlockValid, IsHeaderValid, IsTimeStampValid, Tip
<1>4. ASSUME NEW i \in 2..n PROVE Good(c[i], i, Prefix(c, i - 1), c[i - 1])
  BY DEF Revalidates
<1> HIDE DEF Good
<1>5. ASSUME NEW i \in 2..(n + 1) PROVE Good(d[i], i, Prefix(d, i - 1), d[i - 1])
  <2>1. Prefix(d, i - 1) = Prefix(c, i - 1)
    BY <1>1, AppendGrows
  <2>2. CASE i = n + 1
    <3>1. Prefix(c, i - 1) = c /\ i - 1 = n
      BY <1>1, <2>2, PrefixOfAll
    <3> QED
      BY <1>1, <1>3, <2>1, <2>2, <3>1
  <2>3. CASE i # n + 1
    <3>1. i \in 2..n /\ d[i] = c[i] /\ d[i - 1] = c[i - 1]
      BY <1>1, <2>3
    <3> QED
      BY <1>4, <2>1, <3>1
  <2> QED
    BY <2>2, <2>3
<1> QED
  BY <1>1, <1>5 DEF Revalidates, Good

(* What a block consumes is a set of entries.                              *)
LEMMA ConsumedType ==
  ASSUME NEW txs, NEW U \in SUBSET UTxOut
  PROVE  CollectConsumed(txs, U) \in Undo
BY DEF CollectConsumed, Undo

(* All that changes when a chain takes a block it has validated.           *)
LEMMA AcceptedBlock ==
  ASSUME NEW c \in Seq(Block), c # << >>, Sound(c), Revalidates(c),
         NEW log \in Seq(Undo), UndoMatches(log, c),
         NEW b \in Block, NEW now, IsBlockValid(b, c, now), TxsAccepted(b, Unspent(c), c)
  PROVE  LET d == Append(c, b)
             new == Append(log, CollectConsumed(b.data, Unspent(c)))
         IN  /\ d \in Seq(Block) /\ Len(d) = Len(c) + 1 /\ d[1] = c[1]
             /\ Sound(d) /\ Revalidates(d)
             /\ UpdateUTxOuts(b.data, Unspent(c), b.index) = Unspent(d)
             /\ new \in Seq(Undo)
             /\ UndoMatches(new, d)
<1> DEFINE d == Append(c, b)
<1>1. b.data \in Seq(Tx) /\ Len(c) \in Nat /\ Len(c) \in 1..Len(c)
  BY BlockFields
<1>2. b.index = Len(c)
  <2>1. b.index = c[Len(c)].index + 1
    BY DEF IsBlockValid, IsHeaderValid, Tip
  <2>2. c[Len(c)].index = Len(c) - 1
    BY <1>1 DEF Sound, Heights
  <2> QED
    BY <1>1, <2>1, <2>2
<1>3. ValidateBlockTxs(b.data, Unspent(c), b.index, MedianTimePast(c))
  BY DEF TxsAccepted
<1>4. d \in Seq(Block) /\ Grows(d, c, b)
  BY AppendGrows
<1>5. Len(d) = Len(c) + 1 /\ d[1] = c[1]
  BY <1>1, <1>4 DEF Grows
<1>6. Sound(d)
  BY <1>2, <1>3, <1>4, SoundStep
<1>7. UpdateUTxOuts(b.data, Unspent(c), b.index) = Unspent(d)
  BY <1>1, <1>4, <1>6, UnspentStep
<1>8. CollectConsumed(b.data, Unspent(c)) \in Undo
  BY UnspentType, ConsumedType
<1>9. Append(log, CollectConsumed(b.data, Unspent(c))) \in Seq(Undo)
  BY <1>8
<1>10. UndoMatches(Append(log, CollectConsumed(b.data, Unspent(c))), d)
  BY UndoAppend
<1>11. Revalidates(d)
  BY RevalidatesStep DEF Sound
<1> QED
  BY <1>4, <1>5, <1>6, <1>7, <1>9, <1>10, <1>11

(* countCommonPrefix is well defined and counts agreeing blocks.           *)
LEMMA CommonPrefix ==
  ASSUME NEW a \in Seq(Block), NEW b \in Seq(Block)
  PROVE  LET n == CountCommonPrefix(a, b)
             agree(m) == m <= Len(a) /\ m <= Len(b) /\ \A i \in 1..m : a[i].hash = b[i].hash
         IN  n \in 0..Len(a) /\ agree(n) /\ ~ agree(n + 1)
<1> DEFINE agree(m) == m <= Len(a) /\ m <= Len(b) /\ \A i \in 1..m : a[i].hash = b[i].hash
           T == {m \in Nat : ~ agree(m + 1)}
<1>1. Len(a) \in T /\ T \in SUBSET Nat /\ agree(0)
  OBVIOUS
<1>2. PICK n \in T : \A m \in T : n <= m
  BY <1>1, LeastNumber
<1>3. n \in 0..Len(a) /\ ~ agree(n + 1)
  BY <1>1, <1>2
<1>4. agree(n)
  <2>1. CASE n = 0
    BY <1>1, <2>1
  <2>2. CASE n # 0
    <3>1. n - 1 \in Nat /\ (n - 1) + 1 = n /\ ~ (n <= n - 1)
      BY <1>1, <1>2, <2>2
    <3>2. n - 1 \notin T
      BY <1>2, <3>1
    <3> QED
      BY <3>1, <3>2
  <2> QED
    BY <2>1, <2>2
<1>5. CountCommonPrefix(a, b) = CHOOSE m \in 0..Len(a) : agree(m) /\ ~ agree(m + 1)
  BY DEF CountCommonPrefix
<1> HIDE DEF agree, T
<1>6. /\ CountCommonPrefix(a, b) \in 0..Len(a)
      /\ agree(CountCommonPrefix(a, b)) /\ ~ agree(CountCommonPrefix(a, b) + 1)
  BY <1>3, <1>4, <1>5
<1> QED
  BY <1>6 DEF agree

-----------------------------------------------------------------------------
(* The supply. *)

\* Only outputs are in the set, finitely many.
Counted(outs) == IsFiniteSet(outs) /\ \A o \in outs : \E p \in Tx : o \in Creates(p)

(* Two such sets that share nothing together hold what both hold.         *)
LEMMA CountedUnion ==
  ASSUME NEW A, NEW B, Counted(A), Counted(B), A \cap B = {}
  PROVE  /\ Counted(A \cup B) /\ Value(A) \in Int /\ Value(B) \in Int
         /\ Value(A \cup B) = Value(A) + Value(B)
<1>1. /\ IsFiniteSet(A) /\ IsFiniteSet(B)
      /\ \A o \in A \cup B : Amount[o] \in Int
  BY AmountType DEF Counted
<1>2. IsFiniteSet(A \cup B)
  BY <1>1, FS_Union
<1>3. Value(A) \in Int /\ Value(B) \in Int
  BY <1>1, SumType DEF Value
<1>4. Value(A \cup B) = Value(A) + Value(B)
  BY <1>1, SumUnion DEF Value
<1>5. Counted(A \cup B)
  BY <1>2 DEF Counted
<1> QED
  BY <1>3, <1>4, <1>5

\* What the first transaction of b takes, if b follows c.
Taken(c, b) == Spends(b.data[1]) \cap (Outs(Unspent(c)) \cup CreatedBy(b.data))

(* What such a set holds is a number.                                      *)
LEMMA CountedIsInt ==
  ASSUME NEW A, Counted(A)
  PROVE  Value(A) \in Int
<1>1. IsFiniteSet(A) /\ \A o \in A : Amount[o] \in Int
  BY AmountType DEF Counted
<1> QED
  BY <1>1, SumType DEF Value

(* A block adds its subsidy to the value of the set, less what its first   *)
(* transaction takes.                                                      *)
LEMMA SupplyStep ==
  ASSUME NEW c \in Seq(Block), NEW b \in Block, NEW d, Grows(d, c, b), Sound(d),
         NEW mtp, ValidateBlockTxs(b.data, Unspent(c), b.index, mtp),
         Counted(Outs(Unspent(c)))
  PROVE  /\ Counted(Outs(Unspent(d))) /\ Counted(Taken(c, b))
         /\ Value(Outs(Unspent(d))) + Value(Taken(c, b))
              = Value(Outs(Unspent(c))) + GetBlockSubsidy(b.index)
<1> DEFINE txs == b.data
           K == 2..Len(txs)
           in == UNION {Spends(txs[k]) : k \in K}
           out == UNION {Creates(txs[k]) : k \in K}
           cb == Creates(txs[1])
           named == Spends(txs[1])
           old == Outs(Unspent(c))
           new == Outs(Unspent(d))
           taken == Taken(c, b)
           subsidy == GetBlockSubsidy(b.index)
           fees == SumFunction([k \in K |-> GetTxFee(txs[k])])
<1>1. /\ txs \in Seq(Tx) /\ txs # << >> /\ Len(txs) \in Nat \ {0} /\ b.index \in Nat
      /\ txs[1] \in Tx /\ BlockShape(b)
  <2>1. BlockShape(b)
    BY ValidShape
  <2>2. txs \in Seq(Tx) /\ b.index \in Nat
    BY BlockFields
  <2>3. txs # << >>
    BY <2>1 DEF BlockShape
  <2> QED
    BY <2>1, <2>2, <2>3
<1>2. NoDuplicateInputs(txs) /\ IsInjective(txs)
  BY DEF ValidateBlockTxs
<1>3. ASSUME NEW k \in K, NEW o \in Spends(txs[k])
      PROVE  o \in old \cup cb \cup out /\ \E p \in Tx : o \in Creates(p)
  <2>1. PICK u \in SeenBy(k, txs, Unspent(c), b.index) : u.out = o
    BY DEF ValidateBlockTxs, ValidateTx, ValidateTxIn
  <2>2. CASE u \in Unspent(c)
    BY <2>1, <2>2 DEF Outs, Counted
  <2>3. CASE \E j \in 2..(k - 1) : u.out \in Creates(txs[j])
    <3>1. PICK j \in 2..(k - 1) : u.out \in Creates(txs[j])
      BY <2>3
    <3>2. j \in K /\ txs[j] \in Tx
      BY <1>1
    <3> QED
      BY <2>1, <3>1, <3>2
  <2> QED
    BY <2>1, <2>2, <2>3, SeenOuts
<1>4. /\ IsFiniteSet(in) /\ IsFiniteSet(out) /\ Value(in) \in Int /\ Value(out) \in Int
      /\ fees = Value(in) - Value(out)
  BY <1>1, <1>2, <1>3, FeesOf
<1>5. /\ Counted(cb) /\ Value(cb) = subsidy + fees
  <2>1. /\ Len(TxOuts[txs[1]]) = 1
        /\ TxOuts[txs[1]][1].amount = subsidy + fees
    BY DEF ValidateBlockTxs, ValidateCoinbaseTx
  <2>2. DOMAIN TxOuts[txs[1]] = {1} /\ TxOuts[txs[1]][1].amount \in Nat
    <3>1. TxOuts[txs[1]] \in Seq([address : Address, amount : Nat])
      BY <1>1, TxAssumption
    <3>2. DOMAIN TxOuts[txs[1]] = {1}
      BY <2>1, <3>1
    <3> QED
      BY <1>1, <3>2, OutputType
  <2> DEFINE f == [i \in DOMAIN TxOuts[txs[1]] |-> TxOuts[txs[1]][i].amount]
  <2>3. IsFiniteSet(cb) /\ Value(cb) = SumFunction(f)
    BY <1>1, OutputsOf
  <2>4. SumFunction(f) = SumFunctionOnSet(f, {1})
    BY <2>2 DEF SumFunction
  <2>5. SumFunctionOnSet(f, {1}) = f[1] + SumFunctionOnSet(f, {1} \ {1})
    <3>1. IsFiniteSet({1}) /\ 1 \in {1}
      BY FS_Singleton
    <3>2. \A i \in {1} : f[i] \in Int
      BY <2>2
    <3> HIDE DEF f
    <3> QED
      BY <3>1, <3>2, SumRemove
  <2>6. SumFunctionOnSet(f, {1} \ {1}) = 0
    <3>1. {1} \ {1} = {} /\ IsFiniteSet({})
      BY FS_EmptySet
    <3> QED
      BY <3>1, SumStep
  <2>7. f[1] = subsidy + fees /\ f[1] \in Nat
    BY <2>1, <2>2
  <2>8. Value(cb) = subsidy + fees
    <3> HIDE DEF f, subsidy, fees, cb
    <3> QED
      BY <2>3, <2>4, <2>5, <2>6, <2>7
  <2> QED
    BY <1>1, <2>3, <2>8 DEF Counted
<1>6. Counted(in) /\ Counted(out)
  <2>1. \A o \in out : \E p \in Tx : o \in Creates(p)
    BY <1>1
  <2> QED
    BY <1>3, <1>4, <2>1 DEF Counted
<1>7. CreatedBy(txs) = cb \cup out /\ SpentBy(txs) = in \cup named
  <2>1. DOMAIN txs = {1} \cup K
    BY <1>1
  <2> QED
    BY <2>1 DEF CreatedBy, SpentBy
<1>8. cb \cap out = {}
  <2>1. ASSUME NEW k \in K, NEW o \in cb, o \in Creates(txs[k]) PROVE FALSE
    <3>1. txs[k] = txs[1] /\ k \in DOMAIN txs /\ 1 \in DOMAIN txs /\ k # 1
      BY <1>1, <2>1, CreatesType
    <3> QED
      BY <1>2, <3>1 DEF IsInjective
  <2> QED
    BY <2>1
<1>9. old \cap (cb \cup out) = {}
  <2>1. \A u \in Unspent(c) : u.out \notin CreatedBy(txs)
    BY NewNotUnspent DEF Sound
  <2> QED
    BY <1>7, <2>1 DEF Outs
<1>10. new = ((old \cup (cb \cup out)) \ in) \ named
  <2>1. Unspent(d) = UpdateUTxOuts(txs, Unspent(c), b.index)
    BY <1>1, UnspentStep
  <2>2. Outs(New(CreatedBy(txs), b.index)) = cb \cup out
    BY <1>7, OutsOfNew
  <2>3. new = {o \in old \cup Outs(New(CreatedBy(txs), b.index)) : o \notin SpentBy(txs)}
    BY <2>1 DEF Outs, UpdateUTxOuts
  <2> HIDE DEF new, old, cb, out, in, named
  <2> QED
    BY <1>7, <2>2, <2>3
<1>11. in \subseteq old \cup (cb \cup out)
  BY <1>3
<1>18. in \cap named = {}
  <2>1. ASSUME NEW k \in K PROVE Spends(txs[k]) \cap named = {}
    <3>1. k \in DOMAIN txs /\ 1 \in DOMAIN txs /\ k # 1
      BY <1>1, <2>1
    <3> QED
      BY <1>2, <3>1 DEF NoDuplicateInputs
  <2> QED
    BY <2>1
<1>19. taken = named \cap (old \cup (cb \cup out))
  BY <1>7 DEF Taken
<1> HIDE DEF in, out, cb, old, new, subsidy, fees, named, taken
<1> DEFINE all == old \cup (cb \cup out)
<1>12. /\ Counted(cb \cup out) /\ Value(cb) \in Int /\ Value(out) \in Int
       /\ Value(cb \cup out) = Value(cb) + Value(out)
  BY <1>5, <1>6, <1>8, CountedUnion
<1>13. /\ Counted(all) /\ Value(old) \in Int
       /\ Value(all) = Value(old) + Value(cb \cup out)
  BY <1>9, <1>12, CountedUnion DEF old
<1> DEFINE left == new \cup taken
<1>14. /\ Counted(new) /\ Counted(taken) /\ Counted(left)
       /\ new \cap taken = {} /\ left \cap in = {} /\ left \cup in = all
  <2>1. /\ new \in SUBSET all /\ taken \in SUBSET all /\ left \in SUBSET all
        /\ new \cap taken = {} /\ left \cap in = {} /\ left \cup in = all
    BY <1>10, <1>11, <1>18, <1>19
  <2> HIDE DEF all, left
  <2> QED
    BY <1>13, <2>1, FS_Subset DEF Counted
<1>15. /\ Value(all) = Value(left) + Value(in) /\ Value(left) = Value(new) + Value(taken)
       /\ Value(new) \in Int /\ Value(taken) \in Int
  <2>1. Value(left) = Value(new) + Value(taken) /\ Value(new) \in Int /\ Value(taken) \in Int
    BY <1>14, CountedUnion
  <2> HIDE DEF all, left
  <2> QED
    BY <1>6, <1>14, <2>1, CountedUnion
<1>16. subsidy \in Int
  <2>1. b.index \in Nat
    BY <1>1
  <2>2. GetBlockSubsidy(b.index) \in Nat
    BY <2>1, SubsidyOfEpoch
  <2> QED
    BY <2>2 DEF subsidy
<1> HIDE DEF all, left
<1>17. Value(new) + Value(taken) = Value(old) + subsidy
  <2>1. fees \in Int /\ fees = Value(in) - Value(out)
    BY <1>4
  <2>2. Value(all) = Value(old) + ((subsidy + fees) + Value(out))
    BY <1>5, <1>12, <1>13
  <2>3. Value(all) = (Value(new) + Value(taken)) + Value(in)
    BY <1>15
  <2> DEFINE vIn == Value(in)
             vOut == Value(out)
             vOld == Value(old)
             vNew == Value(new)
             vTaken == Value(taken)
  <2>4. /\ vIn \in Int /\ vOut \in Int /\ vOld \in Int /\ vNew \in Int /\ vTaken \in Int
        /\ fees = vIn - vOut /\ (vNew + vTaken) + vIn = vOld + ((subsidy + fees) + vOut)
    BY <1>4, <1>13, <1>15, <2>1, <2>2, <2>3
  <2> HIDE DEF vIn, vOut, vOld, vNew, vTaken
  <2>5. vNew + vTaken = vOld + subsidy
    BY <1>16, <2>1, <2>4
  <2> QED
    BY <2>5 DEF vOld, vNew, vTaken
<1> QED
  BY <1>14, <1>17 DEF new, old, subsidy, taken

(* What first transactions have destroyed grows by what the next one takes,*)
(* which is something else: it is named by another number.                 *)
LEMMA DestroyedStep ==
  ASSUME NEW c \in Seq(Block), NEW b \in Block, NEW d \in Seq(Block), Grows(d, c, b), Sound(d)
  PROVE  Destroyed(d) = Destroyed(c) \cup Taken(c, b) /\ Destroyed(c) \cap Taken(c, b) = {}
<1> DEFINE n == Len(c) + 1
<1>1. /\ Len(d) = n /\ d[n] = b /\ n \in 1..Len(d) /\ Len(c) \in Nat
      /\ \A i \in 1..Len(c) : d[i] = c[i] /\ i \in 1..Len(d)
  BY DEF Grows
<1>2. \A i \in 0..Len(c) : Prefix(d, i) = Prefix(c, i)
  BY <1>1 DEF Prefix
<1>3. ASSUME NEW i \in 1..Len(c) PROVE TakenByFirst(d, i) = TakenByFirst(c, i)
  <2>1. i - 1 \in 0..Len(c)
    BY <1>1
  <2> QED
    BY <1>1, <1>2, <2>1 DEF TakenByFirst
<1>4. TakenByFirst(d, n) = Taken(c, b)
  <2>1. n - 1 = Len(c) /\ Len(c) \in 0..Len(c)
    BY <1>1
  <2>2. Prefix(d, n - 1) = c
    BY <1>2, <2>1, PrefixOfAll
  <2> QED
    BY <1>1, <2>2 DEF TakenByFirst, Taken
<1>5. 1..Len(d) = 1..Len(c) \cup {n}
  BY <1>1
<1>6. \A i \in 1..Len(d) : \A o \in Spends(d[i].data[1]) : o[2] = i - 1
  BY DEF Sound, Shapes, Heights, BlockShape
<1> HIDE DEF n
<1>7. Destroyed(d) = Destroyed(c) \cup Taken(c, b)
  BY <1>3, <1>4, <1>5 DEF Destroyed
<1>8. ASSUME NEW i \in 1..Len(c), NEW o \in TakenByFirst(c, i), o \in Taken(c, b) PROVE FALSE
  <2>1. o \in Spends(d[i].data[1]) /\ o \in Spends(d[n].data[1])
    BY <1>1, <1>8 DEF TakenByFirst, Taken
  <2>2. o[2] = i - 1 /\ o[2] = n - 1
    BY <1>1, <1>6, <2>1
  <2> QED
    BY <1>1, <2>2 DEF n
<1> QED
  BY <1>7, <1>8 DEF Destroyed

\* The set of a chain, and what has been destroyed of it, hold what has been
\* issued up to its last block.
Balanced(c) ==
  /\ Counted(Outs(Unspent(c))) /\ Counted(Destroyed(c))
  /\ Value(Outs(Unspent(c))) + Value(Destroyed(c)) = GetTotalSupply(Len(c) - 1)

(* A chain from Genesis whose blocks all pass holds what has been issued:  *)
(* by the first prefix that would not.                                     *)
LEMMA ChainBalanced ==
  ASSUME NEW c \in Seq(Block), c # << >>, c[1] = Genesis, Sound(c), Revalidates(c)
  PROVE  Balanced(c)
<1> DEFINE p(n) == Prefix(c, n)
           T == {n \in 0..Len(c) : ~ Balanced(p(n))}
<1>1. T = {}
  <2> SUFFICES ASSUME T # {} PROVE FALSE
    OBVIOUS
  <2>1. PICK n \in T : \A m \in T : n <= m
    <3>1. T \in SUBSET Nat
      OBVIOUS
    <3> HIDE DEF T
    <3> QED
      BY <3>1, LeastNumber
  <2>2. n \in 0..Len(c) /\ ~ Balanced(p(n))
    OBVIOUS
  <2>3. n # 0
    <3>1. SUFFICES ASSUME n = 0 PROVE FALSE
      OBVIOUS
    <3>2. Len(p(0)) = 0
      BY PrefixFacts
    <3>3. Unspent(p(0)) = {} /\ Destroyed(p(0)) = {}
      BY <3>2 DEF Unspent, Destroyed
    <3>4. Outs({}) = {} /\ IsFiniteSet({})
      BY FS_EmptySet DEF Outs
    <3>5. Value({}) = 0
      BY <3>4, SumStep DEF Value
    <3>6. GetTotalSupply(Len(p(0)) - 1) = 0
      <4>1. Len(p(0)) - 1 = -1
        BY <3>2
      <4>2. 0 \in Nat
        OBVIOUS
      <4> QED
        BY <4>1, <4>2, TotalSupplyStep
    <3>7. Counted({})
      BY <3>4 DEF Counted
    <3>8. Value(Outs(Unspent(p(0)))) + Value(Destroyed(p(0))) = GetTotalSupply(Len(p(0)) - 1)
      <4> DEFINE x == Value(Outs(Unspent(p(0))))
                 y == Value(Destroyed(p(0)))
                 total == GetTotalSupply(Len(p(0)) - 1)
      <4>1. x = 0 /\ y = 0 /\ total = 0
        BY <3>3, <3>4, <3>5, <3>6
      <4> HIDE DEF x, y, total
      <4>2. x + y = total
        BY <4>1
      <4> QED
        BY <4>2 DEF x, y, total
    <3>9. Balanced(p(0))
      BY <3>3, <3>4, <3>7, <3>8 DEF Balanced
    <3> QED
      BY <2>2, <3>1, <3>9
  <2>4. n \in 1..Len(c) /\ n - 1 \in 0..Len(c) /\ n \in Nat
    BY <2>2, <2>3
  <2>5. Balanced(p(n - 1))
    <3>1. ~ (n <= n - 1)
      BY <2>4
    <3> QED
      BY <2>1, <2>4, <3>1
  <2> DEFINE b == c[n]
  <2>6. /\ Grows(p(n), p(n - 1), b) /\ Sound(p(n))
        /\ p(n - 1) \in Seq(Block) /\ Len(p(n - 1)) = n - 1 /\ Len(p(n)) = n
        /\ b \in Block /\ b.index = n - 1 /\ p(n) \in Seq(Block)
    <3>1. Grows(p(n), p(n - 1), b) /\ Sound(p(n))
      BY <2>2, <2>4, PrefixGrows, PrefixSound
    <3>2. p(n - 1) \in Seq(Block) /\ Len(p(n - 1)) = n - 1
      BY <2>4, PrefixFacts
    <3>3. Len(p(n)) = n /\ p(n) \in Seq(Block)
      BY <2>2, PrefixFacts
    <3>4. b \in Block /\ b.index = n - 1
      BY <2>4 DEF Sound, Heights
    <3> QED
      BY <3>1, <3>2, <3>3, <3>4
  <2>7. \E mtp : ValidateBlockTxs(b.data, Unspent(p(n - 1)), b.index, mtp)
    <3>1. CASE n = 1
      <4>1. Unspent(p(0)) = {}
        <5>1. Len(p(0)) = 0
          BY PrefixFacts
        <5> QED
          BY <5>1 DEF Unspent
      <4>2. b = Genesis /\ n - 1 = 0
        BY <3>1
      <4> QED
        BY <4>1, <4>2, GenesisAssumption
    <3>2. CASE n # 1
      <4>1. n \in 2..Len(c)
        BY <2>4, <3>2
      <4>2. TxsAccepted(b, Unspent(p(n - 1)), p(n - 1))
        BY <4>1 DEF Revalidates
      <4> QED
        BY <4>2 DEF TxsAccepted
    <3> QED
      BY <3>1, <3>2
  <2>8. PICK mtp : ValidateBlockTxs(b.data, Unspent(p(n - 1)), b.index, mtp)
    BY <2>7
  <2> HIDE DEF p, b
  <2>9. Counted(Outs(Unspent(p(n - 1)))) /\ Counted(Destroyed(p(n - 1)))
    BY <2>5 DEF Balanced
  <2>10. /\ Counted(Outs(Unspent(p(n)))) /\ Counted(Taken(p(n - 1), b))
         /\ Value(Outs(Unspent(p(n)))) + Value(Taken(p(n - 1), b))
              = Value(Outs(Unspent(p(n - 1)))) + GetBlockSubsidy(b.index)
    BY <2>6, <2>8, <2>9, SupplyStep
  <2>14. /\ Counted(Destroyed(p(n)))
         /\ Value(Destroyed(p(n))) = Value(Destroyed(p(n - 1))) + Value(Taken(p(n - 1), b))
         /\ Value(Destroyed(p(n - 1))) \in Int /\ Value(Taken(p(n - 1), b)) \in Int
    <3>1. /\ Destroyed(p(n)) = Destroyed(p(n - 1)) \cup Taken(p(n - 1), b)
          /\ Destroyed(p(n - 1)) \cap Taken(p(n - 1), b) = {}
      BY <2>6, DestroyedStep
    <3> QED
      BY <2>9, <2>10, <3>1, CountedUnion
  <2>11. Value(Outs(Unspent(p(n - 1)))) + Value(Destroyed(p(n - 1))) = GetTotalSupply((n - 1) - 1)
    BY <2>5, <2>6 DEF Balanced
  <2>12. GetTotalSupply(n - 1) = GetTotalSupply((n - 1) - 1) + GetBlockSubsidy(n - 1)
    <3>1. n - 1 \in Nat
      BY <2>4
    <3> QED
      BY <3>1, TotalSupplyStep
  <2>15. Value(Outs(Unspent(p(n)))) \in Int /\ Value(Outs(Unspent(p(n - 1)))) \in Int
    BY <2>9, <2>10, CountedIsInt
  <2>16. GetBlockSubsidy(b.index) \in Int
    <3> DEFINE h == b.index
    <3>1. h \in Nat
      BY <2>4, <2>6
    <3> HIDE DEF h
    <3>2. GetBlockSubsidy(h) \in Nat
      BY <3>1, SubsidyOfEpoch
    <3> QED
      BY <3>2 DEF h
  <2>17. Value(Outs(Unspent(p(n)))) + Value(Destroyed(p(n))) = GetTotalSupply(n - 1)
    <3> DEFINE vNew == Value(Outs(Unspent(p(n))))
               vOld == Value(Outs(Unspent(p(n - 1))))
               vTaken == Value(Taken(p(n - 1), b))
               lost == Value(Destroyed(p(n - 1)))
               all == Value(Destroyed(p(n)))
               subsidy == GetBlockSubsidy(b.index)
               total == GetTotalSupply((n - 1) - 1)
    <3>1. /\ vNew \in Int /\ vOld \in Int /\ vTaken \in Int /\ lost \in Int /\ subsidy \in Int
          /\ vNew + vTaken = vOld + subsidy /\ all = lost + vTaken /\ vOld + lost = total
      BY <2>10, <2>11, <2>14, <2>15, <2>16
    <3> HIDE DEF vNew, vOld, vTaken, lost, all, subsidy, total
    <3>2. vNew + all = total + subsidy
      BY <3>1
    <3> QED
      BY <2>6, <2>12, <3>2 DEF vNew, all, total, subsidy
  <2>13. Balanced(p(n))
    BY <2>6, <2>10, <2>14, <2>17 DEF Balanced
  <2> QED
    BY <2>2, <2>13
<1>2. Len(c) \in 0..Len(c) /\ p(Len(c)) = c
  BY PrefixOfAll
<1>3. Balanced(p(Len(c)))
  BY <1>1, <1>2
<1> QED
  BY <1>2, <1>3

-----------------------------------------------------------------------------
(* The inductive invariant: the chain is sound and its set and undo log    *)
(* are exact; while replaceChain runs, so is all it has computed so far.   *)

\* The chain being built starts with the first n blocks of ours.
Keeps(n) == n <= Len(chain) /\ \A i \in 1..n : chain[i] = blockchain[i]

ForkInv ==
  /\ common \in 0..Len(blockchain)
  /\ ~ TooDeep(common)
  /\ Keeps(common)
  /\ chain # << >> /\ chain[1] = Genesis /\ Sound(chain) /\ Revalidates(chain)
  /\ UndoMatches(undo, chain)
  /\ phase \in {"rewind", "replay"} =>
       /\ chain = Prefix(blockchain, common)
       /\ cursor \in 0..Len(blockchain)
       /\ working = Unspent(Prefix(blockchain, cursor))
  /\ phase = "replay" => cursor <= common
  /\ phase = "apply" =>
       /\ atCommon = Unspent(Prefix(blockchain, common))
       /\ working = Unspent(chain)

StoreInv ==
  /\ blockchain # << >> /\ blockchain[1] = Genesis /\ Sound(blockchain) /\ Revalidates(blockchain)
  /\ UTxOutsAreUnspent
  /\ UndoRestores

ChainInv ==
  /\ TypeOK
  /\ StoreInv
  /\ phase # "idle" => ForkInv

(* The invariant holds of the chain of genesis alone.                      *)
LEMMA InitInv == Init => ChainInv
<1> SUFFICES ASSUME Init PROVE ChainInv
  OBVIOUS
<1> USE DEF Init
<1>1. Genesis \in Block /\ Genesis.index = 0 /\ Genesis.data \in Seq(Tx)
  BY GenesisAssumption, BlockFields
<1>2. << >> \in Seq(Block) /\ Len(<< >>) = 0 /\ Unspent(<< >>) = {}
  BY DEF Unspent
<1>3. Sound(<< >>)
  BY <1>2 DEF Sound, Heights, Shapes, MadeOnce, MadeBeforeSpent
<1>4. blockchain \in Seq(Block) /\ Len(blockchain) = 1 /\ blockchain[1] = Genesis
  BY <1>1
<1>5. Grows(blockchain, << >>, Genesis)
  BY <1>2, <1>4 DEF Grows
<1>6. ValidateBlockTxs(Genesis.data, Unspent(<< >>), Genesis.index, 0)
  BY <1>1, <1>2, GenesisAssumption
<1>7. Sound(blockchain) /\ Revalidates(blockchain)
  <2>1. Sound(blockchain)
    BY <1>1, <1>2, <1>3, <1>5, <1>6, SoundStep
  <2>2. 2..Len(blockchain) = {}
    BY <1>4
  <2> QED
    BY <2>1, <2>2 DEF Revalidates
<1>8. uTxOuts = Unspent(blockchain)
  BY <1>1, <1>2, <1>5, <1>7, UnspentStep
<1>9. uTxOuts \in SUBSET UTxOut
  BY <1>4, <1>8, UnspentType
<1>10. CollectConsumed(Genesis.data, {}) \in Undo
  BY ConsumedType
<1>11. undoLog \in Seq(Undo)
  BY <1>10
<1>12. UndoMatches(undoLog, blockchain)
  <2>1. Prefix(blockchain, 0) = << >>
    BY <1>4 DEF Prefix
  <2>2. Len(undoLog) = 1 /\ undoLog[1] = CollectConsumed(Genesis.data, {})
    BY <1>10
  <2>3. ASSUME NEW i \in 1..1
        PROVE  undoLog[i] = CollectConsumed(blockchain[i].data, Unspent(Prefix(blockchain, i - 1)))
    <3>1. i = 1 /\ i - 1 = 0
      OBVIOUS
    <3> QED
      BY <1>2, <1>4, <2>1, <2>2, <3>1
  <2> QED
    BY <1>4, <2>2, <2>3 DEF UndoMatches
<1>13. TypeOK
  BY <1>4, <1>9, <1>11 DEF TypeOK
<1> QED
  BY <1>4, <1>7, <1>8, <1>12, <1>13 DEF ChainInv, StoreInv, UTxOutsAreUnspent, UndoRestores

-----------------------------------------------------------------------------
(* Every action keeps the invariant. *)

(* addBlockToChain keeps the invariant.                                    *)
LEMMA AddBlockInv ==
  ASSUME ChainInv, NEW b \in Block, NEW now \in Clock, AddBlockToChain(b, now)
  PROVE  ChainInv'
<1> USE DEF AddBlockToChain
<1> DEFINE d == Append(blockchain, b)
           new == Append(undoLog, CollectConsumed(b.data, uTxOuts))
<1>1. /\ blockchain \in Seq(Block) /\ undoLog \in Seq(Undo) /\ blockchain # << >>
      /\ blockchain[1] = Genesis /\ Sound(blockchain) /\ Revalidates(blockchain)
      /\ uTxOuts = Unspent(blockchain) /\ UndoMatches(undoLog, blockchain)
  BY DEF ChainInv, TypeOK, StoreInv, UTxOutsAreUnspent, UndoRestores
<1>2. /\ d \in Seq(Block) /\ Len(d) = Len(blockchain) + 1 /\ d[1] = Genesis /\ Sound(d) /\ Revalidates(d)
      /\ UpdateUTxOuts(b.data, uTxOuts, b.index) = Unspent(d)
      /\ new \in Seq(Undo) /\ UndoMatches(new, d)
  BY <1>1, AcceptedBlock
<1>3. TrimUndoLog(new) \in Seq(Undo) /\ UndoMatches(TrimUndoLog(new), d)
  BY <1>2, UndoTrim
<1>4. blockchain' = d /\ uTxOuts' = Unspent(d) /\ undoLog' = TrimUndoLog(new)
  BY <1>2
<1>5. StoreInv'
  BY <1>2, <1>3, <1>4 DEF StoreInv, UTxOutsAreUnspent, UndoRestores
<1>6. TypeOK'
  BY <1>2, <1>3, <1>4, UnspentType DEF ChainInv, TypeOK, locals
<1>7. phase' = "idle"
  BY DEF locals
<1> QED
  BY <1>5, <1>6, <1>7 DEF ChainInv

(* The invariant holds at the start of a reorganisation.                   *)
LEMMA StartReplaceInv ==
  ASSUME ChainInv, NEW c \in Candidates, StartReplace(c)
  PROVE  ChainInv'
<1> USE DEF StartReplace
<1> DEFINE n == CountCommonPrefix(blockchain, c)
<1>1. /\ blockchain \in Seq(Block) /\ undoLog \in Seq(Undo) /\ c \in Seq(Block)
      /\ blockchain # << >> /\ blockchain[1] = Genesis /\ Sound(blockchain) /\ Revalidates(blockchain)
      /\ uTxOuts = Unspent(blockchain) /\ UndoMatches(undoLog, blockchain)
  BY BlockAssumption DEF ChainInv, TypeOK, StoreInv, UTxOutsAreUnspent, UndoRestores
<1>2. n \in 1..Len(blockchain)
  <2>1. /\ n \in 0..Len(blockchain)
        /\ ~ (/\ n + 1 <= Len(blockchain) /\ n + 1 <= Len(c)
              /\ \A i \in 1..(n + 1) : blockchain[i].hash = c[i].hash)
    BY <1>1, CommonPrefix
  <2>2. n # 0
    <3>1. SUFFICES ASSUME n = 0 PROVE FALSE
      OBVIOUS
    <3>2. 1 <= Len(blockchain) /\ 1 <= Len(c) /\ blockchain[1].hash = c[1].hash
      BY <1>1
    <3>3. \A i \in 1..(n + 1) : i = 1
      BY <3>1
    <3> QED
      BY <2>1, <3>1, <3>2, <3>3
  <2> QED
    BY <2>1, <2>2
<1> HIDE DEF n
<1>3. /\ candidate' = c /\ common' = n /\ chain' = Prefix(blockchain, n)
      /\ undo' = SubSeq(undoLog, 1, n) /\ UNCHANGED <<store, atCommon>>
      /\ phase' = "rewind" /\ cursor' = Len(blockchain) /\ working' = uTxOuts
  BY <1>1 DEF n, Prefix, UndoMatches
<1>4. /\ chain' \in Seq(Block) /\ chain' # << >> /\ chain'[1] = Genesis /\ Sound(chain')
      /\ Revalidates(chain')
  <2>1. n \in 0..Len(blockchain) /\ 1 \in 1..n
    BY <1>2
  <2>2. /\ Prefix(blockchain, n) \in Seq(Block) /\ Len(Prefix(blockchain, n)) = n
        /\ Prefix(blockchain, n)[1] = blockchain[1] /\ Sound(Prefix(blockchain, n))
        /\ Revalidates(Prefix(blockchain, n))
    BY <1>1, <2>1, PrefixFacts, PrefixSound, RevalidatesPrefix
  <2>3. Prefix(blockchain, n) # << >>
    BY <2>1, <2>2
  <2> QED
    BY <1>1, <1>3, <2>2, <2>3
<1>5. undo' \in Seq(Undo) /\ UndoMatches(undo', chain')
  <2>1. n \in 0..Len(blockchain)
    BY <1>2
  <2> QED
    BY <1>1, <1>3, <2>1, UndoPrefix
<1>6. TypeOK'
  BY <1>1, <1>2, <1>3, <1>4, <1>5 DEF ChainInv, TypeOK, store
<1>7. StoreInv'
  BY <1>3 DEF ChainInv, StoreInv, UTxOutsAreUnspent, UndoRestores, store
<1>8. ForkInv'
  <2>1. blockchain' = blockchain /\ Prefix(blockchain, Len(blockchain)) = blockchain
    BY <1>1, <1>3, PrefixOfAll DEF store
  <2>2. ~ TooDeep(common)'
    BY <1>3, <2>1 DEF TooDeep, n
  <2>3. Keeps(common)'
    <3>1. n \in 0..Len(blockchain)
      BY <1>2
    <3> QED
      BY <1>1, <1>3, <2>1, <3>1, PrefixFacts DEF Keeps
  <2> QED
    BY <1>1, <1>2, <1>3, <1>4, <1>5, <2>1, <2>2, <2>3 DEF ForkInv
<1> QED
  BY <1>6, <1>7, <1>8 DEF ChainInv

(* Rewinding a block by its undo data keeps the invariant.                 *)
LEMMA RewindBlockInv ==
  ASSUME ChainInv, RewindBlock
  PROVE  ChainInv'
<1> USE DEF RewindBlock
<1> DEFINE p(k) == Prefix(blockchain, k)
<1>1. /\ blockchain \in Seq(Block) /\ Sound(blockchain) /\ UndoMatches(undoLog, blockchain)
      /\ cursor \in 0..Len(blockchain) /\ common \in 0..Len(blockchain)
      /\ working = Unspent(p(cursor)) /\ ForkInv
  BY DEF ChainInv, TypeOK, StoreInv, UndoRestores, ForkInv
<1>2. cursor \in 1..Len(blockchain) /\ cursor - 1 \in 0..Len(blockchain)
  BY <1>1
<1>3. undoLog[cursor] = CollectConsumed(blockchain[cursor].data, Unspent(p(cursor - 1)))
  BY <1>1, <1>2 DEF UndoMatches
<1>4. /\ Grows(p(cursor), p(cursor - 1), blockchain[cursor])
      /\ Sound(p(cursor)) /\ Len(p(cursor - 1)) \in Nat
      /\ blockchain[cursor].data \in Seq(Tx) /\ p(cursor - 1) \in Seq(Block)
  BY <1>1, <1>2, PrefixGrows, PrefixSound, PrefixFacts, BlockFields
<1>5. working' = Unspent(p(cursor - 1))
  BY <1>1, <1>3, <1>4, UnspentBack
<1>6. working' \in SUBSET UTxOut
  BY <1>4, <1>5, UnspentType
<1>7. TypeOK'
  BY <1>2, <1>6 DEF ChainInv, TypeOK, store
<1>8. StoreInv'
  BY DEF ChainInv, StoreInv, UTxOutsAreUnspent, UndoRestores, store
<1>9. ForkInv'
  BY <1>1, <1>2, <1>5 DEF ForkInv, TooDeep, Keeps, store
<1> QED
  BY <1>7, <1>8, <1>9 DEF ChainInv

(* Falling back to a replay of the prefix keeps the invariant.             *)
LEMMA UndoMissingInv ==
  ASSUME ChainInv, UndoMissing
  PROVE  ChainInv'
<1> USE DEF UndoMissing
<1>1. /\ blockchain \in Seq(Block) /\ ForkInv
      /\ working' = {} /\ cursor' = 0 /\ phase' = "replay"
      /\ UNCHANGED <<blockchain, uTxOuts, undoLog, candidate, common, undo, atCommon, chain>>
  BY DEF ChainInv, TypeOK, store
<1>2. Unspent(Prefix(blockchain, 0)) = {}
  <2>1. Len(Prefix(blockchain, 0)) = 0
    BY <1>1, PrefixFacts
  <2> QED
    BY <2>1 DEF Unspent
<1>3. TypeOK'
  BY <1>1 DEF ChainInv, TypeOK
<1>4. StoreInv'
  BY <1>1 DEF ChainInv, StoreInv, UTxOutsAreUnspent, UndoRestores
<1>5. ForkInv'
  <2>1. common \in Nat /\ Len(blockchain) \in Nat
    BY <1>1 DEF ChainInv, TypeOK
  <2> QED
    BY <1>1, <1>2, <2>1 DEF ForkInv, TooDeep, Keeps
<1> QED
  BY <1>3, <1>4, <1>5 DEF ChainInv

(* Replaying a block of the prefix keeps the invariant.                    *)
LEMMA ReplayBlockInv ==
  ASSUME ChainInv, ReplayBlock
  PROVE  ChainInv'
<1> USE DEF ReplayBlock
<1> DEFINE n == cursor + 1
           b == chain[n]
           p(k) == Prefix(blockchain, k)
           consumed == CollectConsumed(b.data, working)
<1>1. /\ blockchain \in Seq(Block) /\ Sound(blockchain) /\ ForkInv
      /\ common \in 0..Len(blockchain) /\ cursor \in 0..Len(blockchain)
      /\ chain = p(common) /\ working = Unspent(p(cursor))
      /\ undo \in Seq(Undo) /\ UndoMatches(undo, chain) /\ chain \in Seq(Block)
      /\ working \in SUBSET UTxOut
  BY DEF ChainInv, TypeOK, StoreInv, ForkInv
<1>2. /\ n \in 1..common /\ n \in 1..Len(blockchain) /\ n - 1 = cursor
      /\ n \in 0..Len(blockchain)
  BY <1>1
<1>3. Len(chain) = common /\ Len(undo) = common /\ b = blockchain[n]
  BY <1>1, <1>2, PrefixFacts DEF UndoMatches
<1>4. b.data \in Seq(Tx)
  BY <1>1, <1>2, <1>3, BlockFields
<1>5. /\ Grows(p(n), p(cursor), b) /\ Sound(p(n)) /\ Len(p(cursor)) \in Nat
  BY <1>1, <1>2, <1>3, PrefixGrows, PrefixSound, PrefixFacts
<1>6. /\ working' = UpdateUTxOuts(b.data, working, b.index)
      /\ undo' = [undo EXCEPT ![n] = consumed]
      /\ cursor' = n
      /\ UNCHANGED <<blockchain, uTxOuts, undoLog, phase, candidate, common, atCommon, chain>>
  BY DEF store
<1>7. working' = Unspent(p(n))
  BY <1>1, <1>4, <1>5, <1>6, UnspentStep
<1>8. working' \in SUBSET UTxOut
  BY <1>1, <1>2, <1>7, PrefixFacts, UnspentType
<1>9. undo' \in Seq(Undo) /\ Len(undo') = common
  BY <1>1, <1>2, <1>3, <1>6, ConsumedType
<1>10. UndoMatches(undo', chain)
  <2>1. ASSUME NEW i \in 1..common, undo'[i] # NoUndo
        PROVE  undo'[i] = CollectConsumed(chain[i].data, Unspent(Prefix(chain, i - 1)))
    <3>1. CASE i = n
      <4>1. Prefix(chain, i - 1) = p(cursor)
        BY <1>1, <1>2, <3>1, PrefixFacts
      <4> QED
        BY <1>1, <1>2, <1>3, <1>6, <3>1, <4>1
    <3>2. CASE i # n
      <4>1. undo'[i] = undo[i]
        BY <1>1, <1>3, <1>6, <3>2
      <4> QED
        BY <1>1, <1>3, <2>1, <4>1 DEF UndoMatches
    <3> QED
      BY <3>1, <3>2
  <2> QED
    BY <1>3, <1>9, <2>1 DEF UndoMatches
<1>11. TypeOK'
  BY <1>2, <1>6, <1>8, <1>9 DEF ChainInv, TypeOK
<1>12. StoreInv'
  BY <1>6 DEF ChainInv, StoreInv, UTxOutsAreUnspent, UndoRestores
<1>13. ForkInv'
  BY <1>1, <1>2, <1>6, <1>7, <1>10 DEF ForkInv, TooDeep, Keeps
<1> QED
  BY <1>11, <1>12, <1>13 DEF ChainInv

(* At the fork, however it was reached, the invariant of the validation of *)
(* the branch holds.                                                       *)
LEMMA StartApplyInv ==
  ASSUME ChainInv, StartApply
  PROVE  ChainInv'
<1> USE DEF StartApply
<1>1. /\ ForkInv /\ phase' = "apply" /\ atCommon' = working /\ cursor = common
      /\ UNCHANGED <<blockchain, uTxOuts, undoLog, candidate, common, cursor, working, undo, chain>>
  BY DEF ChainInv, store
<1>2. TypeOK'
  BY <1>1 DEF ChainInv, TypeOK
<1>3. StoreInv'
  BY <1>1 DEF ChainInv, StoreInv, UTxOutsAreUnspent, UndoRestores
<1>4. ForkInv'
  BY <1>1 DEF ForkInv, TooDeep, Keeps
<1> QED
  BY <1>2, <1>3, <1>4 DEF ChainInv

(* Validating and applying a block of the branch keeps the invariant.      *)
LEMMA ApplyBlockInv ==
  ASSUME ChainInv, NEW now \in Clock, ApplyBlock(now)
  PROVE  ChainInv'
<1> USE DEF ApplyBlock
<1> DEFINE b == candidate[Len(chain) + 1]
           d == Append(chain, b)
           new == Append(undo, CollectConsumed(b.data, working))
<1>1. /\ chain \in Seq(Block) /\ undo \in Seq(Undo) /\ candidate \in Seq(Block)
      /\ chain # << >> /\ chain[1] = Genesis /\ Sound(chain) /\ Revalidates(chain)
      /\ working = Unspent(chain) /\ UndoMatches(undo, chain) /\ ForkInv
  BY DEF ChainInv, TypeOK, ForkInv
<1>2. b \in Block
  BY <1>1
<1>3. IsBlockValid(b, chain, now) /\ TxsAccepted(b, Unspent(chain), chain)
  BY <1>1
<1>4. /\ d \in Seq(Block) /\ Len(d) = Len(chain) + 1 /\ d[1] = Genesis /\ Sound(d) /\ Revalidates(d)
      /\ UpdateUTxOuts(b.data, Unspent(chain), b.index) = Unspent(d)
      /\ new \in Seq(Undo) /\ UndoMatches(new, d)
  BY <1>1, <1>2, <1>3, AcceptedBlock
<1>5. /\ chain' = d /\ working' = Unspent(d) /\ undo' = new
      /\ UNCHANGED <<blockchain, uTxOuts, undoLog, phase, candidate, common, cursor, atCommon>>
  BY <1>1, <1>4 DEF store
<1>6. TypeOK'
  BY <1>4, <1>5, UnspentType DEF ChainInv, TypeOK
<1>7. StoreInv'
  BY <1>5 DEF ChainInv, StoreInv, UTxOutsAreUnspent, UndoRestores
<1>8. ForkInv'
  <2>1. d # << >>
    BY <1>1, <1>2
  <2>2. Keeps(common)'
    BY <1>1, <1>2, <1>5, AppendGrows DEF ForkInv, Keeps, Grows
  <2> QED
    BY <1>1, <1>4, <1>5, <2>1, <2>2 DEF ForkInv, TooDeep
<1> QED
  BY <1>6, <1>7, <1>8 DEF ChainInv

(* Whatever becomes of the candidate, the locals go out of scope.          *)
LEMMA RejectInv ==
  ASSUME ChainInv, Return, UNCHANGED store
  PROVE  ChainInv'
<1>1. TypeOK'
  BY DEF ChainInv, TypeOK, Return, store
<1>2. StoreInv'
  BY DEF ChainInv, StoreInv, UTxOutsAreUnspent, UndoRestores, store
<1> QED
  BY <1>1, <1>2 DEF ChainInv, Return

(* Taking over the branch keeps the invariant.                             *)
LEMMA AdoptInv ==
  ASSUME ChainInv, Adopt
  PROVE  ChainInv'
<1> USE DEF Adopt
<1>1. /\ chain \in Seq(Block) /\ undo \in Seq(Undo) /\ working \in SUBSET UTxOut
      /\ chain # << >> /\ chain[1] = Genesis /\ Sound(chain) /\ Revalidates(chain)
      /\ working = Unspent(chain) /\ UndoMatches(undo, chain)
  BY DEF ChainInv, TypeOK, ForkInv
<1>2. TrimUndoLog(undo) \in Seq(Undo) /\ UndoMatches(TrimUndoLog(undo), chain)
  BY <1>1, UndoTrim
<1>3. TypeOK'
  BY <1>1, <1>2 DEF ChainInv, TypeOK, Return
<1>4. StoreInv'
  BY <1>1, <1>2 DEF StoreInv, UTxOutsAreUnspent, UndoRestores
<1> QED
  BY <1>3, <1>4 DEF ChainInv, Return

(* A step that changes nothing keeps the invariant.                        *)
LEMMA StutterInv ==
  ASSUME ChainInv, UNCHANGED vars
  PROVE  ChainInv'
<1>1. TypeOK'
  BY DEF ChainInv, TypeOK, vars, store, locals
<1>2. StoreInv'
  BY DEF ChainInv, StoreInv, UTxOutsAreUnspent, UndoRestores, vars, store, locals
<1>3. ForkInv' <=> ForkInv
  BY DEF ForkInv, TooDeep, Keeps, vars, store, locals
<1> QED
  BY <1>1, <1>2, <1>3 DEF ChainInv, vars, locals

(* Every step keeps the invariant.                                         *)
LEMMA NextInv == ChainInv /\ [Next]_vars => ChainInv'
<1> SUFFICES ASSUME ChainInv, [Next]_vars PROVE ChainInv'
  OBVIOUS
<1>1. CASE \E b \in Block, now \in Clock : AddBlockToChain(b, now)
  BY <1>1, AddBlockInv
<1>2. CASE \E c \in Candidates : StartReplace(c)
  BY <1>2, StartReplaceInv
<1>3. CASE RewindBlock
  BY <1>3, RewindBlockInv
<1>4. CASE UndoMissing
  BY <1>4, UndoMissingInv
<1>5. CASE ReplayBlock
  BY <1>5, ReplayBlockInv
<1>6. CASE StartApply
  BY <1>6, StartApplyInv
<1>7. CASE \E now \in Clock : ApplyBlock(now)
  BY <1>7, ApplyBlockInv
<1>8. CASE \E now \in Clock : RejectBlock(now)
  BY <1>8, RejectInv DEF RejectBlock
<1>9. CASE Adopt
  BY <1>9, AdoptInv
<1>10. CASE RejectLighter
  BY <1>10, RejectInv DEF RejectLighter
<1>11. CASE UNCHANGED vars
  BY <1>11, StutterInv
<1> QED
  BY <1>1, <1>2, <1>3, <1>4, <1>5, <1>6, <1>7, <1>8, <1>9, <1>10, <1>11 DEF Next

(* The inductive invariant holds in every state of the chain, through any  *)
(* blocks and reorganisations (addBlockToChain, replaceChain).             *)
THEOREM ChainInvariant == Spec => []ChainInv
BY InitInv, NextInv, PTL DEF Spec

-----------------------------------------------------------------------------
(* The theorems. *)

(* The state of the chain, and of every reorganisation in progress, keeps  *)
(* its type.                                                               *)
THEOREM TypeCorrect == Spec => []TypeOK
<1>1. ChainInv => TypeOK
  BY DEF ChainInv
<1> QED
  BY <1>1, ChainInvariant, PTL

(* The uTxOuts kept block by block, through every rewind, replay and       *)
(* switch, are those of the chain.                                         *)
THEOREM UTxOutsExact == Spec => []UTxOutsAreUnspent
<1>1. ChainInv => UTxOutsAreUnspent
  BY DEF ChainInv, StoreInv
<1> QED
  BY <1>1, ChainInvariant, PTL

(* The undo log has a place for every block, and what it still holds there *)
(* is what the block consumed.                                             *)
THEOREM UndoExact == Spec => []UndoRestores
<1>1. ChainInv => UndoRestores
  BY DEF ChainInv, StoreInv
<1> QED
  BY <1>1, ChainInvariant, PTL

(* Rewinding with the undo log, or replaying when it has been trimmed,     *)
(* gives the set at the fork.                                              *)
THEOREM ForkStateCorrect == Spec => []ForkStateExact
<1>1. ChainInv => ForkStateExact
  BY DEF ChainInv, ForkInv, ForkStateExact
<1> QED
  BY <1>1, ChainInvariant, PTL

(* Every block of the best chain, through any sequence of reorganisations, *)
(* is valid after the blocks before it, signatures included.               *)
THEOREM ChainValid == Spec => []ChainRevalidates
<1>1. ChainInv => ChainRevalidates
  BY DEF ChainInv, StoreInv, ChainRevalidates
<1> QED
  BY <1>1, ChainInvariant, PTL

(* Through blocks and reorganisations no coin is made, and none is lost    *)
(* but what first transactions take: the unspent amounts and those add up  *)
(* to what has been issued up to the tip.                                  *)
THEOREM NoCoinMade == Spec => []SupplyConserved
<1>1. ChainInv => SupplyConserved
  <2> SUFFICES ASSUME ChainInv PROVE SupplyConserved
    OBVIOUS
  <2>1. /\ blockchain \in Seq(Block) /\ blockchain # << >> /\ blockchain[1] = Genesis
        /\ Sound(blockchain) /\ Revalidates(blockchain) /\ uTxOuts = Unspent(blockchain)
    BY DEF ChainInv, TypeOK, StoreInv, UTxOutsAreUnspent
  <2>2. /\ Counted(Outs(uTxOuts)) /\ Counted(Destroyed(blockchain))
        /\ Value(Outs(uTxOuts)) + Value(Destroyed(blockchain)) = GetTotalSupply(Len(blockchain) - 1)
    BY <2>1, ChainBalanced DEF Balanced
  <2>3. Tip(blockchain).index = Len(blockchain) - 1
    <3>1. Len(blockchain) \in 1..Len(blockchain)
      BY <2>1
    <3> QED
      BY <2>1, <3>1 DEF Tip, Sound, Heights
  <2>4. ASSUME NEW outs, Counted(outs)
        PROVE  SumFunction([o \in outs |-> AmountOf(o)]) = Value(outs)
    <3> DEFINE f == [o \in outs |-> AmountOf(o)]
    <3>1. SumFunction(f) = SumFunctionOnSet(f, outs)
      BY DEF SumFunction
    <3>2. IsFiniteSet(outs) /\ \A o \in outs : f[o] = Amount[o]
      BY <2>4, AmountType DEF Counted
    <3> HIDE DEF f
    <3>3. SumFunctionOnSet(f, outs) = SumFunctionOnSet(Amount, outs)
      BY <3>2, SumSame
    <3> QED
      BY <3>1, <3>3 DEF Value, f
  <2> QED
    BY <2>2, <2>3, <2>4 DEF SupplyConserved
<1> QED
  BY <1>1, ChainInvariant, PTL
=============================================================================
