----------------------------- MODULE NodeProofs ------------------------------
(***************************************************************************)
(* The pool and the chain together, for every family of transactions and   *)
(* every limit of the pool: nothing is spent twice or both pending and     *)
(* mined, the records of fees are exact, the limits hold, and the pool is  *)
(* minable in its order unless an eviction takes a parent of the newcomer; *)
(* the templates made from it are blocks the node accepts.                 *)
(***************************************************************************)
EXTENDS Node, ChainProofs

-----------------------------------------------------------------------------
(* What a filtered sequence is. *)

\* e[k] is the place in txs of the k-th transaction of r, which are those of
\* txs in keep.
Picks(e, r, txs, keep) ==
  /\ e \in [1..Len(r) -> 1..Len(txs)]
  /\ \A k \in 1..Len(r) : r[k] = txs[e[k]] /\ txs[e[k]] \in keep
  /\ \A j, k \in 1..Len(r) : j < k => e[j] < e[k]
  /\ \A i \in 1..Len(txs) : txs[i] \in keep => \E k \in 1..Len(r) : e[k] = i

(* Only keeps the transactions in keep, in their order.                    *)
LEMMA OnlyPlaces ==
  ASSUME NEW T, NEW txs \in Seq(T), NEW keep
  PROVE  LET r == Only(txs, keep)
         IN  /\ r \in Seq(T) /\ Len(r) <= Len(txs)
             /\ \E e : Picks(e, r, txs, keep)
<1> DEFINE places == {i \in DOMAIN txs : txs[i] \in keep}
           size == Cardinality(places)
           e == [k \in 1..size |-> CHOOSE i \in places : Rank(i, places) = k]
           r == Only(txs, keep)
<1>1. Len(txs) \in Nat /\ DOMAIN txs = 1..Len(txs) /\ places \in SUBSET (1..Len(txs))
  OBVIOUS
<1>2. /\ size \in Nat /\ size <= Len(txs)
      /\ \A i \in places : Rank(i, places) \in 1..size
      /\ \A i, j \in places : i < j => Rank(i, places) < Rank(j, places)
      /\ \A k \in 1..size : \E i \in places : Rank(i, places) = k
  <2> HIDE DEF places
  <2> QED
    BY <1>1, Ranks
<1>3. r = [k \in 1..size |-> txs[e[k]]]
  BY DEF Only, Rank
<1>4. \A k \in 1..size : e[k] \in places /\ Rank(e[k], places) = k
  <2> HIDE DEF places, size
  <2> QED
    BY <1>2
<1>5. \A k \in 1..size : e[k] \in 1..Len(txs) /\ txs[e[k]] \in keep
  BY <1>1, <1>4
<1>6. r \in Seq(T) /\ Len(r) = size
  <2> HIDE DEF e, size, places, r
  <2> QED
    BY <1>1, <1>2, <1>3, <1>5
<1>7. ASSUME NEW j \in 1..size, NEW k \in 1..size, j < k PROVE e[j] < e[k]
  <2> HIDE DEF e, size, places, r
  <2> SUFFICES ASSUME ~ (e[j] < e[k]) PROVE FALSE
    OBVIOUS
  <2>1. e[j] \in Int /\ e[k] \in Int /\ e[j] \in places /\ e[k] \in places
    BY <1>4, <1>5
  <2>2. Rank(e[j], places) = j /\ Rank(e[k], places) = k
    BY <1>4
  <2>3. e[j] = e[k] \/ e[k] < e[j]
    BY <2>1
  <2>4. CASE e[j] = e[k]
    BY <2>2, <2>4, <1>7
  <2>5. CASE e[k] < e[j]
    <3>1. k < j
      BY <1>2, <2>1, <2>2, <2>5
    <3> QED
      BY <3>1, <1>7, <1>2
  <2> QED
    BY <2>3, <2>4, <2>5
<1>8. ASSUME NEW i \in 1..Len(txs), txs[i] \in keep
      PROVE  \E k \in 1..size : e[k] = i
  <2>1. i \in places
    BY <1>8
  <2> DEFINE k == Rank(i, places)
  <2>2. k \in 1..size
    <3> HIDE DEF places, size
    <3> QED
      BY <2>1, <1>2
  <2>3. e[k] \in places /\ Rank(e[k], places) = Rank(i, places)
    <3> HIDE DEF places, size, e
    <3> QED
      BY <2>2, <1>4
  <2>4. e[k] = i
    <3>1. i \in Int /\ e[k] \in Int
      BY <2>3, <1>1
    <3>2. Rank(i, places) \in Int
      BY <2>2
    <3> HIDE DEF places, size, e, k
    <3>3. ASSUME i < e[k] PROVE FALSE
      <4>1. Rank(i, places) < Rank(e[k], places)
        BY <1>2, <2>1, <2>3, <3>3
      <4> QED
        BY <2>3, <3>2, <4>1
    <3>4. ASSUME e[k] < i PROVE FALSE
      <4>1. Rank(e[k], places) < Rank(i, places)
        BY <1>2, <2>1, <2>3, <3>4
      <4> QED
        BY <2>3, <3>2, <4>1
    <3> QED
      BY <3>1, <3>3, <3>4
  <2> QED
    BY <2>2, <2>4
<1>9. Picks(e, r, txs, keep)
  <2>1. e \in [1..size -> 1..Len(txs)]
    <3>1. \A k \in 1..size : e[k] \in 1..Len(txs)
      BY <1>5
    <3> QED
      BY <3>1
  <2>2. \A k \in 1..size : r[k] = txs[e[k]]
    <3> HIDE DEF e, size, places, r
    <3> QED
      BY <1>3
  <2> HIDE DEF e, size, places, r
  <2> QED
    BY <1>5, <1>6, <1>7, <1>8, <2>1, <2>2 DEF Picks
<1> QED
  <2> HIDE DEF e, size, places
  <2> QED
    BY <1>2, <1>6, <1>9

(* What is left of a sequence has the transactions of it that are in keep. *)
LEMMA OnlyRange ==
  ASSUME NEW T, NEW txs \in Seq(T), NEW keep
  PROVE  Range(Only(txs, keep)) = Range(txs) \cap keep
<1> DEFINE r == Only(txs, keep)
<1>1. r \in Seq(T)
  BY OnlyPlaces
<1>2. PICK e : Picks(e, r, txs, keep)
  BY OnlyPlaces
<1> HIDE DEF r
<1>3. DOMAIN r = 1..Len(r) /\ DOMAIN txs = 1..Len(txs)
  BY <1>1
<1>4. ASSUME NEW k \in 1..Len(r)
      PROVE  r[k] = txs[e[k]] /\ e[k] \in 1..Len(txs) /\ txs[e[k]] \in keep
  BY <1>2 DEF Picks
<1>5. ASSUME NEW i \in 1..Len(txs), txs[i] \in keep
      PROVE  \E k \in 1..Len(r) : r[k] = txs[i]
  BY <1>2, <1>4, <1>5 DEF Picks
<1>6. Range(r) = {r[k] : k \in 1..Len(r)} /\ Range(txs) = {txs[i] : i \in 1..Len(txs)}
  BY <1>3 DEF Range
<1>7. Range(r) = Range(txs) \cap keep
  <2>1. ASSUME NEW t \in Range(r) PROVE t \in Range(txs) \cap keep
    BY <1>4, <1>6
  <2>2. ASSUME NEW t \in Range(txs) \cap keep PROVE t \in Range(r)
    BY <1>5, <1>6
  <2> QED
    BY <2>1, <2>2
<1> QED
  BY <1>7 DEF r

\* F of the transactions of txs, the places of those in keep, and sums of F.
Terms(F, txs) == [i \in 1..Len(txs) |-> F[txs[i]]]
Places(txs, keep) == {i \in 1..Len(txs) : txs[i] \in keep}
Total(F, txs) == SumFunctionOnSet(Terms(F, txs), 1..Len(txs))
TotalAt(F, txs, places) == SumFunctionOnSet(Terms(F, txs), places)

(* A sum over what is left is the sum over the places that stay.           *)
LEMMA OnlySum ==
  ASSUME NEW T, NEW txs \in Seq(T), NEW keep, NEW F, \A t \in Range(txs) : F[t] \in Int
  PROVE  Total(F, Only(txs, keep)) = TotalAt(F, txs, Places(txs, keep))
<1> DEFINE places == Places(txs, keep)
           r == Only(txs, keep)
           dom == 1..Len(r)
           f == Terms(F, txs)
           g == Terms(F, r)
<1>1. r \in Seq(T) /\ DOMAIN r = dom /\ Len(r) \in Nat
  BY OnlyPlaces
<1>2. PICK e : Picks(e, r, txs, keep)
  BY OnlyPlaces
<1>3. IsFiniteSet(dom)
  <2>1. 1 \in Int /\ Len(r) \in Int
    BY <1>1
  <2> QED
    BY <2>1, FS_Interval
<1>4. ASSUME NEW i \in 1..Len(txs) PROVE f[i] \in Int /\ f[i] = F[txs[i]]
  <2>1. txs[i] \in Range(txs)
    BY DEF Range
  <2> QED
    BY <2>1 DEF Terms
<1>5. ASSUME NEW k \in dom
      PROVE  e[k] \in 1..Len(txs) /\ r[k] = txs[e[k]] /\ e[k] \in places
  BY <1>2 DEF Picks, Places
<1>6. ASSUME NEW k \in dom PROVE g[k] \in Int /\ g[k] = f[e[k]]
  <2>1. g[k] = F[r[k]]
    BY DEF Terms
  <2> HIDE DEF f, g, r, dom
  <2> QED
    BY <2>1, <1>4, <1>5
<1>7. ASSUME NEW j \in dom, NEW k \in dom, e[j] = e[k] PROVE j = k
  <2>1. j \in Int /\ k \in Int /\ e[j] \in Int /\ e[k] \in Int
    BY <1>1, <1>5
  <2>2. ~ (j < k) /\ ~ (k < j)
    BY <1>2, <1>7, <2>1 DEF Picks
  <2> QED
    BY <2>1, <2>2
<1>8. {e[k] : k \in dom} = places
  BY <1>2, <1>5 DEF Picks, Places
<1>9. SumFunctionOnSet(f, places) = SumFunctionOnSet(g, dom)
  <2> HIDE DEF f, g, dom, places
  <2> QED
    BY ONLY <1>3, <1>6, <1>7, <1>8, SumRenamed
<1> QED
  BY <1>9 DEF Total, TotalAt

(* A sum over a sequence is that over what is left and that over the       *)
(* places that go; a sum of naturals over what is left is no larger.       *)
LEMMA SplitSum ==
  ASSUME NEW T, NEW txs \in Seq(T), NEW keep, NEW F, \A t \in Range(txs) : F[t] \in Int
  PROVE  LET gone == (1..Len(txs)) \ Places(txs, keep)
         IN  /\ Total(F, txs) \in Int /\ Total(F, Only(txs, keep)) \in Int
             /\ TotalAt(F, txs, gone) \in Int
             /\ Total(F, txs) = Total(F, Only(txs, keep)) + TotalAt(F, txs, gone)
<1> DEFINE all == 1..Len(txs)
           kept == Places(txs, keep)
           gone == all \ kept
           f == Terms(F, txs)
<1>1. kept \subseteq all
  BY DEF Places
<1>2. IsFiniteSet(all)
  <2>1. 1 \in Int /\ Len(txs) \in Int
    OBVIOUS
  <2> QED
    BY <2>1, FS_Interval
<1>3. ASSUME NEW i \in all PROVE f[i] \in Int
  <2>1. txs[i] \in Range(txs) /\ f[i] = F[txs[i]]
    BY DEF Range, Terms
  <2> QED
    BY <2>1
<1>4. IsFiniteSet(kept) /\ IsFiniteSet(gone)
  BY <1>1, <1>2, FS_Subset
<1>5. kept \cap gone = {} /\ kept \cup gone = all
  BY <1>1
<1> HIDE DEF f, all, kept, gone
<1>6. SumFunctionOnSet(f, kept \cup gone) = SumFunctionOnSet(f, kept) + SumFunctionOnSet(f, gone)
  BY <1>3, <1>4, <1>5, SumUnion
<1>7. /\ SumFunctionOnSet(f, all) \in Int /\ SumFunctionOnSet(f, kept) \in Int
      /\ SumFunctionOnSet(f, gone) \in Int
  BY <1>2, <1>3, <1>4, <1>5, SumType
<1>8. Total(F, Only(txs, keep)) = SumFunctionOnSet(f, kept)
  BY OnlySum DEF TotalAt, f, kept
<1> QED
  BY <1>5, <1>6, <1>7, <1>8 DEF Total, TotalAt, f, all, gone, kept

(* The bytes of a sequence are a sum of naturals.                          *)
LEMMA BytesAre ==
  ASSUME NEW s \in Seq(Tx)
  PROVE  /\ PoolBytes(s) = Total(TxSize, s)
         /\ IsFiniteSet(1..Len(s))
         /\ \A i \in 1..Len(s) : Terms(TxSize, s)[i] = TxSize[s[i]] /\ TxSize[s[i]] \in Nat
<1>1. 1 \in Int /\ Len(s) \in Int
  OBVIOUS
<1>2. \A i \in 1..Len(s) : s[i] \in Tx
  OBVIOUS
<1>3. DOMAIN s = 1..Len(s)
  OBVIOUS
<1>4. PoolBytes(s) = Total(TxSize, s)
  BY <1>3 DEF PoolBytes, Total, Terms, SumFunction
<1>5. IsFiniteSet(1..Len(s))
  BY <1>1, FS_Interval
<1>6. \A i \in 1..Len(s) : TxSize[s[i]] \in Nat
  BY <1>2, TxAssumption
<1>7. \A i \in 1..Len(s) : Terms(TxSize, s)[i] = TxSize[s[i]]
  BY DEF Terms
<1> QED
  BY <1>4, <1>5, <1>6, <1>7

(* They are a number, which filtering does not raise.                      *)
LEMMA OnlyBytes ==
  ASSUME NEW txs \in Seq(Tx), NEW keep
  PROVE  PoolBytes(txs) \in Nat /\ PoolBytes(Only(txs, keep)) <= PoolBytes(txs)
<1>1. PoolBytes(txs) \in Nat
  BY BytesAre, SumType DEF Total
<1>2. Only(txs, keep) \in Seq(Tx)
  BY OnlyPlaces
<1>3. TotalAt(TxSize, txs, Places(txs, keep)) <= Total(TxSize, txs)
  <2>1. Places(txs, keep) \in SUBSET (1..Len(txs))
    BY DEF Places
  <2> QED
    BY BytesAre, <2>1, SumPart DEF Total, TotalAt
<1>4. Total(TxSize, Only(txs, keep)) = TotalAt(TxSize, txs, Places(txs, keep))
  <2>1. \A s \in Range(txs) : TxSize[s] \in Int
    BY TxAssumption DEF Range
  <2> QED
    BY <2>1, OnlySum
<1> QED
  BY BytesAre, <1>1, <1>2, <1>3, <1>4

(* One transaction more raises them by its size.                           *)
LEMMA AppendBytes ==
  ASSUME NEW txs \in Seq(Tx), NEW t \in Tx
  PROVE  PoolBytes(Append(txs, t)) = PoolBytes(txs) + TxSize[t]
<1> DEFINE s == Append(txs, t)
           n == Len(txs)
           f == Terms(TxSize, s)
           g == Terms(TxSize, txs)
<1>1. s \in Seq(Tx) /\ Len(s) = n + 1 /\ s[n + 1] = t /\ n \in Nat
  OBVIOUS
<1>2. \A i \in 1..n : s[i] = txs[i] /\ i \in 1..(n + 1)
  OBVIOUS
<1>3. \A i \in 1..n : g[i] \in Int /\ f[i] = g[i]
  <2> HIDE DEF s, n
  <2> QED
    BY <1>1, BytesAre, <1>2 DEF n
<1>4. f[n + 1] = TxSize[t] /\ f[n + 1] \in Int
  <2>1. n + 1 \in 1..(n + 1)
    BY <1>1
  <2> HIDE DEF s, n
  <2> QED
    BY <1>1, BytesAre, <2>1
<1> HIDE DEF f, g, n, s
<1>5. SumFunctionOnSet(f, 1..(n + 1)) = SumFunctionOnSet(g, 1..n) + f[n + 1]
  BY <1>1, <1>3, <1>4, SumAppend
<1> QED
  BY <1>1, BytesAre, <1>4, <1>5 DEF Total, f, g, n, s

-----------------------------------------------------------------------------
(* Families and filters. *)

(* The descendants of txs in the pool: txs, whatever spends an output of a *)
(* member, and nothing when txs is empty.                                  *)
LEMMA Descendants ==
  ASSUME NEW txs \in SUBSET Pool
  PROVE  LET gone == WithDescendants(txs)
         IN  /\ txs \subseteq gone /\ gone \subseteq Pool
             /\ \A t \in Pool : (\E o \in Spends(t) : o[1] \in gone) => t \in gone
             /\ txs = {} => gone = {}
<1> DEFINE closed(S) == \A t \in Pool : (\E o \in Spends(t) : o[1] \in S) => t \in S
           families == {S \in SUBSET Pool : txs \subseteq S /\ closed(S)}
           gone == WithDescendants(txs)
<1>1. gone = {t \in Pool : \A S \in families : t \in S}
  BY DEF WithDescendants
<1> HIDE DEF gone
<1>2. ASSUME NEW t \in Pool, NEW o \in Spends(t), o[1] \in gone
      PROVE  t \in gone
  BY <1>1, <1>2
<1>3. ASSUME txs = {} PROVE gone = {}
  <2>1. {} \in families
    BY <1>3
  <2> QED
    BY <1>1, <2>1
<1> QED
  BY <1>1, <1>2, <1>3 DEF gone

(* The places updateMempool keeps are closed: what is spent at one of them *)
(* is confirmed or made at an earlier one.                                 *)
LEMMA KeptPlaces ==
  ASSUME NEW U
  PROVE  LET kept == PlacesKept(U)
         IN  /\ kept \subseteq DOMAIN mempool
             /\ \A i \in kept : \A o \in Spends(mempool[i]) :
                  o \in Outs(U) \/ \E j \in kept : j < i /\ o \in Creates(mempool[j])
<1> DEFINE stays(i, K) ==
             \A o \in Spends(mempool[i]) :
               o \in Outs(U) \/ \E j \in K : j < i /\ o \in Creates(mempool[j])
           sets == {K \in SUBSET DOMAIN mempool : \A i \in K : stays(i, K)}
<1>1. PlacesKept(U) = UNION sets
  BY DEF PlacesKept
<1>2. ASSUME NEW i \in UNION sets, NEW o \in Spends(mempool[i])
      PROVE  o \in Outs(U) \/ \E j \in UNION sets : j < i /\ o \in Creates(mempool[j])
  <2>1. PICK K \in sets : i \in K
    OBVIOUS
  <2>2. o \in Outs(U) \/ \E j \in K : j < i /\ o \in Creates(mempool[j])
    BY <2>1
  <2>3. K \subseteq UNION sets
    OBVIOUS
  <2> QED
    BY <2>2, <2>3
<1> QED
  BY <1>1, <1>2

-----------------------------------------------------------------------------
(* Flattening, by a least counterexample among the lengths. *)

\* What FlattenSeq computes for the first n of s.
Flat(s, n) == CHOOSE g : g = [i \in 1..n |-> IF i = 1 THEN s[i] ELSE g[i-1] \o s[i]]
IsFlat(s, n, g) == g = [i \in 1..n |-> IF i = 1 THEN s[i] ELSE g[i-1] \o s[i]]

(* It exists for every length.                                             *)
LEMMA FlatExists ==
  ASSUME NEW s, NEW n \in Nat
  PROVE  IsFlat(s, n, Flat(s, n))
<1> DEFINE Bad == {m \in Nat : ~ \E g : IsFlat(s, m, g)}
<1>1. Bad = {}
  <2> SUFFICES ASSUME Bad # {} PROVE FALSE
    OBVIOUS
  <2>1. PICK m \in Bad : \A k \in Bad : m <= k
    <3>1. Bad \in SUBSET Nat
      OBVIOUS
    <3> HIDE DEF Bad
    <3> QED
      BY <3>1, LeastNumber
  <2>2. m \in Nat /\ ~ \E g : IsFlat(s, m, g)
    OBVIOUS
  <2>3. CASE m = 0
    <3> DEFINE g == [i \in 1..m |-> s[i]]
    <3>1. g = [i \in 1..m |-> IF i = 1 THEN s[i] ELSE g[i-1] \o s[i]]
      BY <2>3
    <3>2. IsFlat(s, m, g)
      BY <3>1 DEF IsFlat
    <3> QED
      BY <3>2, <2>2
  <2>4. CASE m # 0
    <3>1. m - 1 \in Nat /\ m - 1 \notin Bad
      <4>1. m - 1 \in Nat /\ ~ (m <= m - 1)
        BY <2>2, <2>4
      <4> HIDE DEF Bad
      <4> QED
        BY <4>1, <2>1
    <3>2. PICK g : IsFlat(s, m - 1, g)
      BY <3>1
    <3> DEFINE h == [i \in 1..m |-> IF i = 1 THEN s[i] ELSE g[i-1] \o s[i]]
    <3>3. ASSUME NEW i \in 1..(m - 1) PROVE h[i] = g[i]
      <4>1. i \in 1..m
        BY <2>2
      <4>2. g[i] = IF i = 1 THEN s[i] ELSE g[i-1] \o s[i]
        BY <3>2 DEF IsFlat
      <4> QED
        BY <4>1, <4>2
    <3>4. ASSUME NEW i \in 1..m, i # 1 PROVE h[i-1] = g[i-1]
      <4>1. i - 1 \in 1..(m - 1)
        BY <2>2, <3>4
      <4> HIDE DEF h
      <4> QED
        BY <3>3, <4>1
    <3>5. h = [i \in 1..m |-> IF i = 1 THEN s[i] ELSE h[i-1] \o s[i]]
      BY <3>4
    <3>6. IsFlat(s, m, h)
      <4> HIDE DEF h
      <4> QED
        BY <3>5 DEF IsFlat
    <3> QED
      BY <3>6, <2>2
  <2> QED
    BY <2>3, <2>4
<1>2. \E g : IsFlat(s, n, g)
  BY <1>1
<1> QED
  BY <1>2 DEF IsFlat, Flat

(* Flattening a sequence of sequences over T gives a sequence over T.      *)
LEMMA FlattenType ==
  ASSUME NEW T, NEW s \in Seq(Seq(T))
  PROVE  FlattenSeq(s) \in Seq(T)
<1> DEFINE n == Len(s)
           f == Flat(s, n)
           Bad == {i \in 1..n : f[i] \notin Seq(T)}
<1>1. n \in Nat /\ FlattenSeq(s) = IF n = 0 THEN s ELSE f[n]
  BY DEF FlattenSeq, Flat
<1>2. \A i \in 1..n : f[i] = IF i = 1 THEN s[i] ELSE f[i-1] \o s[i]
  <2>1. IsFlat(s, n, f)
    BY <1>1, FlatExists
  <2> HIDE DEF f, n
  <2> QED
    BY <2>1 DEF IsFlat
<1>3. Bad = {}
  <2> SUFFICES ASSUME Bad # {} PROVE FALSE
    OBVIOUS
  <2>1. PICK i \in Bad : \A k \in Bad : i <= k
    <3>1. Bad \in SUBSET Nat
      BY <1>1
    <3> HIDE DEF Bad
    <3> QED
      BY <3>1, LeastNumber
  <2>2. i \in 1..n /\ f[i] \notin Seq(T) /\ s[i] \in Seq(T)
    OBVIOUS
  <2>3. i # 1
    BY <1>2, <2>2
  <2>4. i - 1 \in 1..n /\ ~ (i <= i - 1)
    BY <1>1, <2>2, <2>3
  <2>5. f[i-1] \in Seq(T)
    <3> HIDE DEF f
    <3> QED
      BY <2>1, <2>4
  <2>6. f[i] = f[i-1] \o s[i]
    BY <1>2, <2>2, <2>3
  <2> HIDE DEF f, Bad
  <2> QED
    BY <2>2, <2>5, <2>6
<1> QED
  <2>1. CASE n = 0
    BY <1>1, <2>1
  <2>2. CASE n # 0
    <3>1. n \in 1..n
      BY <1>1, <2>2
    <3>2. f[n] \in Seq(T)
      <4> HIDE DEF f, n
      <4> QED
        BY <1>3, <3>1
    <3> QED
      BY <1>1, <2>2, <3>2
  <2> QED
    BY <2>1, <2>2

-----------------------------------------------------------------------------
(* The inductive invariant. *)

Ordinary == {t \in Tx : ~ IsCoinbaseTx(t)}
TxsOf(c) == UNION {Range(c[i].data) : i \in DOMAIN c}

\* What is admitted: its inputs were made by transactions, and its fee is at
\* least the relay fee.
Payer(t) ==
  /\ t \in Tx
  /\ \A o \in Spends(t) : \E p \in Tx : o \in Creates(p)
  /\ GetTxFee(t) >= MIN_RELAY_FEE_RATE * TxSize[t]

Clear(t) == \A p \in Pool : Spends(p) \cap Spends(t) = {}

\* The newcomer room is made for.
AddingInv ==
  adding # NoTx =>
    /\ phase = "idle"
    /\ Payer(adding) /\ Clear(adding) /\ adding \notin ChainTxs

(***************************************************************************)
(* Beside the properties themselves: whatever was admitted pays a fee, so  *)
(* it spends something and no two pending transactions are the same; and   *)
(* between two turns of the loop that makes room the newcomer still        *)
(* conflicts with nothing pending and is not mined.                        *)
(***************************************************************************)
PoolInv ==
  /\ NodeTypeOK
  /\ \A t \in Pool : Payer(t)
  /\ PoolSpendsOnce
  /\ PendingNotMined
  /\ RecordsExact
  /\ PoolWithinLimits
  /\ AddingInv

NodeInv == ChainInv /\ PoolInv

-----------------------------------------------------------------------------
(* Transactions that pay. *)

(* A transaction whose inputs were made has a fee that is a number, and 0  *)
(* if it has no inputs.                                                    *)
LEMMA FeeType ==
  ASSUME NEW t \in Tx, \A o \in Spends(t) : \E p \in Tx : o \in Creates(p)
  PROVE  GetTxFee(t) \in Int /\ (TxIns[t] = << >> => GetTxFee(t) = 0)
<1> DEFINE n == Len(TxIns[t])
           m == Len(TxOuts[t])
           f == [i \in 1..n |-> AmountOf(TxIns[t][i])]
           g == [i \in 1..m |-> TxOuts[t][i].amount]
<1>1. TxIns[t] \in Seq(Outpoint) /\ TxOuts[t] \in Seq([address : Address, amount : Nat])
  BY TxAssumption
<1>2. DOMAIN TxIns[t] = 1..n /\ DOMAIN TxOuts[t] = 1..m /\ n \in Int /\ m \in Int /\ 1 \in Int
  BY <1>1
<1>3. IsFiniteSet(1..n) /\ IsFiniteSet(1..m)
  <2> HIDE DEF n, m
  <2> QED
    BY <1>2, FS_Interval
<1>4. ASSUME NEW i \in 1..n PROVE f[i] \in Int
  <2>1. TxIns[t][i] \in Spends(t)
    BY <1>2 DEF Spends, Range
  <2>2. PICK p \in Tx : TxIns[t][i] \in Creates(p)
    BY <2>1
  <2>3. AmountOf(TxIns[t][i]) \in Nat
    BY <2>2, AmountType
  <2> QED
    BY <2>3
<1>5. ASSUME NEW i \in 1..m PROVE g[i] \in Int
  <2>1. TxOuts[t][i].amount \in Nat
    BY <1>2, OutputType
  <2> QED
    BY <2>1
<1>6. GetTxFee(t) = SumFunctionOnSet(f, 1..n) - SumFunctionOnSet(g, 1..m)
  BY <1>2 DEF GetTxFee, SumFunction
<1>7. SumFunctionOnSet(f, 1..n) \in Int /\ SumFunctionOnSet(g, 1..m) \in Int
  <2> HIDE DEF f, g, n, m
  <2> QED
    BY <1>3, <1>4, <1>5, SumType
<1>8. ASSUME TxIns[t] = << >> PROVE GetTxFee(t) = 0
  <2>1. TxOuts[t] = << >>
    BY <1>8, NothingFromNothing
  <2>2. 1..n = {} /\ 1..m = {}
    BY <1>8, <2>1
  <2>3. SumFunctionOnSet(f, {}) = 0 /\ SumFunctionOnSet(g, {}) = 0
    <3> HIDE DEF f, g
    <3> QED
      BY SumStep, FS_EmptySet
  <2> HIDE DEF f, g, n, m
  <2>4. SumFunctionOnSet(f, 1..n) = 0 /\ SumFunctionOnSet(g, 1..m) = 0
    BY <2>2, <2>3, Zenon
  <2> QED
    BY <1>6, <2>4
<1> QED
  BY <1>6, <1>7, <1>8

(* The product of positive numbers is positive.                            *)
LEMMA Positive ==
  ASSUME NEW a \in Nat \ {0}, NEW b \in Nat \ {0}
  PROVE  a * b \in Nat /\ a * b >= 1
<1>1. a * b = a * (b - 1) + a /\ a * (b - 1) >= 0
  OBVIOUS
<1> QED
  BY <1>1

(* What pays a fee spends something, and its inputs are no coinbase's.     *)
LEMMA PayerSpends ==
  ASSUME NEW t, Payer(t)
  PROVE  /\ t \in Ordinary /\ Spends(t) # {}
         /\ \A o \in Spends(t) : o[1] \in Tx
         /\ GetTxFee(t) \in Nat
<1>1. t \in Tx /\ \A o \in Spends(t) : o[1] \in Tx
  BY CreatesType DEF Payer
<1>2. TxIns[t] \in Seq(Outpoint) /\ TxSize[t] \in Nat \ {0} /\ NoTx \notin Tx
  BY <1>1, TxAssumption
<1>3. MIN_RELAY_FEE_RATE * TxSize[t] \in Nat /\ MIN_RELAY_FEE_RATE * TxSize[t] >= 1
  BY <1>2, Positive, PoolAssumption
<1>4. GetTxFee(t) \in Int /\ (TxIns[t] = << >> => GetTxFee(t) = 0)
  BY <1>1, FeeType DEF Payer
<1>5. GetTxFee(t) >= MIN_RELAY_FEE_RATE * TxSize[t]
  BY DEF Payer
<1>6. GetTxFee(t) \in Nat /\ GetTxFee(t) # 0
  BY <1>3, <1>4, <1>5
<1>7. TxIns[t] # << >>
  BY <1>4, <1>6
<1>8. 1 \in DOMAIN TxIns[t] /\ TxIns[t][1] \in Spends(t)
  BY <1>2, <1>7 DEF Spends, Range
<1>9. ~ IsCoinbaseTx(t)
  BY <1>1, <1>2, <1>8 DEF IsCoinbaseTx
<1> QED
  BY <1>1, <1>6, <1>8, <1>9 DEF Ordinary

(* No transaction is pending twice.                                        *)
LEMMA PoolInjective ==
  ASSUME PoolSpendsOnce, \A t \in Pool : Payer(t),
         NEW i \in DOMAIN mempool, NEW j \in DOMAIN mempool, mempool[i] = mempool[j]
  PROVE  i = j
<1>1. Spends(mempool[i]) # {}
  BY PayerSpends DEF Pool, Range
<1> QED
  BY <1>1 DEF PoolSpendsOnce

-----------------------------------------------------------------------------
(* What is mined. *)

(* What pays a fee spends outputs, and pays for what it makes.             *)
LEMMA PayerBacked ==
  ASSUME NEW t, Payer(t)
  PROVE  Backed(t)
<1>1. t \in Tx /\ GetTxFee(t) \in Nat
  BY PayerSpends DEF Payer
<1>2. \A o \in Spends(t) : o[1] \in Tx /\ o \in Creates(o[1])
  BY CreatesType DEF Payer
<1> QED
  BY <1>1, <1>2 DEF Backed

(* An input of a paying transaction that is mined is not unspent any more, *)
(* and what made it is mined.  (A first transaction pays nothing, and may  *)
(* name what is not there.)                                                *)
LEMMA MinedInputs ==
  ASSUME NEW c \in Seq(Block), Sound(c), NEW t \in TxsOf(c), Payer(t), NEW o \in Spends(t)
  PROVE  o \notin Outs(Unspent(c)) /\ o[1] \in TxsOf(c)
<1>1. PICK i \in DOMAIN c : t \in Range(c[i].data)
  BY DEF TxsOf
<1>2. i \in 1..Len(c) /\ DOMAIN c = 1..Len(c) /\ \A k \in 1..Len(c) : c[k].data \in Seq(Tx)
  BY BlockFields
<1>3. t \in Tx /\ Backed(t)
  BY PayerBacked DEF Payer
<1>4. Has(c, t)
  <2>1. PICK m \in DOMAIN c[i].data : c[i].data[m] = t
    BY <1>1 DEF Range
  <2>2. m \in 1..Len(c[i].data)
    BY <1>2
  <2> QED
    BY <1>2, <2>1, <2>2 DEF Has
<1>5. o \notin Outs(Unspent(c))
  BY <1>3, <1>4, SpentAgain DEF Outs
<1>6. PICK n \in 1..Len(c) : \E h \in 1..n : o \in CreatedBy(c[h].data)
  BY <1>3, <1>4, FoundAgain
<1>7. PICK h \in 1..n : o \in CreatedBy(c[h].data)
  BY <1>6
<1>8. h \in 1..Len(c)
  BY <1>2
<1>9. PICK k \in 1..Len(c[h].data) : c[h].data[k] = o[1]
  BY <1>2, <1>7, <1>8, Maker
<1>10. o[1] \in Range(c[h].data)
  BY <1>2, <1>8, <1>9 DEF Range
<1> QED
  BY <1>2, <1>5, <1>8, <1>10 DEF TxsOf

(* An unspent output was made by a transaction.                            *)
LEMMA UnspentMade ==
  ASSUME NEW c \in Seq(Block), NEW o \in Outs(Unspent(c))
  PROVE  \E p \in Tx : o \in Creates(p)
<1>1. PICK u \in Unspent(c) : u.out = o
  BY DEF Outs
<1>2. PICK i \in 1..Len(c) : o \in CreatedBy(c[i].data)
  BY <1>1, UnspentIsMade
<1>3. c[i].data \in Seq(Tx)
  BY BlockFields
<1> QED
  BY <1>2, <1>3, Maker

-----------------------------------------------------------------------------
(* Steps of the pool. *)

(* Filtering the pool leaves a part of it, that keeps within the limits    *)
(* and spends nothing twice.                                               *)
LEMMA Filtered ==
  ASSUME mempool \in Seq(Ordinary), PoolSpendsOnce, PoolWithinLimits,
         NEW keep, mempool' = Only(mempool, keep)
  PROVE  /\ mempool' \in Seq(Ordinary)
         /\ Pool' = Pool \cap keep
         /\ PoolSpendsOnce' /\ PoolWithinLimits'
<1>1. mempool' \in Seq(Ordinary) /\ Len(mempool') <= Len(mempool)
  BY OnlyPlaces
<1>2. Pool' = Pool \cap keep
  BY OnlyRange DEF Pool
<1>3. mempool \in Seq(Tx) /\ mempool' \in Seq(Tx)
  BY <1>1 DEF Ordinary
<1>4. PoolWithinLimits'
  <2>1. PoolBytes(mempool) \in Nat /\ PoolBytes(mempool') <= PoolBytes(mempool)
    BY <1>3, OnlyBytes
  <2>2. PoolBytes(mempool') \in Nat
    BY <1>3, OnlyBytes
  <2>3. Len(mempool) \in Nat /\ Len(mempool') \in Nat
    BY <1>3
  <2> QED
    BY <1>1, <2>1, <2>2, <2>3, PoolAssumption DEF PoolWithinLimits
<1>5. PoolSpendsOnce'
  <2>1. PICK e : Picks(e, mempool', mempool, keep)
    BY OnlyPlaces
  <2>2. DOMAIN mempool = 1..Len(mempool) /\ DOMAIN mempool' = 1..Len(mempool')
    BY <1>3
  <2>3. ASSUME NEW i \in DOMAIN mempool', NEW j \in DOMAIN mempool', i # j
        PROVE  Spends(mempool'[i]) \cap Spends(mempool'[j]) = {}
    <3>1. i \in Int /\ j \in Int /\ (i < j \/ j < i)
      BY <2>2, <2>3, <1>3
    <3>2. /\ e[i] \in DOMAIN mempool /\ e[j] \in DOMAIN mempool
          /\ mempool'[i] = mempool[e[i]] /\ mempool'[j] = mempool[e[j]]
      BY <2>1, <2>2 DEF Picks
    <3>3. e[i] \in Int /\ e[j] \in Int
      BY <2>2, <3>2
    <3>4. e[i] < e[j] \/ e[j] < e[i]
      BY <2>1, <2>2, <3>1 DEF Picks
    <3>5. e[i] # e[j]
      BY <3>3, <3>4
    <3> QED
      BY <3>2, <3>5 DEF PoolSpendsOnce
  <2> QED
    BY <2>3 DEF PoolSpendsOnce
<1> QED
  BY <1>1, <1>2, <1>4, <1>5

(* What addToMempool lets in pays, conflicts with nothing that stays, is   *)
(* not mined, and spends what is confirmed or made by what stays.          *)
LEMMA Admission ==
  ASSUME ChainInv, PoolInv, NEW t \in Tx, NEW h, NEW m, Admissible(t, uTxOuts, h, m)
  PROVE  LET gone == WithDescendants(ConflictingTxs(t))
         IN  /\ Payer(t) /\ t \notin ChainTxs
             /\ \A p \in Pool \ gone : Spends(p) \cap Spends(t) = {}
             /\ \A o \in Spends(t) :
                  o \in Outs(uTxOuts) \/ \E p \in Pool \ gone : o \in Creates(p)
<1> DEFINE gone == WithDescendants(ConflictingTxs(t))
           left == Only(mempool, Pool \ gone)
<1>1. mempool \in Seq(Tx)
  BY DEF PoolInv, NodeTypeOK
<1>2. left \in Seq(Tx) /\ Range(left) = Pool \ gone
  BY <1>1, OnlyPlaces, OnlyRange DEF Pool
<1>3. /\ \A o \in Spends(t) : ValidateTxIn(o, SpendableWith(left, uTxOuts), h)
      /\ GetTxFee(t) >= MIN_RELAY_FEE_RATE * TxSize[t]
  BY DEF Admissible, ValidateTx
<1> HIDE DEF left, gone
<1>4. ASSUME NEW o \in Spends(t)
      PROVE  o \in Outs(uTxOuts) \/ \E p \in Pool \ gone : p \in Tx /\ o \in Creates(p)
  <2>1. PICK u \in SpendableWith(left, uTxOuts) : u.out = o
    BY <1>3 DEF ValidateTxIn
  <2>2. u \in uTxOuts \/ u \in New(CreatedBy(left), NoHeight)
    BY <2>1 DEF SpendableWith, UpdateUTxOuts
  <2>3. CASE u \in uTxOuts
    BY <2>1, <2>3 DEF Outs
  <2>4. CASE u \in New(CreatedBy(left), NoHeight)
    <3>1. o \in CreatedBy(left)
      BY <2>1, <2>4 DEF New
    <3>2. PICK k \in DOMAIN left : o \in Creates(left[k])
      BY <3>1 DEF CreatedBy
    <3>3. left[k] \in Pool \ gone /\ left[k] \in Tx
      BY <1>2, <3>2 DEF Range
    <3> QED
      BY <3>2, <3>3
  <2> QED
    BY <2>2, <2>3, <2>4
<1>5. uTxOuts = Unspent(blockchain) /\ blockchain \in Seq(Block) /\ Sound(blockchain)
  BY DEF ChainInv, StoreInv, UTxOutsAreUnspent, TypeOK
<1>6. Payer(t)
  BY <1>3, <1>4, <1>5, UnspentMade DEF Payer
<1>7. t \notin ChainTxs
  <2> SUFFICES ASSUME t \in ChainTxs PROVE FALSE
    OBVIOUS
  <2>1. PICK o \in Spends(t) : o[1] \in Tx
    BY <1>6, PayerSpends
  <2>2. t \in TxsOf(blockchain)
    BY DEF ChainTxs, TxsOf
  <2>3. o \notin Outs(uTxOuts) /\ o[1] \in TxsOf(blockchain)
    BY <1>5, <1>6, <2>1, <2>2, MinedInputs
  <2>4. PICK p \in Pool : p \in Tx /\ o \in Creates(p)
    BY <1>4, <2>3
  <2>5. p \in ChainTxs
    BY <2>3, <2>4, CreatesType DEF ChainTxs, TxsOf
  <2> QED
    BY <2>5 DEF PoolInv, PendingNotMined
<1>8. ConflictingTxs(t) \subseteq gone
  BY Descendants DEF ConflictingTxs, gone
<1>9. ASSUME NEW p \in Pool \ gone PROVE Spends(p) \cap Spends(t) = {}
  BY <1>8 DEF ConflictingTxs
<1> QED
  BY <1>4, <1>6, <1>7, <1>9 DEF gone

(* A pool in order, over the unspent outputs of a chain, has nothing of    *)
(* that chain: the first such would spend what is gone, or an output of    *)
(* one before it.                                                          *)
LEMMA NoneMined ==
  ASSUME NEW c \in Seq(Block), Sound(c),
         NEW pool \in Seq(Ordinary), \A t \in Range(pool) : Payer(t),
         \A i \in DOMAIN pool : \A o \in Spends(pool[i]) :
           o \in Outs(Unspent(c)) \/ \E j \in 1..(i - 1) : o \in Creates(pool[j])
  PROVE  Range(pool) \cap TxsOf(c) = {}
<1> DEFINE Bad == {i \in DOMAIN pool : pool[i] \in TxsOf(c)}
<1>1. DOMAIN pool = 1..Len(pool) /\ Len(pool) \in Nat
  OBVIOUS
<1>2. Bad = {}
  <2> SUFFICES ASSUME Bad # {} PROVE FALSE
    OBVIOUS
  <2>1. PICK i \in Bad : \A k \in Bad : i <= k
    <3>1. Bad \in SUBSET Nat
      BY <1>1
    <3> HIDE DEF Bad
    <3> QED
      BY <3>1, LeastNumber
  <2>2. i \in DOMAIN pool /\ pool[i] \in TxsOf(c) /\ pool[i] \in Range(pool)
    BY DEF Range
  <2>3. PICK o \in Spends(pool[i]) : o[1] \in Tx
    BY <2>2, PayerSpends
  <2>4. o \notin Outs(Unspent(c)) /\ o[1] \in TxsOf(c)
    BY <2>2, <2>3, MinedInputs
  <2>5. PICK j \in 1..(i - 1) : o \in Creates(pool[j])
    BY <2>2, <2>4
  <2>6. j \in DOMAIN pool /\ ~ (i <= j)
    BY <1>1, <2>2
  <2>7. pool[j] = o[1]
    BY <2>5, <2>6, CreatesType DEF Ordinary
  <2>8. j \in Bad
    BY <2>4, <2>6, <2>7
  <2> HIDE DEF Bad
  <2> QED
    BY <2>1, <2>6, <2>8
<1> QED
  BY <1>2 DEF Range

(* updateMempool leaves a pool that is in order over the new chain, with   *)
(* exact records, and tells the listeners of a change.                     *)
LEMMA Updated ==
  ASSUME ChainInv', PoolInv, adding = NoTx, UNCHANGED adding,
         UpdateMempool(uTxOuts'), queue' \in Seq(Ordinary)
  PROVE  PoolInv' /\ ParentsAhead' /\ (announced = mempool => announced' = mempool')
<1> DEFINE kept == PlacesKept(uTxOuts')
           keep == {mempool[i] : i \in kept}
<1>1. /\ mempool \in Seq(Ordinary) /\ announced \in Seq(Ordinary) /\ meta = Pool
      /\ meta \in SUBSET Ordinary
      /\ PoolSpendsOnce /\ PoolWithinLimits /\ \A t \in Pool : Payer(t)
  BY DEF PoolInv, NodeTypeOK, RecordsExact, Ordinary
<1>2. mempool' = Only(mempool, keep)
  BY DEF UpdateMempool
<1>3. /\ kept \subseteq DOMAIN mempool
      /\ \A i \in kept : \A o \in Spends(mempool[i]) :
           o \in Outs(uTxOuts') \/ \E j \in kept : j < i /\ o \in Creates(mempool[j])
  BY KeptPlaces
<1> HIDE DEF keep, kept
<1>4. mempool' \in Seq(Ordinary) /\ Pool' = Pool \cap keep /\ PoolSpendsOnce' /\ PoolWithinLimits'
  BY <1>1, <1>2, Filtered
<1>5. PICK e : Picks(e, mempool', mempool, keep)
  BY <1>1, <1>2, OnlyPlaces
<1>6. DOMAIN mempool = 1..Len(mempool) /\ DOMAIN mempool' = 1..Len(mempool')
  BY <1>1, <1>4
<1>7. ASSUME NEW k \in DOMAIN mempool'
      PROVE  e[k] \in kept /\ e[k] \in DOMAIN mempool /\ mempool'[k] = mempool[e[k]]
  <2>1. e[k] \in DOMAIN mempool /\ mempool'[k] = mempool[e[k]] /\ mempool[e[k]] \in keep
    BY <1>5, <1>6 DEF Picks
  <2>2. PICK i \in kept : mempool[i] = mempool[e[k]]
    BY <2>1 DEF keep
  <2>3. i = e[k]
    BY <1>1, <1>3, <2>1, <2>2, PoolInjective
  <2> QED
    BY <2>1, <2>3
<1>8. ASSUME NEW i \in DOMAIN mempool', NEW o \in Spends(mempool'[i]), o \notin Outs(uTxOuts')
      PROVE  \E j \in 1..(i - 1) : o \in Creates(mempool'[j])
  <2>1. o \in Spends(mempool[e[i]]) /\ e[i] \in kept
    BY <1>7
  <2>2. PICK j \in kept : j < e[i] /\ o \in Creates(mempool[j])
    BY <1>3, <1>8, <2>1
  <2>3. j \in 1..Len(mempool) /\ mempool[j] \in keep
    BY <1>3, <1>6 DEF keep
  <2>4. PICK k \in 1..Len(mempool') : e[k] = j
    BY <1>5, <2>3 DEF Picks
  <2>5. k \in DOMAIN mempool' /\ k \in Int /\ i \in Int /\ e[k] \in Int /\ e[i] \in Int
    BY <1>4, <1>6, <1>7
  <2>6. ~ (i < k) /\ i # k
    <3>1. ~ (e[i] < e[k]) /\ e[i] # e[k]
      BY <2>2, <2>4, <2>5
    <3> QED
      BY <1>5, <1>6, <2>5, <3>1 DEF Picks
  <2>7. k \in 1..(i - 1)
    BY <1>6, <2>4, <2>5, <2>6
  <2> QED
    BY <1>7, <2>2, <2>4, <2>5, <2>7
<1>9. ParentsAhead'
  BY <1>8 DEF ParentsAhead
<1>10. \A t \in Pool' : Payer(t)
  BY <1>1, <1>4
<1>11. PendingNotMined'
  <2>1. blockchain' \in Seq(Block) /\ Sound(blockchain') /\ uTxOuts' = Unspent(blockchain')
    BY DEF ChainInv, StoreInv, UTxOutsAreUnspent, TypeOK
  <2>2. Range(mempool') \cap TxsOf(blockchain') = {}
    <3>1. \A t \in Range(mempool') : Payer(t)
      BY <1>10 DEF Pool
    <3>2. \A i \in DOMAIN mempool' : \A o \in Spends(mempool'[i]) :
            o \in Outs(Unspent(blockchain')) \/ \E j \in 1..(i - 1) : o \in Creates(mempool'[j])
      BY <1>8, <2>1
    <3> QED
      BY <1>4, <2>1, <3>1, <3>2, NoneMined
  <2> QED
    BY <2>2 DEF PendingNotMined, Pool, ChainTxs, TxsOf
<1>12. /\ meta' = Pool' /\ announced' \in Seq(Ordinary)
       /\ (announced = mempool => announced' = mempool')
  <2>1. CASE mempool' # mempool
    <3>1. meta' = meta \cap Range(mempool') /\ announced' = mempool'
      BY <2>1 DEF UpdateMempool
    <3> QED
      BY <1>1, <1>4, <3>1 DEF Pool
  <2>2. CASE mempool' = mempool
    <3>1. meta' = meta /\ announced' = announced
      BY <2>2 DEF UpdateMempool
    <3> QED
      BY <1>1, <2>2, <3>1 DEF Pool
  <2> QED
    BY <2>1, <2>2
<1>13. Pool' \in SUBSET Ordinary
  BY <1>1, <1>4 DEF Pool, Range
<1>14. NodeTypeOK'
  BY <1>4, <1>12, <1>13 DEF NodeTypeOK, Ordinary
<1>15. AddingInv' /\ RecordsExact'
  BY <1>12 DEF AddingInv, RecordsExact
<1> QED
  BY <1>4, <1>9, <1>10, <1>11, <1>12, <1>14, <1>15 DEF PoolInv

\* What the newcomer spends is confirmed or made by the pool.
Supplied(t) == \A o \in Spends(t) : o \in Outs(uTxOuts) \/ \E p \in Pool : o \in Creates(p)

SupplyInv == ParentsAhead /\ (adding # NoTx => Supplied(adding))

(* Taking a family with all its descendants out leaves parents ahead.      *)
LEMMA FilteredAhead ==
  ASSUME mempool \in Seq(Ordinary), ParentsAhead,
         NEW gone, \A t \in Pool : (\E o \in Spends(t) : o[1] \in gone) => t \in gone,
         mempool' = Only(mempool, Pool \ gone), UNCHANGED uTxOuts
  PROVE  ParentsAhead'
<1>1. PICK e : Picks(e, mempool', mempool, Pool \ gone)
  BY OnlyPlaces
<1>2. mempool' \in Seq(Ordinary)
  BY OnlyPlaces
<1>3. DOMAIN mempool = 1..Len(mempool) /\ DOMAIN mempool' = 1..Len(mempool')
  BY <1>2
<1>4. ASSUME NEW i \in DOMAIN mempool', NEW o \in Spends(mempool'[i]), o \notin Outs(uTxOuts)
      PROVE  \E j \in 1..(i - 1) : o \in Creates(mempool'[j])
  <2>1. /\ e[i] \in DOMAIN mempool /\ mempool'[i] = mempool[e[i]]
        /\ mempool[e[i]] \in Pool \ gone
    BY <1>1, <1>3 DEF Picks
  <2>2. PICK j \in 1..(e[i] - 1) : o \in Creates(mempool[j])
    BY <1>4, <2>1 DEF ParentsAhead
  <2>3. j \in 1..Len(mempool) /\ j < e[i]
    BY <1>3, <2>1
  <2>4. mempool[j] \in Tx /\ mempool[j] \in Pool
    BY <1>3, <2>3 DEF Ordinary, Pool, Range
  <2>5. o[1] = mempool[j]
    BY <2>2, <2>4, CreatesType
  <2>6. mempool[j] \notin gone
    BY <1>4, <2>1, <2>5
  <2>7. PICK k \in 1..Len(mempool') : e[k] = j
    BY <1>1, <2>3, <2>4, <2>6 DEF Picks
  <2>8. mempool'[k] = mempool[j]
    BY <1>1, <2>7 DEF Picks
  <2>9. k \in Int /\ i \in Int /\ e[k] \in Int /\ e[i] \in Int
    BY <1>2, <1>3, <2>1, <2>3, <2>7
  <2>10. ~ (i < k) /\ i # k
    <3>1. ~ (e[i] < e[k]) /\ e[i] # e[k]
      BY <2>3, <2>7, <2>9
    <3> QED
      BY <1>1, <1>3, <2>9, <3>1 DEF Picks
  <2>11. k \in 1..(i - 1)
    BY <2>7, <2>9, <2>10
  <2> QED
    BY <2>2, <2>8, <2>11
<1> QED
  BY <1>4 DEF ParentsAhead

(* The chain and the pool before room is made: the conflicts are out, with *)
(* their descendants and their records.                                    *)
LEMMA BeginInv ==
  ASSUME NodeInv, phase = "idle", NEW t \in Tx, NEW h, NEW m, BeginAdd(t, uTxOuts, h, m),
         UNCHANGED vars, queue' \in Seq(Ordinary)
  PROVE  PoolInv' /\ (ParentsAhead => SupplyInv')
<1> DEFINE gone == WithDescendants(ConflictingTxs(t))
<1>1. /\ mempool \in Seq(Ordinary) /\ announced \in Seq(Ordinary) /\ meta = Pool
      /\ PoolSpendsOnce /\ PoolWithinLimits /\ \A p \in Pool : Payer(p)
      /\ PendingNotMined /\ ChainInv /\ PoolInv
  BY DEF NodeInv, PoolInv, NodeTypeOK, RecordsExact, Ordinary
<1>2. /\ Payer(t) /\ t \notin ChainTxs
      /\ \A p \in Pool \ gone : Spends(p) \cap Spends(t) = {}
      /\ \A o \in Spends(t) : o \in Outs(uTxOuts) \/ \E p \in Pool \ gone : o \in Creates(p)
  BY <1>1, Admission DEF BeginAdd
<1>3. /\ \A p \in Pool : (\E o \in Spends(p) : o[1] \in gone) => p \in gone
      /\ gone \subseteq Pool
  BY Descendants DEF ConflictingTxs
<1>4. /\ mempool' = Only(mempool, Pool \ gone) /\ meta' = meta \ gone
      /\ adding' = t /\ announced' = announced
  BY DEF BeginAdd
<1> HIDE DEF gone
<1>5. mempool' \in Seq(Ordinary) /\ Pool' = Pool \ gone /\ PoolSpendsOnce' /\ PoolWithinLimits'
  BY <1>1, <1>4, Filtered
<1>6. UNCHANGED <<blockchain, uTxOuts, phase>>
  BY DEF vars, store, locals
<1>7. meta' = Pool' /\ Pool' \subseteq Pool
  BY <1>1, <1>4, <1>5
<1>8. Pool' \in SUBSET Ordinary
  BY <1>5 DEF Pool, Range
<1>9. NodeTypeOK'
  BY <1>1, <1>2, <1>4, <1>5, <1>7, <1>8, PayerSpends DEF NodeTypeOK, Ordinary
<1>10. PendingNotMined'
  BY <1>1, <1>6, <1>7 DEF PendingNotMined, ChainTxs
<1>11. AddingInv'
  BY <1>2, <1>4, <1>5, <1>6 DEF AddingInv, Clear, ChainTxs
<1>12. PoolInv'
  BY <1>1, <1>5, <1>7, <1>9, <1>10, <1>11 DEF PoolInv, RecordsExact
<1>13. ASSUME ParentsAhead PROVE SupplyInv'
  <2>1. ParentsAhead'
    BY <1>1, <1>3, <1>4, <1>6, <1>13, FilteredAhead
  <2>2. Supplied(t)'
    BY <1>2, <1>5, <1>6 DEF Supplied
  <2>3. Supplied(adding)'
    BY <1>4, <2>2 DEF Supplied
  <2> QED
    BY <2>1, <2>3 DEF SupplyInv
<1> QED
  BY <1>12, <1>13

\* An eviction takes no transaction the newcomer spends from.
SparesParents == EvictWorst => Parents(adding, Pool) \subseteq Pool'

(* One turn of the loop that makes room.                                   *)
LEMMA EvictInv ==
  ASSUME NodeInv, EvictWorst, UNCHANGED <<vars, queue>>
  PROVE  PoolInv' /\ (SupplyInv /\ SparesParents => SupplyInv')
<1>1. /\ mempool \in Seq(Ordinary) /\ announced \in Seq(Ordinary) /\ meta = Pool
      /\ PoolSpendsOnce /\ PoolWithinLimits /\ \A p \in Pool : Payer(p)
      /\ PendingNotMined /\ AddingInv /\ NodeTypeOK
  BY DEF NodeInv, PoolInv, NodeTypeOK, RecordsExact, Ordinary
<1>2. PICK w \in Pool :
        /\ mempool' = Only(mempool, Pool \ WithDescendants({w}))
        /\ meta' = meta \ WithDescendants({w})
  BY DEF EvictWorst
<1> DEFINE gone == WithDescendants({w})
<1>3. adding # NoTx /\ UNCHANGED <<announced, adding>>
  BY DEF EvictWorst
<1>4. /\ \A p \in Pool : (\E o \in Spends(p) : o[1] \in gone) => p \in gone
      /\ gone \subseteq Pool
  <2>1. {w} \in SUBSET Pool
    OBVIOUS
  <2> QED
    BY <2>1, Descendants
<1>5. mempool' = Only(mempool, Pool \ gone) /\ meta' = meta \ gone
  BY <1>2
<1> HIDE DEF gone
<1>6. mempool' \in Seq(Ordinary) /\ Pool' = Pool \ gone /\ PoolSpendsOnce' /\ PoolWithinLimits'
  BY <1>1, <1>5, Filtered
<1>7. UNCHANGED <<blockchain, uTxOuts, phase, queue>>
  BY DEF vars, store, locals
<1>8. meta' = Pool' /\ Pool' \subseteq Pool
  BY <1>1, <1>5, <1>6
<1>9. Pool' \in SUBSET Ordinary
  BY <1>6 DEF Pool, Range
<1>10. NodeTypeOK'
  BY <1>1, <1>3, <1>6, <1>7, <1>8, <1>9 DEF NodeTypeOK, Ordinary
<1>11. PendingNotMined'
  BY <1>1, <1>7, <1>8 DEF PendingNotMined, ChainTxs
<1>12. AddingInv'
  BY <1>1, <1>3, <1>7, <1>8 DEF AddingInv, Clear, ChainTxs
<1>13. PoolInv'
  BY <1>1, <1>6, <1>8, <1>10, <1>11, <1>12 DEF PoolInv, RecordsExact
<1>14. ASSUME SupplyInv, SparesParents PROVE SupplyInv'
  <2>1. ParentsAhead'
    BY <1>1, <1>4, <1>5, <1>7, <1>14, FilteredAhead DEF SupplyInv
  <2>2. Parents(adding, Pool) \subseteq Pool'
    BY <1>14 DEF SparesParents
  <2>3. Supplied(adding)
    BY <1>3, <1>14 DEF SupplyInv
  <2>4. Supplied(adding)'
    <3>1. ASSUME NEW o \in Spends(adding), NEW p \in Pool, o \in Creates(p) PROVE p \in Pool'
      BY <2>2, <3>1 DEF Parents
    <3> QED
      BY <1>3, <1>7, <2>3, <3>1 DEF Supplied
  <2> QED
    BY <2>1, <2>4 DEF SupplyInv
<1> QED
  BY <1>13, <1>14

(* The newcomer comes in at the end.                                       *)
LEMMA AdmitInv ==
  ASSUME NodeInv, Admit, UNCHANGED <<vars, queue>>
  PROVE  PoolInv' /\ (SupplyInv => SupplyInv')
<1> DEFINE n == Len(mempool)
<1>1. /\ mempool \in Seq(Ordinary) /\ meta = Pool /\ meta \in SUBSET Ordinary
      /\ PoolSpendsOnce /\ PoolWithinLimits /\ \A p \in Pool : Payer(p)
      /\ PendingNotMined /\ AddingInv /\ NodeTypeOK
  BY DEF NodeInv, PoolInv, NodeTypeOK, RecordsExact, Ordinary
<1>2. /\ adding # NoTx /\ HasRoom(adding) /\ mempool' = Append(mempool, adding)
      /\ meta' = meta \cup {adding} /\ announced' = mempool' /\ adding' = NoTx
  BY DEF Admit
<1>3. UNCHANGED <<blockchain, uTxOuts, phase, queue>>
  BY DEF vars, store, locals
<1>4. Payer(adding) /\ Clear(adding) /\ adding \notin ChainTxs /\ adding \in Ordinary
  BY <1>1, <1>2, PayerSpends DEF AddingInv
<1>5. /\ mempool' \in Seq(Ordinary) /\ Len(mempool') = n + 1 /\ n \in Nat
      /\ mempool'[n + 1] = adding /\ \A i \in 1..n : mempool'[i] = mempool[i]
      /\ DOMAIN mempool = 1..n /\ DOMAIN mempool' = 1..(n + 1)
  BY <1>1, <1>2, <1>4
<1>6. mempool \in Seq(Tx) /\ adding \in Tx
  BY <1>1, <1>4 DEF Ordinary
<1> HIDE DEF n
<1>7. Pool' = Pool \cup {adding}
  <2>1. Range(mempool') = {mempool'[i] : i \in 1..(n + 1)} /\ Range(mempool) = {mempool[i] : i \in 1..n}
    BY <1>5 DEF Range
  <2>2. 1..(n + 1) = (1..n) \cup {n + 1}
    BY <1>5
  <2>3. Range(mempool') = Range(mempool) \cup {adding}
    BY <1>5, <2>1, <2>2
  <2> QED
    BY <2>3 DEF Pool
<1>8. PoolWithinLimits'
  <2>1. PoolBytes(mempool') = PoolBytes(mempool) + TxSize[adding]
    BY <1>2, <1>6, AppendBytes
  <2> QED
    BY <1>2, <1>5, <2>1 DEF HasRoom, PoolWithinLimits, n
<1>9. PoolSpendsOnce'
  <2>1. ASSUME NEW i \in 1..n, NEW j \in 1..n, i # j
        PROVE  Spends(mempool'[i]) \cap Spends(mempool'[j]) = {}
    BY <1>1, <1>5, <2>1 DEF PoolSpendsOnce
  <2>2. ASSUME NEW i \in 1..n
        PROVE  Spends(mempool'[i]) \cap Spends(adding) = {}
    BY <1>4, <1>5 DEF Clear, Pool, Range
  <2>3. ASSUME NEW i \in 1..(n + 1), NEW j \in 1..(n + 1), i # j
        PROVE  Spends(mempool'[i]) \cap Spends(mempool'[j]) = {}
    <3>1. (i \in 1..n \/ i = n + 1) /\ (j \in 1..n \/ j = n + 1)
      BY <1>5
    <3>2. CASE i \in 1..n /\ j \in 1..n
      BY <2>1, <2>3, <3>2
    <3>3. CASE i = n + 1 /\ j \in 1..n
      BY <1>5, <2>2, <3>3
    <3>4. CASE i \in 1..n /\ j = n + 1
      BY <1>5, <2>2, <3>4
    <3> QED
      BY <2>3, <3>1, <3>2, <3>3, <3>4
  <2> QED
    BY <1>5, <2>3 DEF PoolSpendsOnce
<1>10. NodeTypeOK'
  BY <1>1, <1>2, <1>3, <1>4, <1>5 DEF NodeTypeOK, Ordinary
<1>11. PendingNotMined'
  BY <1>1, <1>3, <1>4, <1>7 DEF PendingNotMined, ChainTxs
<1>12. PoolInv'
  BY <1>1, <1>2, <1>4, <1>7, <1>8, <1>9, <1>10, <1>11 DEF PoolInv, RecordsExact, AddingInv
<1>13. ASSUME SupplyInv PROVE SupplyInv'
  <2>1. ASSUME NEW i \in 1..n, NEW o \in Spends(mempool[i]), o \notin Outs(uTxOuts)
        PROVE  \E j \in 1..(i - 1) : o \in Creates(mempool'[j])
    <3>1. PICK j \in 1..(i - 1) : o \in Creates(mempool[j])
      BY <1>5, <1>13, <2>1 DEF SupplyInv, ParentsAhead
    <3>2. j \in 1..n
      BY <1>5
    <3> QED
      BY <1>5, <3>1, <3>2
  <2>2. ASSUME NEW o \in Spends(adding), o \notin Outs(uTxOuts)
        PROVE  \E j \in 1..((n + 1) - 1) : o \in Creates(mempool'[j])
    <3>1. PICK p \in Pool : o \in Creates(p)
      BY <1>2, <1>13, <2>2 DEF SupplyInv, Supplied
    <3>2. PICK j \in 1..n : mempool[j] = p
      BY <1>5 DEF Pool, Range
    <3>3. j \in 1..((n + 1) - 1)
      BY <1>5
    <3> QED
      BY <1>5, <3>1, <3>2, <3>3
  <2>3. 1..(n + 1) = (1..n) \cup {n + 1}
    BY <1>5
  <2>4. ParentsAhead'
    BY <1>3, <1>5, <2>1, <2>2, <2>3 DEF ParentsAhead
  <2> QED
    BY <1>2, <2>4 DEF SupplyInv
<1> QED
  BY <1>12, <1>13

-----------------------------------------------------------------------------
(* The steps of chain and pool together. *)

(* What a reorganisation puts in the queue is ordinary transactions.       *)
LEMMA CollectType ==
  ASSUME NEW old \in Seq(Block), NEW new \in Seq(Block)
  PROVE  CollectOrphanedTxs(old, new) \in Seq(Ordinary)
<1> DEFINE kept == UNION {Range(new[i].data) : i \in DOMAIN new}
           keep(b) == {t \in Range(b.data) : ~ IsCoinbaseTx(t) /\ t \notin kept}
           taken == [i \in DOMAIN old |-> Only(old[i].data, keep(old[i]))]
<1>1. CollectOrphanedTxs(old, new) = FlattenSeq(taken)
  BY DEF CollectOrphanedTxs
<1>2. ASSUME NEW i \in DOMAIN old PROVE Only(old[i].data, keep(old[i])) \in Seq(Ordinary)
  <2> DEFINE txs == old[i].data
             r == Only(txs, keep(old[i]))
  <2>1. txs \in Seq(Tx)
    BY BlockFields
  <2>2. keep(old[i]) \subseteq Ordinary
    BY <2>1 DEF Ordinary, Range
  <2>3. r \in Seq(Tx)
    BY <2>1, OnlyPlaces
  <2>4. PICK e : Picks(e, r, txs, keep(old[i]))
    BY <2>1, OnlyPlaces
  <2> HIDE DEF r, txs, keep
  <2>5. \A k \in 1..Len(r) : r[k] \in Ordinary
    BY <2>2, <2>4 DEF Picks
  <2>6. r \in Seq(Ordinary)
    BY <2>3, <2>5
  <2> QED
    BY <2>6 DEF r, txs
<1>3. DOMAIN old = 1..Len(old) /\ Len(old) \in Nat
  OBVIOUS
<1>4. taken \in Seq(Seq(Ordinary))
  <2> HIDE DEF keep
  <2> QED
    BY <1>2, <1>3
<1> HIDE DEF taken
<1> QED
  BY <1>1, <1>4, FlattenType

(* Every step of the two is one of the chain or leaves it alone.           *)
LEMMA NodeStep ==
  ASSUME [NodeNext]_nodeVars
  PROVE  [Next]_vars
<1>1. ASSUME NEW b \in Block, NEW now \in Clock, NodeAddBlock(b, now) PROVE Next
  BY <1>1 DEF NodeAddBlock, Next
<1>2. ASSUME NodeReplaceStep PROVE Next
  BY <1>2 DEF NodeReplaceStep, Next
<1>3. ASSUME NodeAdopt PROVE Next
  BY <1>3 DEF NodeAdopt, Next
<1>4. ASSUME Reinstate PROVE UNCHANGED vars
  BY <1>4 DEF Reinstate
<1>5. ASSUME NEW t \in Tx, Submit(t) PROVE UNCHANGED vars
  BY <1>5 DEF Submit
<1>6. ASSUME MakeRoom PROVE UNCHANGED vars
  BY <1>6 DEF MakeRoom
<1>7. ASSUME UNCHANGED nodeVars PROVE UNCHANGED vars
  BY <1>7 DEF nodeVars
<1> QED
  BY <1>1, <1>2, <1>3, <1>4, <1>5, <1>6, <1>7 DEF NodeNext

\* The listeners know the pool, when nothing is being admitted.
Told == adding = NoTx => announced = mempool

(* The chain moves and the pool is filtered.                               *)
LEMMA FilterStep ==
  ASSUME NodeInv, ChainInv',
         \/ \E b \in Block, now \in Clock : NodeAddBlock(b, now)
         \/ NodeAdopt
  PROVE  PoolInv' /\ SupplyInv' /\ (Told => Told')
<1>1. PoolInv /\ ChainInv /\ queue \in Seq(Ordinary)
  BY DEF NodeInv, PoolInv, NodeTypeOK, Ordinary
<1>2. adding = NoTx /\ UNCHANGED adding /\ UpdateMempool(uTxOuts')
  <2>1. CASE \E b \in Block, now \in Clock : NodeAddBlock(b, now)
    BY <2>1 DEF NodeAddBlock, Settled
  <2>2. CASE NodeAdopt
    BY <1>1, <2>2 DEF NodeAdopt, Adopt, PoolInv, AddingInv
  <2> QED
    BY <2>1, <2>2
<1>3. queue' \in Seq(Ordinary)
  <2>1. CASE \E b \in Block, now \in Clock : NodeAddBlock(b, now)
    BY <1>1, <2>1 DEF NodeAddBlock
  <2>2. CASE NodeAdopt
    <3> DEFINE old == SubSeq(blockchain, common + 1, Len(blockchain))
               new == SubSeq(chain, common + 1, Len(chain))
    <3>1. blockchain \in Seq(Block) /\ chain \in Seq(Block) /\ common \in Nat
      BY <1>1 DEF ChainInv, TypeOK
    <3>2. old \in Seq(Block) /\ new \in Seq(Block)
      BY <3>1
    <3>3. queue' = CollectOrphanedTxs(old, new)
      BY <2>2 DEF NodeAdopt
    <3> HIDE DEF old, new
    <3> QED
      BY <3>2, <3>3, CollectType
  <2> QED
    BY <2>1, <2>2
<1>4. PoolInv' /\ ParentsAhead' /\ (announced = mempool => announced' = mempool')
  BY <1>1, <1>2, <1>3, Updated
<1> QED
  BY <1>2, <1>4 DEF SupplyInv, Told

(* A step that touches neither the store nor the pool.                     *)
LEMMA IdleStep ==
  ASSUME NodeInv, UNCHANGED <<blockchain, uTxOuts, poolVars>>, queue' \in Seq(Ordinary),
         adding # NoTx => UNCHANGED phase
  PROVE  PoolInv' /\ (SupplyInv => SupplyInv') /\ (Told => Told')
<1> USE DEF poolVars
<1>1. NodeTypeOK' /\ AddingInv'
  BY DEF NodeInv, PoolInv, NodeTypeOK, AddingInv, Ordinary, Clear, Pool, ChainTxs
<1>2. PoolSpendsOnce' /\ PendingNotMined' /\ RecordsExact' /\ PoolWithinLimits' /\ Pool' = Pool
  BY DEF NodeInv, PoolInv, PoolSpendsOnce, PendingNotMined, RecordsExact, PoolWithinLimits,
         Pool, ChainTxs
<1>3. PoolInv'
  BY <1>1, <1>2 DEF NodeInv, PoolInv
<1>4. ASSUME SupplyInv PROVE SupplyInv'
  BY <1>2, <1>4 DEF SupplyInv, ParentsAhead, Supplied
<1>5. ASSUME Told PROVE Told'
  BY <1>5 DEF Told
<1> QED
  BY <1>3, <1>4, <1>5

(* A transaction is offered.                                               *)
LEMMA OfferStep ==
  ASSUME NodeInv, Reinstate \/ \E t \in Tx : Submit(t)
  PROVE  PoolInv' /\ (SupplyInv => SupplyInv') /\ (Told => Told')
<1>1. queue \in Seq(Ordinary)
  BY DEF NodeInv, PoolInv, NodeTypeOK, Ordinary
<1>2. ASSUME NEW t \in Tx, NEW h, NEW m, BeginAdd(t, uTxOuts, h, m), phase = "idle",
             UNCHANGED vars, queue' \in Seq(Ordinary)
      PROVE  PoolInv' /\ (SupplyInv => SupplyInv') /\ (Told => Told')
  <2>1. PoolInv' /\ (ParentsAhead => SupplyInv')
    BY <1>2, BeginInv
  <2>2. adding' # NoTx
    BY <1>2, TxAssumption DEF BeginAdd
  <2> QED
    BY <2>1, <2>2 DEF SupplyInv, Told
<1>3. ASSUME Reinstate PROVE PoolInv' /\ (SupplyInv => SupplyInv') /\ (Told => Told')
  <2>1. queue # << >> /\ queue' = Tail(queue) /\ phase = "idle" /\ UNCHANGED vars
    BY <1>3 DEF Reinstate
  <2>2. queue' \in Seq(Ordinary) /\ Head(queue) \in Tx
    BY <1>1, <2>1 DEF Ordinary
  <2>3. CASE BeginAdd(Head(queue), uTxOuts, NextHeight, TipMedianTime)
    BY <1>2, <2>1, <2>2, <2>3
  <2>4. CASE UNCHANGED poolVars
    BY <2>1, <2>2, <2>4, IdleStep DEF vars, store, locals
  <2> QED
    BY <1>3, <2>3, <2>4 DEF Reinstate
<1>4. ASSUME NEW t \in Tx, Submit(t) PROVE PoolInv' /\ (SupplyInv => SupplyInv') /\ (Told => Told')
  <2>1. BeginAdd(t, uTxOuts, NextHeight, TipMedianTime) /\ phase = "idle" /\ UNCHANGED <<vars, queue>>
    BY <1>4 DEF Submit, Settled
  <2> QED
    BY <1>1, <1>2, <2>1
<1> QED
  BY <1>3, <1>4

(* Room is made: the only step that may leave a newcomer without a parent, *)
(* and the only one that may leave the listeners behind.                   *)
LEMMA MakeRoomStep ==
  ASSUME NodeInv, MakeRoom
  PROVE  /\ PoolInv'
         /\ SupplyInv /\ SparesParents => SupplyInv'
         /\ Told /\ ~ RefuseForRoom => Told'
<1>1. UNCHANGED <<vars, queue>>
  BY DEF MakeRoom
<1>2. CASE EvictWorst
  <2>1. adding' # NoTx
    BY <1>2 DEF EvictWorst
  <2> QED
    BY <1>1, <1>2, <2>1, EvictInv DEF Told
<1>3. CASE Admit
  <2>1. announced' = mempool'
    BY <1>3 DEF Admit
  <2> QED
    BY <1>1, <1>3, <2>1, AdmitInv DEF Told
<1>4. CASE RefuseForRoom
  <2>1. adding' = NoTx /\ UNCHANGED <<mempool, meta, announced, blockchain, uTxOuts, phase, queue>>
    BY <1>1, <1>4 DEF RefuseForRoom, vars, store, locals
  <2>2. NodeTypeOK' /\ AddingInv'
    BY <2>1 DEF NodeInv, PoolInv, NodeTypeOK, AddingInv
  <2>3. PoolSpendsOnce' /\ PendingNotMined' /\ RecordsExact' /\ PoolWithinLimits' /\ Pool' = Pool
    BY <2>1 DEF NodeInv, PoolInv, PoolSpendsOnce, PendingNotMined, RecordsExact,
                PoolWithinLimits, Pool, ChainTxs
  <2>4. PoolInv'
    BY <2>2, <2>3 DEF NodeInv, PoolInv
  <2>5. ASSUME SupplyInv PROVE SupplyInv'
    BY <2>1, <2>5 DEF SupplyInv, ParentsAhead
  <2> QED
    BY <1>4, <2>4, <2>5
<1> QED
  BY <1>2, <1>3, <1>4 DEF MakeRoom

(* Every step keeps the invariant, supplies the pool unless an eviction    *)
(* takes a parent of the newcomer, and keeps the listeners informed unless *)
(* a newcomer is refused for room.                                         *)
LEMMA NodeInvStep ==
  ASSUME NodeInv, [NodeNext]_nodeVars
  PROVE  /\ NodeInv'
         /\ SupplyInv /\ SparesParents => SupplyInv'
         /\ Told /\ ~ RefuseForRoom => Told'
<1>1. ChainInv' /\ queue \in Seq(Ordinary)
  BY NodeStep, NextInv DEF NodeInv, PoolInv, NodeTypeOK, Ordinary
<1>2. CASE (\E b \in Block, now \in Clock : NodeAddBlock(b, now)) \/ NodeAdopt
  BY <1>1, <1>2, FilterStep DEF NodeInv
<1>3. CASE NodeReplaceStep
  <2>1. UNCHANGED <<poolVars, queue>> /\ (Settled \/ phase # "idle")
    BY <1>3 DEF NodeReplaceStep
  <2>2. adding = NoTx
    BY <2>1 DEF Settled, NodeInv, PoolInv, AddingInv
  <2>3. UNCHANGED <<blockchain, uTxOuts>>
    BY <1>3 DEF NodeReplaceStep, StartReplace, RewindBlock, UndoMissing, ReplayBlock, StartApply,
                ApplyBlock, RejectBlock, RejectLighter, store
  <2> QED
    BY <1>1, <2>1, <2>2, <2>3, IdleStep DEF NodeInv
<1>4. CASE Reinstate \/ \E t \in Tx : Submit(t)
  BY <1>1, <1>4, OfferStep DEF NodeInv
<1>5. CASE MakeRoom
  BY <1>1, <1>5, MakeRoomStep DEF NodeInv
<1>6. CASE UNCHANGED nodeVars
  BY <1>1, <1>6, IdleStep DEF NodeInv, nodeVars, vars, store, locals
<1> QED
  BY <1>2, <1>3, <1>4, <1>5, <1>6 DEF NodeNext

(* An empty pool at genesis.                                               *)
LEMMA NodeInitInv == NodeInit => NodeInv /\ SupplyInv /\ Told
<1> SUFFICES ASSUME NodeInit PROVE NodeInv /\ SupplyInv /\ Told
  OBVIOUS
<1>1. /\ ChainInv
      /\ mempool = << >> /\ meta = {} /\ announced = << >> /\ adding = NoTx /\ queue = << >>
  BY InitInv DEF NodeInit
<1>2. Pool = {}
  BY <1>1 DEF Pool, Range
<1>3. NodeTypeOK /\ PoolSpendsOnce /\ PendingNotMined /\ RecordsExact /\ AddingInv
  BY <1>1, <1>2 DEF NodeTypeOK, PoolSpendsOnce, PendingNotMined, RecordsExact, AddingInv
<1>4. PoolWithinLimits
  <2>1. << >> \in Seq(Tx) /\ DOMAIN << >> = {} /\ IsFiniteSet({}) /\ Len(<< >>) = 0
    BY FS_EmptySet
  <2>2. PoolBytes(<< >>) = 0
    BY <2>1, SumStep DEF PoolBytes, SumFunction
  <2> QED
    BY <1>1, <2>1, <2>2, PoolAssumption DEF PoolWithinLimits
<1>5. SupplyInv /\ Told
  BY <1>1, <1>2 DEF SupplyInv, ParentsAhead, Told
<1> QED
  BY <1>1, <1>2, <1>3, <1>4, <1>5 DEF NodeInv, PoolInv

-----------------------------------------------------------------------------
(* The theorems. *)

(* The pool and the chain together do what the chain alone may do          *)
(* (blockchain.js, the calls into the pool).                               *)
THEOREM NodeIsChain == NodeSpec => Spec
<1>1. NodeInit => Init
  BY DEF NodeInit
<1>2. [NodeNext]_nodeVars => [Next]_vars
  BY NodeStep
<1> QED
  BY <1>1, <1>2, PTL DEF NodeSpec, Spec

(* The invariant of chain and pool.                                        *)
THEOREM NodeInvariant == NodeSpec => []NodeInv
<1>1. NodeInit => NodeInv
  BY NodeInitInv
<1>2. NodeInv /\ [NodeNext]_nodeVars => NodeInv'
  BY NodeInvStep
<1> QED
  BY <1>1, <1>2, PTL DEF NodeSpec

(* The pool keeps within its count and bytes, in the middle of an          *)
(* admission too (makeRoomFor, addToMempool).                              *)
THEOREM PoolStaysWithinLimits == NodeSpec => []PoolWithinLimits
<1>1. NodeInv => PoolWithinLimits
  BY DEF NodeInv, PoolInv
<1> QED
  BY <1>1, NodeInvariant, PTL

(* No output is spent twice among the pending transactions, nothing is     *)
(* both pending and mined, and the records of size and fee are those of    *)
(* the pending transactions, whatever is evicted, replaced or rolled back. *)
THEOREM PoolStaysSound == NodeSpec => [](NodeTypeOK /\ PoolSpendsOnce /\ PendingNotMined /\ RecordsExact)
<1>1. NodeInv => NodeTypeOK /\ PoolSpendsOnce /\ PendingNotMined /\ RecordsExact
  BY DEF NodeInv, PoolInv
<1> QED
  BY <1>1, NodeInvariant, PTL

(* Parents stay ahead in every step whose eviction spares them.            *)
LEMMA AheadStep ==
  NodeInv /\ SupplyInv /\ [NodeNext]_nodeVars /\ [SparesParents]_nodeVars => (NodeInv /\ SupplyInv)'
<1> SUFFICES ASSUME NodeInv, SupplyInv, [NodeNext]_nodeVars, [SparesParents]_nodeVars
             PROVE  (NodeInv /\ SupplyInv)'
  OBVIOUS
<1>1. NodeInv' /\ (SparesParents => SupplyInv')
  BY NodeInvStep
<1>2. CASE SparesParents
  BY <1>1, <1>2
<1>3. CASE UNCHANGED nodeVars
  BY <1>1, <1>3 DEF nodeVars, vars, store, locals, poolVars, SupplyInv, ParentsAhead, Supplied, Pool
<1> QED
  BY <1>2, <1>3

(* As long as no eviction takes a transaction the newcomer spends from,    *)
(* the pool could be mined as it stands (addToMempool, updateMempool).     *)
THEOREM PoolStaysMinable == NodeSpec /\ [][SparesParents]_nodeVars => []PoolMinable
<1>1. NodeInit => NodeInv /\ SupplyInv
  BY NodeInitInv
<1>2. NodeInv /\ SupplyInv => PoolMinable
  BY DEF NodeInv, PoolInv, SupplyInv, PoolMinable
<1> QED
  BY <1>1, <1>2, AheadStep, PTL DEF NodeSpec

(* As long as no newcomer is refused for room, the records and what the    *)
(* listeners of onChange were told follow the pool (notifyChange).         *)
THEOREM RecordsStayExact == NodeSpec /\ [][~ RefuseForRoom]_nodeVars => []RecordsFollowPool
<1>1. NodeInit => NodeInv /\ Told
  BY NodeInitInv
<1>2. NodeInv /\ Told /\ [NodeNext]_nodeVars /\ [~ RefuseForRoom]_nodeVars => (NodeInv /\ Told)'
  <2> SUFFICES ASSUME NodeInv, Told, [NodeNext]_nodeVars, [~ RefuseForRoom]_nodeVars
               PROVE  (NodeInv /\ Told)'
    OBVIOUS
  <2>1. NodeInv' /\ (~ RefuseForRoom => Told')
    BY NodeInvStep
  <2>2. CASE ~ RefuseForRoom
    BY <2>1, <2>2
  <2>3. CASE UNCHANGED nodeVars
    BY <2>1, <2>3 DEF nodeVars, poolVars, Told
  <2> QED
    BY <2>2, <2>3
<1>3. NodeInv /\ Told => RecordsFollowPool
  BY DEF NodeInv, PoolInv, RecordsFollowPool, ListenersKnowPool, Told
<1> QED
  BY <1>1, <1>2, <1>3, PTL DEF NodeSpec

-----------------------------------------------------------------------------
(* Fees. *)

FeeOfTx == [t \in Tx |-> GetTxFee(t)]

(* The fees of a sequence of transactions that pay are a number.           *)
LEMMA FeesAre ==
  ASSUME NEW txs \in Seq(Ordinary), \A t \in Range(txs) : Payer(t)
  PROVE  /\ SumFunction([i \in DOMAIN txs |-> GetTxFee(txs[i])]) = Total(FeeOfTx, txs)
         /\ \A t \in Range(txs) : t \in Tx /\ FeeOfTx[t] = GetTxFee(t) /\ FeeOfTx[t] \in Int
         /\ Total(FeeOfTx, txs) \in Int
<1>1. \A t \in Range(txs) : t \in Tx /\ FeeOfTx[t] = GetTxFee(t) /\ FeeOfTx[t] \in Int
  <2>1. ASSUME NEW t \in Range(txs) PROVE t \in Tx /\ GetTxFee(t) \in Nat
    BY PayerSpends DEF Payer
  <2> QED
    BY <2>1 DEF FeeOfTx
<1>2. DOMAIN txs = 1..Len(txs) /\ \A i \in 1..Len(txs) : txs[i] \in Range(txs)
  BY DEF Range
<1>3. [i \in DOMAIN txs |-> GetTxFee(txs[i])] = Terms(FeeOfTx, txs)
  BY <1>1, <1>2 DEF Terms
<1>4. DOMAIN Terms(FeeOfTx, txs) = 1..Len(txs)
  BY DEF Terms
<1>5. SumFunction([i \in DOMAIN txs |-> GetTxFee(txs[i])]) = Total(FeeOfTx, txs)
  BY <1>3, <1>4 DEF Total, SumFunction
<1>6. Total(FeeOfTx, txs) \in Int
  BY <1>1, SplitSum
<1> QED
  BY <1>1, <1>5, <1>6

(* The fees of a family in the pool, added up transaction by transaction   *)
(* or place by place.                                                      *)
LEMMA FamilyFees ==
  ASSUME PoolInv, NEW gone \in SUBSET Pool
  PROVE  TotalAt(FeeOfTx, mempool, (1..Len(mempool)) \ Places(mempool, Pool \ gone))
           = SumFunction([o \in gone |-> MetaFee(o)])
<1> DEFINE places == (1..Len(mempool)) \ Places(mempool, Pool \ gone)
           f == Terms(FeeOfTx, mempool)
           fees == [o \in gone |-> MetaFee(o)]
<1>1. /\ mempool \in Seq(Ordinary) /\ \A t \in Pool : Payer(t)
      /\ PoolSpendsOnce /\ meta = Pool
  BY DEF PoolInv, NodeTypeOK, RecordsExact, Ordinary
<1>2. DOMAIN mempool = 1..Len(mempool) /\ Len(mempool) \in Nat
  BY <1>1
<1>3. \A t \in Pool : t \in Tx /\ FeeOfTx[t] = GetTxFee(t) /\ FeeOfTx[t] \in Int
  BY <1>1, FeesAre DEF Pool
<1>4. \A i \in 1..Len(mempool) : mempool[i] \in Pool
  BY <1>2 DEF Pool, Range
<1>5. \A i \in 1..Len(mempool) : i \in places <=> mempool[i] \in gone
  BY <1>4 DEF Places
<1>6. {mempool[i] : i \in places} = gone
  <2>1. \A o \in gone : \E i \in 1..Len(mempool) : mempool[i] = o
    BY <1>2 DEF Pool, Range
  <2> HIDE DEF places
  <2>2. places \subseteq 1..Len(mempool)
    BY DEF places
  <2> QED
    BY <1>5, <2>1, <2>2
<1>7. IsFiniteSet(places)
  <2>1. 1 \in Int /\ Len(mempool) \in Int
    BY <1>2
  <2>2. IsFiniteSet(1..Len(mempool))
    BY <2>1, FS_Interval
  <2>3. places \in SUBSET (1..Len(mempool))
    OBVIOUS
  <2> HIDE DEF places
  <2> QED
    BY <2>2, <2>3, FS_Subset
<1>8. ASSUME NEW i \in places
      PROVE  f[i] \in Int /\ f[i] = fees[mempool[i]]
  <2>1. mempool[i] \in gone /\ mempool[i] \in Pool
    BY <1>4, <1>5
  <2>2. fees[mempool[i]] = GetTxFee(mempool[i])
    BY <1>1, <2>1 DEF MetaFee
  <2>3. f[i] = FeeOfTx[mempool[i]]
    BY DEF Terms
  <2> QED
    BY <1>3, <2>1, <2>2, <2>3
<1>9. ASSUME NEW i \in places, NEW j \in places, mempool[i] = mempool[j] PROVE i = j
  BY <1>1, <1>2, <1>9, PoolInjective
<1>10. DOMAIN fees = gone
  OBVIOUS
<1> HIDE DEF places, f, fees
<1>11. SumFunctionOnSet(fees, {mempool[i] : i \in places}) = SumFunctionOnSet(f, places)
  BY ONLY <1>7, <1>8, <1>9, SumRenamed
<1>12. SumFunctionOnSet(fees, gone) = SumFunctionOnSet(f, places)
  BY <1>6, <1>11
<1> QED
  BY <1>10, <1>12 DEF TotalAt, SumFunction, places, f, fees

(* What is offered brings at least the fees of what goes for it.           *)
LEMMA OfferFees ==
  ASSUME NodeInv, NodeInv', NEW t \in Tx, NEW h, NEW m, BeginAdd(t, uTxOuts, h, m)
  PROVE  FeesAtStake' >= FeesAtStake
<1> DEFINE conflicts == ConflictingTxs(t)
           gone == WithDescendants(conflicts)
           before == Total(FeeOfTx, mempool)
           after == Total(FeeOfTx, mempool')
           lost == SumFunction([o \in gone |-> MetaFee(o)])
           fee == GetTxFee(t)
<1>1. /\ mempool \in Seq(Ordinary) /\ \A p \in Pool : Payer(p)
      /\ mempool' \in Seq(Ordinary) /\ \A p \in Pool' : Payer(p)
      /\ PoolInv
  BY DEF NodeInv, PoolInv, NodeTypeOK, Ordinary
<1>2. adding = NoTx /\ adding' = t /\ t # NoTx
  BY TxAssumption DEF BeginAdd
<1>3. FeesAtStake = before + 0 /\ before \in Int
  BY <1>1, <1>2, FeesAre DEF FeesAtStake, Pool
<1>4. FeesAtStake' = after + fee /\ after \in Int
  BY <1>1, <1>2, FeesAre DEF FeesAtStake, Pool
<1>5. gone \in SUBSET Pool /\ (conflicts = {} => gone = {})
  BY Descendants DEF ConflictingTxs
<1>6. before = after + lost /\ lost \in Int
  <2>1. mempool' = Only(mempool, Pool \ gone)
    BY DEF BeginAdd
  <2>2. \A p \in Range(mempool) : FeeOfTx[p] \in Int
    BY <1>1, FeesAre DEF Pool
  <2> DEFINE places == (1..Len(mempool)) \ Places(mempool, Pool \ gone)
  <2>3. TotalAt(FeeOfTx, mempool, places) = lost
    <3> HIDE DEF gone
    <3> QED
      BY <1>1, <1>5, FamilyFees
  <2>4. /\ TotalAt(FeeOfTx, mempool, places) \in Int
        /\ before = after + TotalAt(FeeOfTx, mempool, places)
    <3> HIDE DEF gone
    <3> QED
      BY <1>1, <2>1, <2>2, SplitSum
  <2> HIDE DEF places, lost, before, after, gone
  <2> QED
    BY <2>3, <2>4
<1>7. fee >= MIN_RELAY_FEE_RATE * TxSize[t] /\ Payer(t)
  BY <1>2, Admission DEF NodeInv, BeginAdd, Payer
<1>8. fee \in Nat
  BY <1>7, PayerSpends
<1>9. fee >= lost
  <2>1. CASE conflicts = {}
    <3>1. gone = {} /\ IsFiniteSet({})
      BY <1>5, <2>1, FS_EmptySet
    <3>2. SumFunction([o \in {} |-> MetaFee(o)]) = 0
      BY <3>1, SumStep DEF SumFunction
    <3>3. lost = 0
      BY <3>1, <3>2
    <3> QED
      BY <1>8, <3>3
  <2>2. CASE conflicts # {}
    <3>1. CheckReplacement(t, conflicts, gone)
      BY <2>2 DEF BeginAdd, Admissible
    <3>2. fee >= lost + TxSize[t] * MIN_RELAY_FEE_RATE
      BY <3>1 DEF CheckReplacement
    <3>3. TxSize[t] * MIN_RELAY_FEE_RATE \in Nat
      BY TxAssumption, PoolAssumption, Positive
    <3> HIDE DEF fee, lost
    <3> QED
      BY <1>6, <1>8, <3>2, <3>3
  <2> QED
    BY <2>1, <2>2
<1> HIDE DEF before, after, lost, fee
<1> QED
  BY <1>3, <1>4, <1>6, <1>8, <1>9

(* Coming in moves a fee from the newcomer to the pool.                    *)
LEMMA AdmitFees ==
  ASSUME NodeInv, NodeInv', Admit
  PROVE  FeesAtStake' >= FeesAtStake
<1> DEFINE n == Len(mempool)
           f == Terms(FeeOfTx, mempool')
           g == Terms(FeeOfTx, mempool)
           fee == GetTxFee(adding)
<1>1. /\ mempool \in Seq(Ordinary) /\ \A p \in Pool : Payer(p)
      /\ mempool' \in Seq(Ordinary) /\ \A p \in Pool' : Payer(p)
      /\ adding # NoTx => Payer(adding)
  BY DEF NodeInv, PoolInv, NodeTypeOK, Ordinary, AddingInv
<1>2. adding # NoTx /\ adding' = NoTx /\ mempool' = Append(mempool, adding)
  BY DEF Admit
<1>3. FeesAtStake = Total(FeeOfTx, mempool) + fee /\ Total(FeeOfTx, mempool) \in Int
  BY <1>1, <1>2, FeesAre DEF FeesAtStake, Pool
<1>4. FeesAtStake' = Total(FeeOfTx, mempool') + 0 /\ Total(FeeOfTx, mempool') \in Int
  BY <1>1, <1>2, FeesAre DEF FeesAtStake, Pool
<1>5. fee \in Nat /\ FeeOfTx[adding] = fee
  BY <1>1, <1>2, PayerSpends DEF FeeOfTx, Payer
<1>6. n \in Nat /\ Len(mempool') = n + 1
  BY <1>1, <1>2
<1>7. f[n + 1] = fee /\ f[n + 1] \in Int
  <2>1. mempool'[n + 1] = adding /\ n + 1 \in 1..Len(mempool')
    BY <1>1, <1>2, <1>6
  <2> HIDE DEF n
  <2>2. f[n + 1] = FeeOfTx[mempool'[n + 1]]
    BY <2>1 DEF Terms
  <2> HIDE DEF f, fee
  <2> QED
    BY <1>5, <2>1, <2>2
<1>8. ASSUME NEW i \in 1..n PROVE g[i] \in Int /\ f[i] = g[i]
  <2>1. mempool'[i] = mempool[i] /\ i \in 1..Len(mempool') /\ mempool[i] \in Range(mempool)
    BY <1>1, <1>2, <1>6 DEF Range
  <2>2. FeeOfTx[mempool[i]] \in Int
    BY <1>1, <2>1, FeesAre DEF Pool
  <2>3. f[i] = FeeOfTx[mempool'[i]] /\ g[i] = FeeOfTx[mempool[i]]
    BY <2>1 DEF Terms
  <2> HIDE DEF f, g
  <2> QED
    BY <2>1, <2>2, <2>3
<1> HIDE DEF n, f, g, fee
<1>9. SumFunctionOnSet(f, 1..(n + 1)) = SumFunctionOnSet(g, 1..n) + f[n + 1]
  BY <1>6, <1>7, <1>8, SumAppend
<1>10. Total(FeeOfTx, mempool') = Total(FeeOfTx, mempool) + fee
  BY <1>6, <1>7, <1>9 DEF Total, f, g, n
<1> QED
  BY <1>3, <1>4, <1>5, <1>10

(* The work of a branch is a number.                                       *)
LEMMA BranchWorkType ==
  ASSUME NEW c \in Seq(Block), NEW n \in Nat
  PROVE  ChainWork(c, n) \in Int
<1> DEFINE dom == (n + 1)..Len(c)
           f == [i \in dom |-> c[i].work]
<1>1. \A i \in dom : f[i] \in Int
  <2>1. \A b \in Block : b.work \in Int
    BY BlockAssumption DEF BlockType
  <2>2. \A i \in dom : c[i] \in Block
    OBVIOUS
  <2> QED
    BY <2>1, <2>2
<1>2. IsFiniteSet(dom)
  <2>1. n + 1 \in Int /\ Len(c) \in Int
    OBVIOUS
  <2> QED
    BY <2>1, FS_Interval
<1>3. ChainWork(c, n) = SumFunctionOnSet(f, dom)
  BY DEF ChainWork, SumFunction
<1> HIDE DEF f, dom
<1> QED
  BY <1>1, <1>2, <1>3, SumType

(* A step that leaves the chain alone, with room for the newcomer.         *)
LEMMA FeesStep ==
  ASSUME NodeInv, [NodeNext]_nodeVars, UNCHANGED blockchain, adding # NoTx => HasRoom(adding)
  PROVE  FeesAtStake' >= FeesAtStake
<1>1. NodeInv'
  BY NodeInvStep
<1>2. ASSUME UNCHANGED poolVars PROVE FeesAtStake' >= FeesAtStake
  <2>1. FeesAtStake' = FeesAtStake
    BY <1>2 DEF poolVars, FeesAtStake
  <2>2. /\ mempool \in Seq(Ordinary) /\ \A p \in Range(mempool) : Payer(p)
        /\ adding # NoTx => Payer(adding)
    BY DEF NodeInv, PoolInv, NodeTypeOK, Ordinary, AddingInv, Pool
  <2>3. FeesAtStake \in Int
    <3>1. Total(FeeOfTx, mempool) \in Int
      BY <2>2, FeesAre
    <3>2. FeesAtStake = Total(FeeOfTx, mempool) + (IF adding = NoTx THEN 0 ELSE GetTxFee(adding))
      BY <2>2, FeesAre DEF FeesAtStake
    <3>3. adding # NoTx => GetTxFee(adding) \in Int
      BY <2>2, PayerSpends
    <3> QED
      BY <3>1, <3>2, <3>3
  <2> QED
    BY <2>1, <2>3
<1>3. blockchain \in Seq(Block) /\ common \in Nat
  BY DEF NodeInv, ChainInv, TypeOK
<1>4. ASSUME NEW b \in Block, NEW now \in Clock, NodeAddBlock(b, now) PROVE FALSE
  <2>1. blockchain' = Append(blockchain, b)
    BY <1>4 DEF NodeAddBlock, AddBlockToChain
  <2>2. Len(blockchain') = Len(blockchain) + 1 /\ Len(blockchain) \in Nat
    BY <1>3, <2>1
  <2> QED
    BY <2>2
<1>5. ASSUME NodeAdopt PROVE FALSE
  <2>1. ChainWork(blockchain, common) > ChainWork(blockchain, common)
    BY <1>5 DEF NodeAdopt, Adopt, Heavier
  <2>2. ChainWork(blockchain, common) \in Int
    BY <1>3, BranchWorkType
  <2> QED
    BY <2>1, <2>2
<1>6. ASSUME NodeReplaceStep PROVE UNCHANGED poolVars
  BY <1>6 DEF NodeReplaceStep
<1>7. ASSUME Reinstate PROVE FeesAtStake' >= FeesAtStake
  <2>1. queue \in Seq(Ordinary) /\ queue # << >>
    BY <1>7 DEF Reinstate, NodeInv, PoolInv, NodeTypeOK, Ordinary
  <2>2. Head(queue) \in Tx
    BY <2>1 DEF Ordinary
  <2>3. CASE BeginAdd(Head(queue), uTxOuts, NextHeight, TipMedianTime)
    BY <1>1, <2>2, <2>3, OfferFees
  <2>4. CASE UNCHANGED poolVars
    BY <1>2, <2>4
  <2> QED
    BY <1>7, <2>3, <2>4 DEF Reinstate
<1>8. ASSUME NEW t \in Tx, Submit(t) PROVE FeesAtStake' >= FeesAtStake
  BY <1>1, <1>8, OfferFees DEF Submit
<1>9. ASSUME MakeRoom PROVE FeesAtStake' >= FeesAtStake
  <2>1. CASE Admit
    BY <1>1, <2>1, AdmitFees
  <2>2. ASSUME EvictWorst \/ RefuseForRoom PROVE FALSE
    BY <2>2 DEF EvictWorst, RefuseForRoom
  <2> QED
    BY <1>9, <2>1, <2>2 DEF MakeRoom
<1>10. ASSUME UNCHANGED nodeVars PROVE UNCHANGED poolVars
  BY <1>10 DEF nodeVars
<1> QED
  BY <1>2, <1>4, <1>5, <1>6, <1>7, <1>8, <1>9, <1>10 DEF NodeNext

(* While the chain stays and there is room, the fees of the pool and the   *)
(* newcomer never fall (checkReplacement): no replacement, with all its    *)
(* descendants, pays the miner less than what it takes out.                *)
THEOREM FeesNeverFall == NodeSpec => FeesOnlyRise
<1>1. NodeInv /\ [NodeNext]_nodeVars
        => [UNCHANGED blockchain /\ (adding # NoTx => HasRoom(adding))
              => FeesAtStake' >= FeesAtStake]_nodeVars
  BY FeesStep
<1> QED
  BY <1>1, NodeInvariant, PTL DEF NodeSpec, FeesOnlyRise


-----------------------------------------------------------------------------
(* Sorting. *)

\* Of two members of S one is ahead of the other.
Orders(ahead, S) ==
  /\ \A x, y \in S : x # y => <<x, y>> \in ahead \/ <<y, x>> \in ahead
  /\ \A x \in S : <<x, x>> \notin ahead
  /\ \A x, y, z \in S : <<x, y>> \in ahead /\ <<y, z>> \in ahead => <<x, z>> \in ahead

\* s has every member of S once, those ahead first.
SortedBy(s, S, ahead) ==
  /\ s \in [1..Cardinality(S) -> S]
  /\ \A j, k \in 1..Cardinality(S) : j < k => <<s[j], s[k]>> \in ahead
  /\ \A x \in S : \E k \in 1..Cardinality(S) : s[k] = x

(* InOrder sorts: members have different numbers of others ahead of them.  *)
LEMMA Sorts ==
  ASSUME NEW S, IsFiniteSet(S), NEW ahead, Orders(ahead, S)
  PROVE  Cardinality(S) \in Nat /\ SortedBy(InOrder(S, ahead), S, ahead)
<1> DEFINE before(x) == {y \in S : <<y, x>> \in ahead}
           n == Cardinality(S)
           s == InOrder(S, ahead)
           whole == 1..n
<1>1. n \in Nat
  BY FS_CardinalityType
<1>2. ASSUME NEW x \in S
      PROVE  IsFiniteSet(before(x)) /\ Cardinality(before(x)) \in Nat /\ Cardinality(before(x)) + 1 \in whole
  <2>1. before(x) \in SUBSET S /\ x \notin before(x)
    BY DEF Orders
  <2> HIDE DEF before
  <2>2. IsFiniteSet(before(x)) /\ Cardinality(before(x)) <= n /\ Cardinality(before(x)) # n
    BY <2>1, FS_Subset
  <2>3. Cardinality(before(x)) \in Nat
    BY <2>2, FS_CardinalityType
  <2> QED
    BY <1>1, <2>2, <2>3
<1>3. ASSUME NEW x \in S, NEW y \in S, <<x, y>> \in ahead
      PROVE  Cardinality(before(x)) < Cardinality(before(y))
  <2>1. before(x) \in SUBSET before(y) /\ x \in before(y) /\ x \notin before(x)
    BY <1>3 DEF Orders
  <2> HIDE DEF before
  <2>2. Cardinality(before(x)) <= Cardinality(before(y)) /\ Cardinality(before(x)) # Cardinality(before(y))
    BY <1>2, <2>1, FS_Subset
  <2> QED
    BY <1>2, <2>2
<1>4. ASSUME NEW x \in S, NEW y \in S, Cardinality(before(x)) = Cardinality(before(y)) PROVE x = y
  <2> SUFFICES ASSUME x # y PROVE FALSE
    OBVIOUS
  <2>1. <<x, y>> \in ahead \/ <<y, x>> \in ahead
    BY DEF Orders
  <2> HIDE DEF before
  <2>2. Cardinality(before(x)) \in Nat /\ Cardinality(before(y)) \in Nat
    BY <1>2
  <2>3. CASE <<x, y>> \in ahead
    BY <1>3, <1>4, <2>2, <2>3
  <2>4. CASE <<y, x>> \in ahead
    BY <1>3, <1>4, <2>2, <2>4
  <2> QED
    BY <2>1, <2>3, <2>4
<1>5. ASSUME NEW k \in whole PROVE \E x \in S : Cardinality(before(x)) = k - 1
  <2> DEFINE f == [x \in S |-> Cardinality(before(x)) + 1]
  <2>1. IsFiniteSet(whole) /\ Cardinality(whole) = n
    <3>1. 1 \in Int /\ n \in Int
      BY <1>1
    <3> HIDE DEF n
    <3> QED
      BY <1>1, <3>1, FS_Interval
  <2>2. f \in Injection(S, whole)
    <3>1. f \in [S -> whole]
      BY <1>2
    <3>2. ASSUME NEW x \in S, NEW y \in S, f[x] = f[y] PROVE x = y
      <4>1. Cardinality(before(x)) \in Nat /\ Cardinality(before(y)) \in Nat
        BY <1>2
      <4>2. Cardinality(before(x)) + 1 = Cardinality(before(y)) + 1
        BY <3>2
      <4> HIDE DEF before
      <4> QED
        BY <1>4, <4>1, <4>2
    <3> HIDE DEF f, whole
    <3> QED
      BY <3>1, <3>2 DEF Injection, IsInjective
  <2>3. f \in Surjection(S, whole)
    <3> HIDE DEF f, whole
    <3> QED
      BY <2>1, <2>2, FS_Injection
  <2>4. PICK x \in S : f[x] = k
    <3> HIDE DEF f, whole
    <3> QED
      BY <2>3 DEF Surjection
  <2>5. Cardinality(before(x)) \in Nat /\ Cardinality(before(x)) + 1 = k
    BY <1>2, <2>4
  <2> HIDE DEF before
  <2> QED
    BY <2>5
<1>6. s = [k \in whole |-> CHOOSE x \in S : Cardinality(before(x)) = k - 1]
  BY DEF InOrder
<1>7. ASSUME NEW k \in whole PROVE s[k] \in S /\ Cardinality(before(s[k])) = k - 1
  <2> HIDE DEF s, before
  <2> QED
    BY <1>5, <1>6
<1>8. s \in [whole -> S]
  <2> HIDE DEF s, before
  <2> QED
    BY <1>6, <1>7
<1>9. ASSUME NEW j \in whole, NEW k \in whole, j < k PROVE <<s[j], s[k]>> \in ahead
  <2>1. j \in Int /\ k \in Int
    BY <1>1
  <2> HIDE DEF s, before, whole
  <2>2. /\ s[j] \in S /\ s[k] \in S
        /\ Cardinality(before(s[j])) = j - 1 /\ Cardinality(before(s[k])) = k - 1
    BY <1>7
  <2>3. s[j] # s[k]
    BY <1>9, <2>1, <2>2
  <2>4. <<s[j], s[k]>> \in ahead \/ <<s[k], s[j]>> \in ahead
    BY <2>2, <2>3 DEF Orders
  <2>5. CASE <<s[k], s[j]>> \in ahead
    BY <1>3, <1>9, <2>1, <2>2, <2>5
  <2> QED
    BY <2>4, <2>5
<1>10. ASSUME NEW x \in S PROVE \E k \in whole : s[k] = x
  <2> DEFINE k == Cardinality(before(x)) + 1
  <2>1. k \in whole /\ Cardinality(before(x)) = k - 1
    <3>1. Cardinality(before(x)) \in Nat /\ k \in whole
      BY <1>2
    <3> HIDE DEF before, whole
    <3> QED
      BY <3>1
  <2> HIDE DEF k, s, before, whole
  <2>2. s[k] = x
    BY <1>4, <1>7, <2>1
  <2> QED
    BY <2>1, <2>2
<1> HIDE DEF s
<1> QED
  BY <1>1, <1>8, <1>9, <1>10 DEF SortedBy, s

-----------------------------------------------------------------------------
(* Families of pending transactions. *)

\* In txs parents come before their children, and nothing comes twice.
InPoolOrder(txs) ==
  /\ \A i, j \in DOMAIN txs : txs[i] = txs[j] => i = j
  /\ \A i \in DOMAIN txs : \A p \in Parents(txs[i], Range(txs)) : \E j \in 1..(i - 1) : txs[j] = p

(* The ancestors of t have t and all their parents, and are the least such *)
(* set.                                                                    *)
LEMMA AncestorsAre ==
  ASSUME NEW C, NEW t \in C
  PROVE  /\ t \in Ancestors(t, C) /\ Ancestors(t, C) \subseteq C
         /\ \A a \in Ancestors(t, C) : Parents(a, C) \subseteq Ancestors(t, C)
         /\ \A S \in SUBSET C :
              t \in S /\ (\A a \in S : Parents(a, C) \subseteq S) => Ancestors(t, C) \subseteq S
<1> DEFINE closed(S) == \A a \in S : Parents(a, C) \subseteq S
           families == {S \in SUBSET C : t \in S /\ closed(S)}
           A == Ancestors(t, C)
<1>1. A = {a \in C : \A S \in families : a \in S}
  <2>1. \A S \in SUBSET C : (\A s \in S : [x \in C |-> Parents(x, C)][s] \subseteq S) <=> closed(S)
    OBVIOUS
  <2> QED
    BY <2>1 DEF Ancestors
<1>2. ASSUME NEW a \in A, NEW p \in Parents(a, C) PROVE p \in A
  <2>1. a \in C /\ p \in C
    BY <1>1 DEF Parents
  <2>2. ASSUME NEW S \in families PROVE p \in S
    BY <1>1
  <2> QED
    BY <1>1, <2>1, <2>2
<1> HIDE DEF A
<1> QED
  BY <1>1, <1>2 DEF A

(* A parent has fewer ancestors than its child.                            *)
LEMMA Generations ==
  ASSUME NEW T, NEW txs \in Seq(T), InPoolOrder(txs),
         NEW t \in Range(txs), NEW p \in Parents(t, Range(txs))
  PROVE  Cardinality(Ancestors(p, Range(txs))) < Cardinality(Ancestors(t, Range(txs)))
<1> DEFINE C == Range(txs)
           A == Ancestors(t, C)
           B == Ancestors(p, C)
<1>1. /\ DOMAIN txs = 1..Len(txs) /\ Len(txs) \in Nat /\ p \in C
      /\ C = {txs[i] : i \in 1..Len(txs)}
  BY DEF Parents, Range
<1>2. PICK i \in 1..Len(txs) : txs[i] = t
  BY <1>1
<1>3. PICK j \in 1..(i - 1) : txs[j] = p
  BY <1>1, <1>2 DEF InPoolOrder
<1> DEFINE upTo == {txs[k] : k \in 1..j}
<1>4. upTo \in SUBSET C /\ p \in upTo
  BY <1>1, <1>2, <1>3
<1>5. ASSUME NEW a \in upTo, NEW q \in Parents(a, C) PROVE q \in upTo
  <2>1. PICK k \in 1..j : txs[k] = a
    OBVIOUS
  <2>2. k \in DOMAIN txs
    BY <1>1, <1>2, <1>3
  <2>3. PICK m \in 1..(k - 1) : txs[m] = q
    BY <2>1, <2>2 DEF InPoolOrder
  <2>4. m \in 1..j
    BY <1>2, <1>3
  <2> QED
    BY <2>3, <2>4
<1>6. t \notin upTo
  <2> SUFFICES ASSUME t \in upTo PROVE FALSE
    OBVIOUS
  <2>1. PICK k \in 1..j : txs[k] = t
    OBVIOUS
  <2>2. k \in DOMAIN txs /\ k # i
    BY <1>1, <1>2, <1>3
  <2> QED
    BY <1>1, <1>2, <2>1, <2>2 DEF InPoolOrder
<1> HIDE DEF A, B, upTo, C
<1>7. B \subseteq upTo /\ B \subseteq C
  <2>1. \A a \in upTo : Parents(a, C) \subseteq upTo
    BY <1>5
  <2> QED
    BY <1>1, <1>4, <2>1, AncestorsAre DEF B
<1>8. t \in A /\ p \in A /\ A \subseteq C /\ \A a \in A : Parents(a, C) \subseteq A
  <2>1. t \in C
    BY DEF C
  <2>2. t \in A /\ A \subseteq C /\ \A a \in A : Parents(a, C) \subseteq A
    BY <2>1, AncestorsAre DEF A
  <2>3. p \in Parents(t, C)
    BY DEF C
  <2> QED
    BY <2>2, <2>3
<1>9. B \in SUBSET A
  BY <1>1, <1>8, AncestorsAre DEF B
<1>10. IsFiniteSet(C)
  <2>1. IsFiniteSet(1..Len(txs))
    <3>1. 1 \in Int /\ Len(txs) \in Int
      BY <1>1
    <3> QED
      BY <3>1, FS_Interval
  <2>2. txs \in Surjection(1..Len(txs), C)
    BY <1>1 DEF Surjection
  <2> QED
    BY <2>1, <2>2, FS_Surjection
<1>11. IsFiniteSet(A)
  BY <1>8, <1>10, FS_Subset
<1>12. Cardinality(B) <= Cardinality(A) /\ Cardinality(B) # Cardinality(A) /\ IsFiniteSet(B)
  BY <1>6, <1>7, <1>8, <1>9, <1>11, FS_Subset
<1>13. Cardinality(A) \in Nat /\ Cardinality(B) \in Nat
  BY <1>11, <1>12, FS_CardinalityType
<1> QED
  BY <1>12, <1>13 DEF A, B, C

(* ParentsFirst has the members of S once, a parent before its child.      *)
LEMMA ParentsComeFirst ==
  ASSUME NEW T, NEW txs \in Seq(T), InPoolOrder(txs), NEW S \in SUBSET Range(txs)
  PROVE  LET f == ParentsFirst(S, txs)
         IN  /\ f \in Seq(T) /\ Range(f) = S
             /\ \A j, k \in DOMAIN f : f[j] = f[k] => j = k
             /\ \A k \in DOMAIN f : \A p \in Parents(f[k], Range(txs)) \cap S :
                  \E j \in 1..(k - 1) : f[j] = p
<1> DEFINE C == Range(txs)
           gen(i) == Cardinality(Ancestors(txs[i], C))
           I == {i \in DOMAIN txs : txs[i] \in S}
           place(i) == [at |-> i, generation |-> gen(i)]
           places == {place(i) : i \in I}
           before == {p \in places \X places :
                        \/ p[1].generation < p[2].generation
                        \/ p[1].generation = p[2].generation /\ p[1].at < p[2].at}
           order == InOrder(places, before)
           n == Cardinality(places)
           f == ParentsFirst(S, txs)
<1>1. DOMAIN txs = 1..Len(txs) /\ Len(txs) \in Nat /\ I \in SUBSET (1..Len(txs))
  OBVIOUS
<1>2. IsFiniteSet(1..Len(txs))
  <2>1. 1 \in Int /\ Len(txs) \in Int
    BY <1>1
  <2> QED
    BY <2>1, FS_Interval
<1>3. IsFiniteSet(C)
  <2>1. txs \in Surjection(1..Len(txs), C)
    BY <1>1 DEF Surjection, Range
  <2> QED
    BY <1>2, <2>1, FS_Surjection
<1>4. ASSUME NEW i \in I PROVE gen(i) \in Nat /\ i \in Int /\ txs[i] \in C
  <2>1. txs[i] \in C
    BY DEF Range
  <2> HIDE DEF C, I
  <2>2. Ancestors(txs[i], C) \in SUBSET C
    BY <2>1, AncestorsAre
  <2>3. IsFiniteSet(Ancestors(txs[i], C))
    BY <1>3, <2>2, FS_Subset
  <2> QED
    BY <1>1, <2>1, <2>3, FS_CardinalityType
<1>5. IsFiniteSet(places)
  <2> DEFINE g == [i \in I |-> place(i)]
  <2>1. IsFiniteSet(I)
    <3> HIDE DEF I
    <3> QED
      BY <1>1, <1>2, FS_Subset
  <2>2. g \in Surjection(I, places)
    BY DEF Surjection
  <2> HIDE DEF g, I, places
  <2> QED
    BY <2>1, <2>2, FS_Surjection
<1> HIDE DEF gen, I, C
<1>6. \A x \in places : x.at \in I /\ x.generation = gen(x.at) /\ x = place(x.at)
                        /\ x.at \in Int /\ x.generation \in Int
  BY <1>4
<1>7. \A x, y \in places : <<x, y>> \in before <=>
        x.generation < y.generation \/ (x.generation = y.generation /\ x.at < y.at)
  OBVIOUS
<1>8. Orders(before, places)
  <2> HIDE DEF before, places
  <2>1. ASSUME NEW x \in places, NEW y \in places, x # y
        PROVE  <<x, y>> \in before \/ <<y, x>> \in before
    <3>1. x.at # y.at
      BY <1>6, <2>1
    <3>2. /\ x.at \in Int /\ x.generation \in Int
          /\ y.at \in Int /\ y.generation \in Int
      BY <1>6
    <3>3. \/ x.generation < y.generation \/ y.generation < x.generation
          \/ x.generation = y.generation /\ (x.at < y.at \/ y.at < x.at)
      BY <3>1, <3>2
    <3> QED
      BY <1>7, <3>3
  <2>2. ASSUME NEW x \in places PROVE <<x, x>> \notin before
    BY <1>6, <1>7
  <2>3. ASSUME NEW x \in places, NEW y \in places, NEW z \in places,
               <<x, y>> \in before, <<y, z>> \in before
        PROVE  <<x, z>> \in before
    <3>1. /\ x.at \in Int /\ x.generation \in Int
          /\ y.at \in Int /\ y.generation \in Int
          /\ z.at \in Int /\ z.generation \in Int
      BY <1>6
    <3>2. /\ x.generation < y.generation \/ (x.generation = y.generation /\ x.at < y.at)
          /\ y.generation < z.generation \/ (y.generation = z.generation /\ y.at < z.at)
      BY <1>7, <2>3
    <3>3. x.generation < z.generation \/ (x.generation = z.generation /\ x.at < z.at)
      BY <3>1, <3>2
    <3> QED
      BY <1>7, <3>3
  <2> QED
    BY <2>1, <2>2, <2>3 DEF Orders
<1>9. n \in Nat /\ SortedBy(order, places, before)
  <2> HIDE DEF before, places
  <2> QED
    BY <1>5, <1>8, Sorts
<1>10. f = [k \in DOMAIN order |-> txs[order[k].at]]
  BY DEF ParentsFirst, I, C, gen
<1> HIDE DEF before, places, order, n, f, place
<1>11. DOMAIN order = 1..n /\ \A k \in 1..n : order[k] \in places
  BY <1>9 DEF SortedBy, n
<1>12. /\ f \in [1..n -> S] /\ DOMAIN f = 1..n
       /\ \A k \in 1..n : f[k] = txs[order[k].at] /\ order[k].at \in 1..Len(txs)
  <2>1. \A k \in 1..n : order[k].at \in I
    BY <1>6, <1>11
  <2>2. \A i \in I : txs[i] \in S
    BY DEF I
  <2> QED
    BY <1>1, <1>10, <1>11, <2>1, <2>2
<1>13. f \in Seq(T)
  <2>1. \A k \in 1..n : f[k] \in T
    BY <1>1, <1>12
  <2> QED
    BY <1>9, <1>12, <2>1
<1>14. Range(f) = S
  <2>1. ASSUME NEW t \in S PROVE \E k \in 1..n : f[k] = t
    <3>1. PICK i \in 1..Len(txs) : txs[i] = t
      BY <1>1 DEF Range
    <3>2. i \in I
      BY <1>1, <3>1 DEF I
    <3>3. place(i) \in places /\ place(i).at = i
      BY <3>2 DEF places, place
    <3>4. PICK k \in 1..n : order[k] = place(i)
      BY <1>9, <3>3 DEF SortedBy, n
    <3> QED
      BY <1>12, <3>1, <3>3, <3>4
  <2> QED
    BY <1>12, <2>1 DEF Range
<1>15. ASSUME NEW j \in 1..n, NEW k \in 1..n, f[j] = f[k] PROVE j = k
  <2> SUFFICES ASSUME j # k PROVE FALSE
    OBVIOUS
  <2>1. order[j].at = order[k].at
    BY <1>1, <1>12, <1>15 DEF InPoolOrder
  <2>2. order[j] = order[k]
    BY <1>6, <1>11, <2>1
  <2>3. j < k \/ k < j
    BY <1>9
  <2>4. <<order[j], order[k]>> \in before \/ <<order[k], order[j]>> \in before
    BY <1>9, <2>3 DEF SortedBy, n
  <2> QED
    BY <1>8, <1>11, <2>2, <2>4 DEF Orders
<1>16. ASSUME NEW k \in 1..n, NEW p \in Parents(f[k], C) \cap S
       PROVE  \E j \in 1..(k - 1) : f[j] = p
  <2>1. PICK j \in 1..n : f[j] = p
    BY <1>12, <1>14 DEF Range
  <2>2. f[k] \in C
    BY <1>12 DEF C
  <2>3. Cardinality(Ancestors(p, C)) < Cardinality(Ancestors(f[k], C))
    BY <2>2, Generations DEF C
  <2>4. gen(order[j].at) < gen(order[k].at)
    BY <1>12, <2>1, <2>3 DEF gen
  <2>5. /\ order[j].generation < order[k].generation
        /\ order[j].generation \in Int /\ order[k].generation \in Int
    BY <1>6, <1>11, <2>4
  <2>6. ~ (<<order[k], order[j]>> \in before)
    BY <1>7, <1>11, <2>5
  <2>7. ~ (k < j) /\ k # j
    BY <1>9, <2>5, <2>6 DEF SortedBy, n
  <2> QED
    BY <1>9, <2>1, <2>7
<1> QED
  BY <1>12, <1>13, <1>14, <1>15, <1>16 DEF f, C

-----------------------------------------------------------------------------
(* Rates. *)

(* Products with a positive number are as their factors.                   *)
LEMMA Scaled ==
  ASSUME NEW x \in Int, NEW y \in Int, NEW s \in Nat \ {0}
  PROVE  x * s \in Int /\ y * s \in Int /\ (x < y <=> x * s < y * s)
<1>1. ASSUME NEW a \in Int, NEW b \in Int, a < b PROVE a * s < b * s
  <2>1. (b - a) \in Nat \ {0}
    BY <1>1
  <2>2. (b - a) * s >= 1
    BY <2>1, Positive
  <2>3. (b - a) * s = b * s - a * s
    OBVIOUS
  <2>4. a * s \in Int /\ b * s \in Int
    OBVIOUS
  <2> QED
    BY <2>2, <2>3, <2>4
<1>2. CASE x < y
  BY <1>1, <1>2
<1>3. CASE y < x
  BY <1>1, <1>3
<1>4. CASE x = y
  BY <1>4
<1> QED
  BY <1>2, <1>3, <1>4

(* Rates compared crosswise are in a line: a better one and one as good.   *)
LEMMA RatesCompare ==
  ASSUME NEW f \in Int, NEW g \in Int, NEW h \in Int,
         NEW r \in Nat \ {0}, NEW s \in Nat \ {0}, NEW t \in Nat \ {0},
         g * r <= f * s, h * s <= g * t
  PROVE  /\ h * r <= f * t
         /\ g * r < f * s \/ h * s < g * t => h * r < f * t
<1>1. /\ f * s \in Int /\ g * r \in Int /\ g * t \in Int /\ h * s \in Int
      /\ h * r \in Int /\ f * t \in Int
  OBVIOUS
<1>2. /\ (g * r) * t = (g * t) * r
      /\ (f * s) * t = (f * t) * s
      /\ (h * s) * r = (h * r) * s
  OBVIOUS
<1>3. (g * r) * t <= (f * s) * t /\ (g * r < f * s => (g * r) * t < (f * s) * t)
  <2> DEFINE a == g * r  b == f * s
  <2>1. a \in Int /\ b \in Int /\ a <= b
    BY <1>1
  <2> HIDE DEF a, b
  <2>2. a * t <= b * t /\ (a < b => a * t < b * t)
    BY <2>1, Scaled
  <2> QED
    BY <2>2 DEF a, b
<1>4. (h * s) * r <= (g * t) * r /\ (h * s < g * t => (h * s) * r < (g * t) * r)
  <2> DEFINE a == h * s  b == g * t
  <2>1. a \in Int /\ b \in Int /\ a <= b
    BY <1>1
  <2> HIDE DEF a, b
  <2>2. a * r <= b * r /\ (a < b => a * r < b * r)
    BY <2>1, Scaled
  <2> QED
    BY <2>2 DEF a, b
<1> DEFINE x == h * r  y == f * t
<1>5. x \in Int /\ y \in Int
  BY <1>1
<1>6. x * s <= y * s /\ (g * r < f * s \/ h * s < g * t => x * s < y * s)
  <2> DEFINE a == (g * r) * t  b == (f * s) * t  c == (h * s) * r
  <2>1. a \in Int /\ b \in Int /\ c \in Int
    OBVIOUS
  <2>2. b = y * s /\ c = x * s /\ a = (g * t) * r
    BY <1>2
  <2>3. a <= b /\ c <= a /\ (g * r < f * s => a < b) /\ (h * s < g * t => c < a)
    BY <1>3, <1>4, <2>2
  <2> HIDE DEF a, b, c, x, y
  <2>4. c <= b /\ (g * r < f * s \/ h * s < g * t => c < b)
    BY <2>1, <2>3
  <2> QED
    BY <2>2, <2>4
<1> HIDE DEF x, y
<1>7. x <= y /\ (g * r < f * s \/ h * s < g * t => x < y)
  <2>1. (x < y <=> x * s < y * s) /\ (y < x <=> y * s < x * s) /\ x * s \in Int /\ y * s \in Int
    BY <1>5, Scaled
  <2>2. ~ (y < x)
    BY <1>6, <2>1
  <2> QED
    BY <1>5, <1>6, <2>1, <2>2
<1> QED
  BY <1>7 DEF x, y

-----------------------------------------------------------------------------
(* Fees from known outputs. *)

\* Outputs of transactions.
FromTxs(outs) == \A o \in outs : \E p \in Tx : o \in Creates(p)

(* A fee is a number, and the fee when all inputs are known.               *)
LEMMA FeeFromIs ==
  ASSUME NEW t \in Tx, NEW known, FromTxs(known)
  PROVE  /\ FeeFrom(t, known) \in Int
         /\ Spends(t) \subseteq known => FeeFrom(t, known) = GetTxFee(t)
<1> DEFINE n == Len(TxIns[t])
           m == Len(TxOuts[t])
           amount(o) == IF o \in known THEN AmountOf(o) ELSE 0
           e == [i \in 1..n |-> amount(TxIns[t][i])]
           f == [i \in 1..n |-> AmountOf(TxIns[t][i])]
           g == [i \in 1..m |-> TxOuts[t][i].amount]
<1>1. /\ DOMAIN TxIns[t] = 1..n /\ n \in Nat /\ DOMAIN TxOuts[t] = 1..m /\ m \in Nat
      /\ 1 \in Int /\ n \in Int /\ m \in Int
  BY TxAssumption
<1>2. IsFiniteSet(1..n) /\ IsFiniteSet(1..m)
  <2> HIDE DEF n, m
  <2> QED
    BY <1>1, FS_Interval
<1>3. FeeFrom(t, known) = SumFunctionOnSet(e, 1..n) - SumFunctionOnSet(g, 1..m)
  BY <1>1 DEF FeeFrom, SumFunction
<1>4. GetTxFee(t) = SumFunctionOnSet(f, 1..n) - SumFunctionOnSet(g, 1..m)
  BY <1>1 DEF GetTxFee, SumFunction
<1>5. ASSUME NEW i \in 1..n PROVE e[i] \in Int
  <2>1. CASE TxIns[t][i] \in known
    <3>1. PICK p \in Tx : TxIns[t][i] \in Creates(p)
      BY <2>1 DEF FromTxs
    <3>2. AmountOf(TxIns[t][i]) \in Nat
      BY <3>1, AmountType
    <3> QED
      BY <2>1, <3>2
  <2>2. CASE TxIns[t][i] \notin known
    BY <2>2
  <2> QED
    BY <2>1, <2>2
<1>6. \A i \in 1..m : g[i] \in Int
  <2> SUFFICES ASSUME NEW i \in 1..m PROVE g[i] \in Int
    OBVIOUS
  <2>1. TxOuts[t][i].amount \in Nat
    BY <1>1, OutputType
  <2> QED
    BY <2>1
<1>7. Spends(t) \subseteq known => \A i \in 1..n : e[i] = f[i]
  BY <1>1 DEF Spends, Range
<1> HIDE DEF e, f, g, n, m
<1>8. SumFunctionOnSet(e, 1..n) \in Int /\ SumFunctionOnSet(g, 1..m) \in Int
  BY <1>2, <1>5, <1>6, SumType
<1>9. Spends(t) \subseteq known => SumFunctionOnSet(e, 1..n) = SumFunctionOnSet(f, 1..n)
  BY <1>2, <1>7, SumSame
<1> QED
  BY <1>3, <1>4, <1>8, <1>9

(* Sizes together are a size.                                              *)
LEMMA SizesAdd ==
  ASSUME NEW S \in SUBSET Tx, IsFiniteSet(S), S # {}
  PROVE  SumFunction([a \in S |-> TxSize[a]]) \in Nat \ {0}
<1> DEFINE f == [a \in S |-> TxSize[a]]
<1>1. \A a \in S : f[a] \in Nat \ {0}
  BY TxAssumption
<1>2. PICK a \in S : TRUE
  OBVIOUS
<1>3. SumFunction(f) = SumFunctionOnSet(f, S)
  BY DEF SumFunction
<1> HIDE DEF f
<1>4. IsFiniteSet(S \ {a})
  BY FS_RemoveElement
<1>5. SumFunctionOnSet(f, S \ {a}) \in Nat
  BY <1>1, <1>4, SumType
<1>6. SumFunctionOnSet(f, S) = f[a] + SumFunctionOnSet(f, S \ {a})
  BY <1>1, SumRemove
<1> QED
  BY <1>1, <1>2, <1>3, <1>5, <1>6 DEF f

(* The candidates in the order of their packages are candidates.           *)
LEMMA RatePlaces ==
  ASSUME NEW txs \in Seq(Tx), NEW U, FromTxs(Outs(U)), NEW k \in DOMAIN txs
  PROVE  ByPackageRate(txs, U)[k] \in Range(txs)
<1> DEFINE C == Range(txs)
           known == Outs(U) \cup CreatedBy(txs)
           package(i) == Ancestors(txs[i], C)
           fee(i) == SumFunction([a \in package(i) |-> FeeFrom(a, known)])
           size(i) == SumFunction([a \in package(i) |-> TxSize[a]])
           score(i) == [at |-> i, fee |-> fee(i), size |-> size(i)]
           n == Len(txs)
           scored == {score(i) : i \in 1..n}
           ahead == {p \in scored \X scored :
                       LET a == p[1]  b == p[2]
                       IN  \/ a.fee * b.size > b.fee * a.size
                           \/ a.fee * b.size = b.fee * a.size /\ a.at < b.at}
           order == InOrder(scored, ahead)
<1>1. DOMAIN txs = 1..n /\ n \in Nat /\ C \in SUBSET Tx
  BY DEF Range
<1>2. IsFiniteSet(1..n) /\ Cardinality(1..n) = n
  <2>1. 1 \in Int /\ n \in Int
    BY <1>1
  <2> HIDE DEF n
  <2> QED
    BY <1>1, <2>1, FS_Interval
<1>3. IsFiniteSet(C)
  <2>1. txs \in Surjection(1..n, C)
    BY <1>1 DEF Surjection, Range
  <2> QED
    BY <1>2, <2>1, FS_Surjection
<1>4. FromTxs(known)
  <2>1. \A o \in CreatedBy(txs) : \E p \in Tx : o \in Creates(p)
    BY Maker
  <2> QED
    BY <2>1 DEF FromTxs
<1>5. ASSUME NEW i \in 1..n
      PROVE  package(i) \in SUBSET Tx /\ IsFiniteSet(package(i)) /\ package(i) # {}
  <2>1. txs[i] \in C
    BY <1>1 DEF Range
  <2> HIDE DEF C
  <2>2. txs[i] \in package(i) /\ package(i) \in SUBSET C
    BY <2>1, AncestorsAre
  <2> HIDE DEF package
  <2> QED
    BY <1>1, <1>3, <2>2, FS_Subset
<1>6. ASSUME NEW i \in 1..n PROVE fee(i) \in Int /\ size(i) \in Nat \ {0}
  <2> DEFINE S == package(i)
             f == [a \in S |-> FeeFrom(a, known)]
  <2>1. S \in SUBSET Tx /\ IsFiniteSet(S) /\ S # {}
    BY <1>5
  <2> HIDE DEF package, known, S
  <2>2. \A a \in S : f[a] \in Int
    BY <1>4, <2>1, FeeFromIs
  <2>3. SumFunction(f) = SumFunctionOnSet(f, S)
    BY DEF SumFunction
  <2> HIDE DEF f
  <2>4. SumFunction(f) \in Int
    BY <2>1, <2>2, <2>3, SumType
  <2>5. SumFunction([a \in S |-> TxSize[a]]) \in Nat \ {0}
    BY <2>1, SizesAdd
  <2> QED
    BY <2>4, <2>5 DEF f, S
<1> HIDE DEF fee, size
<1>7. \A x \in scored : /\ x.at \in 1..n /\ x = score(x.at) /\ x.at \in Int
                        /\ x.fee \in Int /\ x.size \in Nat \ {0}
  BY <1>6
<1>8. IsFiniteSet(scored) /\ Cardinality(scored) = n
  <2> DEFINE g == [i \in 1..n |-> score(i)]
  <2>1. g \in Surjection(1..n, scored)
    BY DEF Surjection
  <2>2. \A i, j \in 1..n : g[i] = g[j] => i = j
    <3>1. \A i \in 1..n : g[i].at = i
      OBVIOUS
    <3> HIDE DEF g
    <3> QED
      BY <3>1
  <2> HIDE DEF g, scored
  <2>3. g \in Injection(1..n, scored)
    BY <2>1, <2>2 DEF Injection, Surjection, IsInjective
  <2> QED
    BY <1>2, <2>1, <2>3, FS_Surjection
<1>9. \A x, y \in scored : <<x, y>> \in ahead <=>
        y.fee * x.size < x.fee * y.size \/ (x.fee * y.size = y.fee * x.size /\ x.at < y.at)
  <2> SUFFICES ASSUME NEW x \in scored, NEW y \in scored
               PROVE  <<x, y>> \in ahead <=>
                        y.fee * x.size < x.fee * y.size
                          \/ (x.fee * y.size = y.fee * x.size /\ x.at < y.at)
    OBVIOUS
  <2>1. <<x, y>> \in ahead <=>
          x.fee * y.size > y.fee * x.size \/ (x.fee * y.size = y.fee * x.size /\ x.at < y.at)
    OBVIOUS
  <2>2. x.fee * y.size \in Int /\ y.fee * x.size \in Int
    <3> DEFINE f == x.fee  g == y.fee  r == x.size  s == y.size
    <3>1. f \in Int /\ g \in Int /\ r \in Int /\ s \in Int
      BY <1>7
    <3> HIDE DEF f, g, r, s
    <3>2. f * s \in Int /\ g * r \in Int
      BY <3>1
    <3> QED
      BY <3>2 DEF f, g, r, s
  <2> HIDE DEF ahead, scored
  <2> QED
    BY <2>1, <2>2
<1> HIDE DEF ahead, scored
<1>10. Orders(ahead, scored)
  <2>1. ASSUME NEW x \in scored, NEW y \in scored, x # y
        PROVE  <<x, y>> \in ahead \/ <<y, x>> \in ahead
    <3> DEFINE a == x.fee * y.size  b == y.fee * x.size
    <3>1. x.at # y.at /\ x.at \in Int /\ y.at \in Int
      BY <1>7, <2>1
    <3>2. a \in Int /\ b \in Int
      <4> DEFINE f == x.fee  g == y.fee  r == x.size  s == y.size
      <4>1. f \in Int /\ g \in Int /\ r \in Int /\ s \in Int
        BY <1>7
      <4> HIDE DEF f, g, r, s
      <4>2. f * s \in Int /\ g * r \in Int
        BY <4>1
      <4> QED
        BY <4>2 DEF f, g, r, s
    <3>3. /\ <<x, y>> \in ahead <=> b < a \/ (a = b /\ x.at < y.at)
          /\ <<y, x>> \in ahead <=> a < b \/ (b = a /\ y.at < x.at)
      BY <1>9
    <3> HIDE DEF a, b
    <3> QED
      BY <3>1, <3>2, <3>3
  <2>2. ASSUME NEW x \in scored PROVE <<x, x>> \notin ahead
    <3> DEFINE a == x.fee * x.size
    <3>1. a \in Int /\ x.at \in Int
      <4> DEFINE f == x.fee  r == x.size
      <4>1. f \in Int /\ r \in Int
        BY <1>7
      <4> HIDE DEF f, r
      <4>2. f * r \in Int
        BY <4>1
      <4> QED
        BY <1>7, <4>2 DEF f, r
    <3>2. <<x, x>> \in ahead <=> a < a \/ (a = a /\ x.at < x.at)
      BY <1>9
    <3> HIDE DEF a
    <3> QED
      BY <3>1, <3>2
  <2>3. ASSUME NEW x \in scored, NEW y \in scored, NEW z \in scored,
               <<x, y>> \in ahead, <<y, z>> \in ahead
        PROVE  <<x, z>> \in ahead
    <3> DEFINE f == x.fee  g == y.fee  h == z.fee
               r == x.size  s == y.size  t == z.size
    <3>1. /\ f \in Int /\ g \in Int /\ h \in Int
          /\ r \in Nat \ {0} /\ s \in Nat \ {0} /\ t \in Nat \ {0}
          /\ x.at \in Int /\ y.at \in Int /\ z.at \in Int
      BY <1>7
    <3>2. /\ g * r < f * s \/ (f * s = g * r /\ x.at < y.at)
          /\ h * s < g * t \/ (g * t = h * s /\ y.at < z.at)
          /\ <<x, z>> \in ahead <=> h * r < f * t \/ (f * t = h * r /\ x.at < z.at)
      BY <1>9, <2>3
    <3> HIDE DEF f, g, h, r, s, t
    <3>3. /\ g * r \in Int /\ f * s \in Int /\ h * s \in Int /\ g * t \in Int
          /\ h * r \in Int /\ f * t \in Int
      BY <3>1
    <3>4. g * r <= f * s /\ h * s <= g * t
      BY <3>2, <3>3
    <3>5. h * r <= f * t /\ (g * r < f * s \/ h * s < g * t => h * r < f * t)
      BY <3>1, <3>4, RatesCompare
    <3>6. CASE g * r < f * s \/ h * s < g * t
      BY <3>2, <3>5, <3>6
    <3>7. CASE x.at < y.at /\ y.at < z.at
      <4>1. x.at < z.at
        BY <3>1, <3>7
      <4>2. h * r < f * t \/ f * t = h * r
        BY <3>3, <3>5
      <4> QED
        BY <3>2, <4>1, <4>2
    <3> QED
      BY <3>2, <3>6, <3>7
  <2> QED
    BY <2>1, <2>2, <2>3 DEF Orders
<1>11. SortedBy(order, scored, ahead)
  BY <1>8, <1>10, Sorts
<1>12. order[k] \in scored
  BY <1>1, <1>8, <1>11 DEF SortedBy
<1>13. ByPackageRate(txs, U)[k] = txs[order[k].at]
  <2>1. scored = {score(i) : i \in DOMAIN txs}
    BY <1>1 DEF scored
  <2> QED
    BY <2>1 DEF ByPackageRate, order, ahead, scored, fee, size
<1> HIDE DEF order
<1>14. order[k].at \in DOMAIN txs
  BY <1>1, <1>7, <1>12
<1> QED
  BY <1>13, <1>14 DEF Range

-----------------------------------------------------------------------------
(* Selection. *)

\* s has transactions of txs, none twice, each after all its parents.
Packed(s, txs) ==
  /\ \A j, k \in DOMAIN s : s[j] = s[k] => j = k
  /\ Range(s) \subseteq Range(txs)
  /\ \A k \in DOMAIN s : \A p \in Parents(s[k], Range(txs)) : \E j \in 1..(k - 1) : s[j] = p

Fits(s, maxTxs, maxBytes) == Len(s) <= maxTxs /\ PoolBytes(s) <= maxBytes

(* A transaction that is taken comes with all its ancestors, in order.     *)
LEMMA TakeKeeps ==
  ASSUME NEW txs \in Seq(Tx), InPoolOrder(txs), NEW s \in Seq(Tx), Packed(s, txs),
         NEW t \in Range(txs), NEW m, NEW b, Fits(s, m, b)
  PROVE  LET r == Take(s, t, txs, m, b)
         IN  r \in Seq(Tx) /\ Packed(r, txs) /\ Fits(r, m, b)
<1> DEFINE C == Range(txs)
           A == Ancestors(t, C)
           S == A \ Range(s)
           f == ParentsFirst(S, txs)
           more == s \o f
           r == Take(s, t, txs, m, b)
           n == Len(s)
<1>1. A \subseteq C /\ \A a \in A : Parents(a, C) \subseteq A
  <2>1. t \in C
    OBVIOUS
  <2> HIDE DEF C
  <2> QED
    BY <2>1, AncestorsAre
<1>2. S \in SUBSET C /\ S \subseteq A
  BY <1>1
<1> HIDE DEF A, S, C
<1>3. /\ f \in Seq(Tx) /\ Range(f) = S
      /\ \A j, k \in DOMAIN f : f[j] = f[k] => j = k
      /\ \A k \in DOMAIN f : \A p \in Parents(f[k], C) \cap S : \E j \in 1..(k - 1) : f[j] = p
  <2>1. S \in SUBSET Range(txs)
    BY <1>2 DEF C
  <2> QED
    BY <2>1, ParentsComeFirst DEF C
<1>4. r = IF Len(more) <= m /\ PoolBytes(more) <= b THEN more ELSE s
  BY DEF Take, S, A, C
<1> HIDE DEF f, r
<1>5. /\ more \in Seq(Tx) /\ Len(more) = n + Len(f) /\ n \in Nat /\ Len(f) \in Nat
      /\ DOMAIN more = 1..(n + Len(f)) /\ DOMAIN s = 1..n /\ DOMAIN f = 1..Len(f)
      /\ \A k \in 1..n : more[k] = s[k]
      /\ \A k \in (n + 1)..(n + Len(f)) : more[k] = f[k - n] /\ k - n \in 1..Len(f)
  BY <1>3
<1> HIDE DEF more, n
<1>6. \A k \in 1..(n + Len(f)) : k \in 1..n \/ k \in (n + 1)..(n + Len(f))
  BY <1>5
<1>7. ASSUME NEW k \in 1..n PROVE more[k] = s[k] /\ more[k] \in Range(s)
  BY <1>5 DEF Range
<1>8. ASSUME NEW k \in (n + 1)..(n + Len(f))
      PROVE  more[k] = f[k - n] /\ k - n \in 1..Len(f) /\ more[k] \in S /\ more[k] \notin Range(s)
  <2>1. f[k - n] \in Range(f)
    BY <1>5 DEF Range
  <2> QED
    BY <1>3, <1>5, <2>1 DEF S
<1>9. ASSUME NEW j \in DOMAIN more, NEW k \in DOMAIN more, more[j] = more[k] PROVE j = k
  <2>1. /\ j \in 1..n \/ j \in (n + 1)..(n + Len(f))
        /\ k \in 1..n \/ k \in (n + 1)..(n + Len(f))
    BY <1>5, <1>6
  <2>2. CASE j \in 1..n /\ k \in 1..n
    <3>1. s[j] = s[k]
      BY <1>5, <1>9, <2>2
    <3> QED
      BY <1>5, <2>2, <3>1 DEF Packed
  <2>3. CASE j \in (n + 1)..(n + Len(f)) /\ k \in (n + 1)..(n + Len(f))
    <3>1. f[j - n] = f[k - n] /\ j - n \in DOMAIN f /\ k - n \in DOMAIN f
      BY <1>5, <1>9, <2>3
    <3>2. j - n = k - n
      BY <1>3, <3>1
    <3> QED
      BY <1>5, <2>3, <3>2
  <2> QED
    BY <1>7, <1>8, <1>9, <2>1, <2>2, <2>3
<1>10. Range(more) \subseteq C
  <2>1. ASSUME NEW k \in DOMAIN more PROVE more[k] \in C
    BY <1>2, <1>5, <1>6, <1>7, <1>8 DEF Packed, C
  <2> QED
    BY <2>1 DEF Range
<1>11. ASSUME NEW k \in DOMAIN more, NEW p \in Parents(more[k], C)
       PROVE  \E j \in 1..(k - 1) : more[j] = p
  <2>1. CASE k \in 1..n
    <3>1. PICK j \in 1..(k - 1) : s[j] = p
      BY <1>5, <2>1 DEF Packed, C
    <3>2. j \in 1..n
      BY <1>5, <2>1
    <3> QED
      BY <1>5, <3>1, <3>2
  <2>2. CASE k \in (n + 1)..(n + Len(f))
    <3>1. more[k] = f[k - n] /\ k - n \in DOMAIN f /\ p \in A
      BY <1>1, <1>2, <1>5, <1>8, <2>2
    <3>2. CASE p \in Range(s)
      <4>1. PICK j \in 1..n : s[j] = p
        BY <1>5, <3>2 DEF Range
      <4>2. j \in 1..(k - 1)
        BY <1>5, <2>2
      <4> QED
        BY <1>5, <4>1, <4>2
    <3>3. CASE p \notin Range(s)
      <4>1. p \in Parents(f[k - n], C) \cap S
        BY <3>1, <3>3 DEF S
      <4>2. PICK j \in 1..((k - n) - 1) : f[j] = p
        BY <1>3, <3>1, <4>1
      <4>3. n + j \in (n + 1)..(n + Len(f)) /\ (n + j) - n = j /\ n + j \in 1..(k - 1)
        BY <1>5, <2>2
      <4>4. more[n + j] = p
        BY <1>5, <4>2, <4>3
      <4> QED
        BY <4>3, <4>4
    <3> QED
      BY <3>2, <3>3
  <2> QED
    BY <1>5, <1>6, <2>1, <2>2
<1>12. Packed(more, txs)
  BY <1>9, <1>10, <1>11 DEF Packed, C
<1>13. r \in Seq(Tx) /\ Packed(r, txs) /\ Fits(r, m, b)
  BY <1>4, <1>5, <1>12 DEF Fits
<1> QED
  BY <1>13 DEF r

\* What selectTxsForBlock has after each of the first n candidates.
Selecting(order, txs, n, maxTxs, maxBytes) ==
  CHOOSE g : g = [k \in 0..n |->
                    IF k = 0 THEN << >> ELSE Take(g[k - 1], order[k], txs, maxTxs, maxBytes)]
IsSelecting(order, txs, n, maxTxs, maxBytes, g) ==
  g = [k \in 0..n |-> IF k = 0 THEN << >> ELSE Take(g[k - 1], order[k], txs, maxTxs, maxBytes)]

(* It exists for every number of candidates.                               *)
LEMMA SelectingExists ==
  ASSUME NEW order, NEW txs, NEW n \in Nat, NEW m, NEW b
  PROVE  IsSelecting(order, txs, n, m, b, Selecting(order, txs, n, m, b))
<1> DEFINE Bad == {k \in Nat : ~ \E g : IsSelecting(order, txs, k, m, b, g)}
<1>1. Bad = {}
  <2> SUFFICES ASSUME Bad # {} PROVE FALSE
    OBVIOUS
  <2>1. PICK l \in Bad : \A k \in Bad : l <= k
    <3>1. Bad \in SUBSET Nat
      OBVIOUS
    <3> HIDE DEF Bad
    <3> QED
      BY <3>1, LeastNumber
  <2>2. l \in Nat /\ ~ \E g : IsSelecting(order, txs, l, m, b, g)
    OBVIOUS
  <2>3. CASE l = 0
    <3> DEFINE g == [k \in 0..l |-> << >>]
    <3>1. g = [k \in 0..l |-> IF k = 0 THEN << >> ELSE Take(g[k - 1], order[k], txs, m, b)]
      BY <2>3
    <3>2. IsSelecting(order, txs, l, m, b, g)
      BY <3>1 DEF IsSelecting
    <3> QED
      BY <3>2, <2>2
  <2>4. CASE l # 0
    <3>1. l - 1 \in Nat /\ l - 1 \notin Bad
      <4>1. l - 1 \in Nat /\ ~ (l <= l - 1)
        BY <2>2, <2>4
      <4> HIDE DEF Bad
      <4> QED
        BY <4>1, <2>1
    <3>2. PICK g : IsSelecting(order, txs, l - 1, m, b, g)
      BY <3>1
    <3> DEFINE h == [k \in 0..l |-> IF k = 0 THEN << >> ELSE Take(g[k - 1], order[k], txs, m, b)]
    <3>3. ASSUME NEW k \in 0..(l - 1) PROVE h[k] = g[k]
      <4>1. k \in 0..l
        BY <2>2
      <4>2. g[k] = IF k = 0 THEN << >> ELSE Take(g[k - 1], order[k], txs, m, b)
        BY <3>2 DEF IsSelecting
      <4> QED
        BY <4>1, <4>2
    <3>4. ASSUME NEW k \in 0..l, k # 0 PROVE h[k - 1] = g[k - 1]
      <4>1. k - 1 \in 0..(l - 1)
        BY <2>2, <3>4
      <4> HIDE DEF h
      <4> QED
        BY <3>3, <4>1
    <3>5. h = [k \in 0..l |-> IF k = 0 THEN << >> ELSE Take(h[k - 1], order[k], txs, m, b)]
      BY <3>4
    <3>6. IsSelecting(order, txs, l, m, b, h)
      <4> HIDE DEF h
      <4> QED
        BY <3>5 DEF IsSelecting
    <3> QED
      BY <3>6, <2>2
  <2> QED
    BY <2>3, <2>4
<1>2. \E g : IsSelecting(order, txs, n, m, b, g)
  BY <1>1
<1> QED
  BY <1>2 DEF IsSelecting, Selecting

(* What is selected can stand in a block: nothing twice, parents first,    *)
(* within the limits.                                                      *)
LEMMA Selected ==
  ASSUME NEW U, FromTxs(Outs(U)), NEW h, CandidateTxs(U, h) \in Seq(Tx),
         InPoolOrder(CandidateTxs(U, h)), NEW m \in Int, NEW b \in Int
  PROVE  LET s == SelectTxsForBlock(U, h, m, b)
         IN  s \in Seq(Tx) /\ Packed(s, CandidateTxs(U, h)) /\ (s = << >> \/ Fits(s, m, b))
<1> DEFINE txs == CandidateTxs(U, h)
           order == ByPackageRate(txs, U)
           n == Len(txs)
           g == Selecting(order, txs, n, m, b)
           s == SelectTxsForBlock(U, h, m, b)
           Good(k) == g[k] \in Seq(Tx) /\ Packed(g[k], txs) /\ Fits(g[k], m, b)
           Bad == {k \in 0..n : ~ Good(k)}
<1>1. s = IF m <= 0 \/ b <= 0 THEN << >> ELSE g[n]
  BY DEF SelectTxsForBlock, Selecting
<1>2. Packed(<< >>, txs) /\ << >> \in Seq(Tx)
  BY DEF Packed, Range
<1> HIDE DEF txs
<1>3. n \in Nat /\ DOMAIN txs = 1..n /\ txs \in Seq(Tx) /\ InPoolOrder(txs)
  BY DEF txs
<1>4. \A k \in 1..n : order[k] \in Range(txs)
  BY <1>3, RatePlaces
<1>5. \A k \in 0..n : g[k] = IF k = 0 THEN << >> ELSE Take(g[k - 1], order[k], txs, m, b)
  <2>1. IsSelecting(order, txs, n, m, b, g)
    BY <1>3, SelectingExists
  <2> HIDE DEF g, order, n
  <2> QED
    BY <2>1 DEF IsSelecting
<1> HIDE DEF g, order, n, s
<1>6. CASE m <= 0 \/ b <= 0
  BY <1>1, <1>2, <1>6 DEF s, txs
<1>7. CASE ~ (m <= 0 \/ b <= 0)
  <2>1. Fits(<< >>, m, b)
    <3>1. << >> \in Seq(Tx) /\ DOMAIN << >> = {} /\ IsFiniteSet({}) /\ Len(<< >>) = 0
      BY FS_EmptySet
    <3>2. PoolBytes(<< >>) = 0
      BY <3>1, SumStep DEF PoolBytes, SumFunction
    <3> QED
      BY <1>7, <3>1, <3>2 DEF Fits
  <2>2. Bad = {}
    <3> SUFFICES ASSUME Bad # {} PROVE FALSE
      OBVIOUS
    <3>1. PICK k \in Bad : \A j \in Bad : k <= j
      <4>1. Bad \in SUBSET Nat
        BY <1>3
      <4> HIDE DEF Bad
      <4> QED
        BY <4>1, LeastNumber
    <3>2. k \in 0..n /\ ~ Good(k)
      OBVIOUS
    <3>3. k # 0
      BY <1>2, <1>5, <2>1, <3>2
    <3>4. k - 1 \in 0..n /\ ~ (k <= k - 1) /\ k \in 1..n
      BY <1>3, <3>2, <3>3
    <3>5. Good(k - 1)
      <4> HIDE DEF Good
      <4>1. k - 1 \notin Bad
        <5> HIDE DEF Bad
        <5> QED
          BY <3>1, <3>4
      <4> QED
        BY <3>4, <4>1
    <3>6. g[k] = Take(g[k - 1], order[k], txs, m, b) /\ order[k] \in Range(txs)
      BY <1>4, <1>5, <3>2, <3>3, <3>4
    <3> DEFINE before == g[k - 1]  t == order[k]
    <3>7. /\ before \in Seq(Tx) /\ Packed(before, txs) /\ Fits(before, m, b)
          /\ t \in Range(txs) /\ g[k] = Take(before, t, txs, m, b)
      BY <3>5, <3>6
    <3> HIDE DEF before, t
    <3>8. Good(k)
      BY <1>3, <3>7, TakeKeeps
    <3> QED
      BY <3>2, <3>8
  <2>3. Good(n)
    <3>1. n \in 0..n
      BY <1>3
    <3> HIDE DEF Good
    <3> QED
      BY <2>2, <3>1
  <2> QED
    BY <1>1, <1>7, <2>3 DEF s, txs
<1> QED
  BY <1>6, <1>7

-----------------------------------------------------------------------------
(* What can be mined. *)

\* The transactions of s pay and are final, none spends what another does,
\* and each spends outputs of U that are spendable or outputs of one before.
Minable(s, U, h, mtp) ==
  /\ \A k \in DOMAIN s : Payer(s[k]) /\ IsFinalTx(s[k], h, mtp)
  /\ \A j, k \in DOMAIN s : j # k => Spends(s[j]) \cap Spends(s[k]) = {}
  /\ \A k \in DOMAIN s : \A o \in Spends(s[k]) :
       ValidateTxIn(o, U, h) \/ \E j \in 1..(k - 1) : o \in Creates(s[j])

(* An output of a pending transaction is not among the unspent ones.       *)
LEMMA NotYetMade ==
  ASSUME ChainInv, PoolInv, NEW p \in Pool, NEW o \in Creates(p)
  PROVE  o \notin Outs(uTxOuts)
<1> SUFFICES ASSUME o \in Outs(uTxOuts) PROVE FALSE
  OBVIOUS
<1>1. uTxOuts = Unspent(blockchain) /\ blockchain \in Seq(Block)
  BY DEF ChainInv, StoreInv, UTxOutsAreUnspent, TypeOK
<1>2. PICK u \in Unspent(blockchain) : u.out = o
  BY <1>1 DEF Outs
<1>3. PICK i \in 1..Len(blockchain) : o \in CreatedBy(blockchain[i].data)
  BY <1>2, UnspentIsMade
<1>4. blockchain[i].data \in Seq(Tx) /\ i \in DOMAIN blockchain
  BY <1>1, BlockFields
<1>5. PICK k \in 1..Len(blockchain[i].data) : blockchain[i].data[k] = o[1]
  BY <1>3, <1>4, Maker
<1>6. p \in Tx
  BY PayerSpends DEF PoolInv, Payer
<1>7. o[1] = p
  BY <1>6, CreatesType
<1>8. p \in Range(blockchain[i].data)
  BY <1>4, <1>5, <1>7 DEF Range
<1> QED
  BY <1>4, <1>8 DEF ChainTxs, PoolInv, PendingNotMined

(* As long as reorganisations leave the pool mature, the candidates of a   *)
(* template are in order and can all be mined: a parent of a candidate is  *)
(* a candidate.                                                            *)
LEMMA CandidatesMinable ==
  ASSUME ChainInv, PoolInv, ParentsAhead, StillMature
  PROVE  LET txs == CandidateTxs(uTxOuts, NextHeight)
         IN  /\ txs \in Seq(Ordinary) /\ InPoolOrder(txs)
             /\ Minable(txs, uTxOuts, NextHeight, TipMedianTime)
<1> DEFINE h == NextHeight
           keep == {t \in Pool : \A u \in uTxOuts : u.out \in Spends(t) => IsSpendable(u, h)}
           txs == Only(mempool, keep)
<1>1. CandidateTxs(uTxOuts, NextHeight) = txs
  BY DEF CandidateTxs
<1>2. mempool \in Seq(Ordinary) /\ \A t \in Pool : Payer(t)
  BY DEF PoolInv, NodeTypeOK, Ordinary
<1>3. txs \in Seq(Ordinary) /\ Range(txs) = Pool \cap keep
  BY <1>2, OnlyPlaces, OnlyRange DEF Pool
<1>4. PICK e : Picks(e, txs, mempool, keep)
  BY <1>2, OnlyPlaces
<1>5. \A t \in keep : t \in Pool /\ \A u \in uTxOuts : u.out \in Spends(t) => IsSpendable(u, h)
  OBVIOUS
<1>6. \A t \in Pool : (\A u \in uTxOuts : u.out \in Spends(t) => IsSpendable(u, h)) => t \in keep
  OBVIOUS
<1> HIDE DEF txs, keep
<1>7. DOMAIN txs = 1..Len(txs) /\ DOMAIN mempool = 1..Len(mempool) /\ Len(txs) \in Nat /\ Len(mempool) \in Nat
  BY <1>2, <1>3
<1>8. ASSUME NEW i \in DOMAIN txs
      PROVE  /\ e[i] \in DOMAIN mempool /\ e[i] \in Int /\ txs[i] = mempool[e[i]]
             /\ txs[i] \in keep /\ txs[i] \in Pool
  <2>1. e[i] \in DOMAIN mempool /\ txs[i] = mempool[e[i]] /\ txs[i] \in keep
    BY <1>4, <1>7 DEF Picks
  <2> QED
    BY <1>5, <1>7, <2>1
<1>9. \A i, j \in DOMAIN txs : i < j => e[i] < e[j]
  BY <1>4, <1>7 DEF Picks
<1>10. ASSUME NEW i \in DOMAIN txs, NEW j \in DOMAIN txs
       PROVE  (i # j => e[i] # e[j]) /\ (e[i] < e[j] => i < j)
  <2>1. e[i] \in Int /\ e[j] \in Int /\ i \in Int /\ j \in Int
    BY <1>7, <1>8
  <2>2. i < j \/ j < i \/ i = j
    BY <2>1
  <2> QED
    BY <1>9, <2>1, <2>2
<1>11. ASSUME NEW i \in DOMAIN mempool, mempool[i] \in keep PROVE \E k \in DOMAIN txs : e[k] = i
  BY <1>4, <1>7, <1>11 DEF Picks
<1>12. \A i, j \in DOMAIN mempool : mempool[i] = mempool[j] => i = j
  BY <1>2, PoolInjective DEF PoolInv
<1>13. ASSUME NEW i \in DOMAIN txs, NEW j \in DOMAIN txs, txs[i] = txs[j] PROVE i = j
  BY <1>8, <1>10, <1>12, <1>13
<1>14. ASSUME NEW i \in DOMAIN txs, NEW o \in Spends(txs[i]), o \notin Outs(uTxOuts)
       PROVE  \E j \in 1..(i - 1) : o \in Creates(txs[j])
  <2>1. PICK m \in 1..(e[i] - 1) : o \in Creates(mempool[m])
    BY <1>8, <1>14 DEF ParentsAhead
  <2> DEFINE p == mempool[m]
  <2>2. m \in DOMAIN mempool /\ m < e[i] /\ p \in Pool
    <3>1. m \in DOMAIN mempool /\ m < e[i]
      BY <1>7, <1>8
    <3> QED
      BY <3>1 DEF Pool, Range
  <2>3. p \in Parents(txs[i], Pool)
    BY <2>1, <2>2 DEF Parents
  <2>4. p \in keep
    <3>1. \A u \in uTxOuts : u.out \in Spends(p) => IsSpendable(u, h)
      BY <1>8, <2>3 DEF StillMature
    <3> QED
      BY <1>6, <2>2, <3>1
  <2>5. PICK k \in DOMAIN txs : e[k] = m
    BY <1>11, <2>2, <2>4
  <2>6. k < i /\ txs[k] = p
    BY <1>8, <1>10, <2>2, <2>5
  <2>7. k \in 1..(i - 1)
    BY <1>7, <2>6
  <2> QED
    BY <2>1, <2>6, <2>7
<1>15. ASSUME NEW i \in DOMAIN txs, NEW p \in Parents(txs[i], Range(txs))
       PROVE  \E j \in 1..(i - 1) : txs[j] = p
  <2>1. PICK o \in Spends(txs[i]) : o \in Creates(p)
    BY DEF Parents
  <2>2. p \in Pool /\ p \in Tx
    BY <1>2, <1>3 DEF Parents, Payer
  <2>3. o \notin Outs(uTxOuts)
    BY <2>1, <2>2, NotYetMade
  <2>4. PICK j \in 1..(i - 1) : o \in Creates(txs[j])
    BY <1>14, <2>3
  <2>5. txs[j] \in Tx
    BY <1>3, <1>7 DEF Ordinary
  <2>6. txs[j] = o[1] /\ p = o[1]
    BY <2>1, <2>2, <2>4, <2>5, CreatesType
  <2> QED
    BY <2>6
<1>16. InPoolOrder(txs)
  BY <1>13, <1>15 DEF InPoolOrder
<1>17. ASSUME NEW i \in DOMAIN txs PROVE Payer(txs[i]) /\ IsFinalTx(txs[i], NextHeight, TipMedianTime)
  BY <1>2, <1>8 DEF StillMature
<1>18. ASSUME NEW i \in DOMAIN txs, NEW j \in DOMAIN txs, i # j
       PROVE  Spends(txs[i]) \cap Spends(txs[j]) = {}
  BY <1>8, <1>10, <1>18 DEF PoolInv, PoolSpendsOnce
<1>19. ASSUME NEW i \in DOMAIN txs, NEW o \in Spends(txs[i]), o \in Outs(uTxOuts)
       PROVE  ValidateTxIn(o, uTxOuts, h)
  <2>1. PICK u \in uTxOuts : u.out = o
    BY <1>19 DEF Outs
  <2>2. IsSpendable(u, h)
    BY <1>5, <1>8, <2>1
  <2> QED
    BY <2>1, <2>2 DEF ValidateTxIn
<1>20. Minable(txs, uTxOuts, NextHeight, TipMedianTime)
  BY <1>14, <1>17, <1>18, <1>19 DEF Minable
<1> QED
  BY <1>1, <1>3, <1>16, <1>20

(* What is selected of them can be mined by itself.                        *)
LEMMA PackedMinable ==
  ASSUME NEW txs \in Seq(Ordinary), NEW U, NEW h, NEW mtp, Minable(txs, U, h, mtp),
         NEW s \in Seq(Tx), Packed(s, txs)
  PROVE  s \in Seq(Ordinary) /\ Minable(s, U, h, mtp)
<1>1. DOMAIN s = 1..Len(s) /\ Len(s) \in Nat /\ DOMAIN txs = 1..Len(txs) /\ Len(txs) \in Nat
  OBVIOUS
<1>2. ASSUME NEW k \in DOMAIN s PROVE \E i \in DOMAIN txs : txs[i] = s[k]
  BY DEF Packed, Range
<1>3. ASSUME NEW k \in DOMAIN s PROVE s[k] \in Ordinary /\ Payer(s[k]) /\ IsFinalTx(s[k], h, mtp)
  <2>1. PICK i \in DOMAIN txs : txs[i] = s[k]
    BY <1>2
  <2> QED
    BY <1>1, <2>1 DEF Minable
<1>4. ASSUME NEW j \in DOMAIN s, NEW k \in DOMAIN s, j # k PROVE Spends(s[j]) \cap Spends(s[k]) = {}
  <2>1. PICK i \in DOMAIN txs : txs[i] = s[j]
    BY <1>2
  <2>2. PICK l \in DOMAIN txs : txs[l] = s[k]
    BY <1>2
  <2>3. i # l
    BY <1>4, <2>1, <2>2 DEF Packed
  <2> QED
    BY <2>1, <2>2, <2>3 DEF Minable
<1>5. ASSUME NEW k \in DOMAIN s, NEW o \in Spends(s[k]), ~ ValidateTxIn(o, U, h)
      PROVE  \E j \in 1..(k - 1) : o \in Creates(s[j])
  <2>1. PICK i \in DOMAIN txs : txs[i] = s[k]
    BY <1>2
  <2>2. PICK l \in 1..(i - 1) : o \in Creates(txs[l])
    BY <1>5, <2>1 DEF Minable
  <2>3. txs[l] \in Range(txs)
    BY <1>1 DEF Range
  <2>4. txs[l] \in Parents(s[k], Range(txs))
    BY <2>2, <2>3 DEF Parents
  <2>5. PICK j \in 1..(k - 1) : s[j] = txs[l]
    BY <2>4 DEF Packed
  <2> QED
    BY <2>2, <2>5
<1>6. s \in Seq(Ordinary)
  BY <1>1, <1>3
<1> QED
  BY <1>3, <1>4, <1>5, <1>6 DEF Minable

-----------------------------------------------------------------------------
(* The block of a template. *)

(* A sum is the same one place further on.                                 *)
LEMMA SumShift ==
  ASSUME NEW n \in Nat, NEW f, NEW g, \A i \in 1..n : f[i] \in Int /\ g[i + 1] = f[i]
  PROVE  SumFunctionOnSet(g, 2..(n + 1)) = SumFunctionOnSet(f, 1..n)
<1> DEFINE h == [i \in 1..n |-> i + 1]
           S == 1..n
<1>1. IsFiniteSet(S)
  <2>1. 1 \in Int /\ n \in Int
    OBVIOUS
  <2> QED
    BY <2>1, FS_Interval
<1>2. \A x \in S : f[x] \in Int /\ f[x] = g[h[x]]
  OBVIOUS
<1>3. \A x, y \in S : h[x] = h[y] => x = y
  OBVIOUS
<1>4. {h[x] : x \in S} = 2..(n + 1)
  <2>1. ASSUME NEW k \in 2..(n + 1) PROVE k - 1 \in S /\ h[k - 1] = k
    OBVIOUS
  <2>2. \A x \in S : h[x] \in 2..(n + 1)
    OBVIOUS
  <2> HIDE DEF h, S
  <2> QED
    BY <2>1, <2>2
<1> HIDE DEF h, S
<1>5. SumFunctionOnSet(g, {h[x] : x \in S}) = SumFunctionOnSet(f, S)
  BY <1>1, <1>2, <1>3, SumRenamed
<1> QED
  BY <1>4, <1>5 DEF S

\* The block of cb and s: its places.
Headed(txs, cb, s) ==
  /\ txs \in Seq(Tx) /\ Len(txs) = Len(s) + 1 /\ txs[1] = cb
  /\ \A k \in 1..Len(s) : txs[k + 1] = s[k]

(* A coinbase ahead of transactions.                                       *)
LEMMA HeadedIs ==
  ASSUME NEW s \in Seq(Tx), NEW cb \in Tx
  PROVE  Headed(<<cb>> \o s, cb, s)
BY DEF Headed

(* Its bytes are those of the coinbase and of the transactions.            *)
LEMMA HeadedBytes ==
  ASSUME NEW s \in Seq(Tx), NEW cb \in Tx, NEW txs, Headed(txs, cb, s)
  PROVE  SumFunction([k \in DOMAIN txs |-> TxSize[txs[k]]]) = TxSize[cb] + PoolBytes(s)
<1> DEFINE n == Len(s)
           f == [k \in 1..n |-> TxSize[s[k]]]
           g == [k \in 1..(n + 1) |-> TxSize[txs[k]]]
           all == 1..(n + 1)
<1>1. n \in Nat /\ DOMAIN s = 1..n /\ DOMAIN txs = 1..(n + 1)
  BY DEF Headed
<1>2. SumFunction([k \in DOMAIN txs |-> TxSize[txs[k]]]) = SumFunctionOnSet(g, all)
  BY <1>1 DEF SumFunction
<1>3. PoolBytes(s) = SumFunctionOnSet(f, 1..n)
  BY <1>1 DEF PoolBytes, SumFunction
<1>4. \A k \in all : g[k] \in Int
  <2> SUFFICES ASSUME NEW k \in all PROVE TxSize[txs[k]] \in Int
    OBVIOUS
  <2>1. txs[k] \in Tx
    BY <1>1 DEF Headed
  <2> QED
    BY <2>1, TxAssumption
<1>5. \A i \in 1..n : f[i] \in Int /\ g[i + 1] = f[i]
  <2> SUFFICES ASSUME NEW i \in 1..n PROVE f[i] \in Int /\ g[i + 1] = f[i]
    OBVIOUS
  <2>1. s[i] \in Tx /\ txs[i + 1] = s[i] /\ i + 1 \in 1..(n + 1)
    BY <1>1 DEF Headed
  <2> QED
    BY <2>1, TxAssumption
<1>6. g[1] = TxSize[cb] /\ 1 \in all /\ all \ {1} = 2..(n + 1)
  BY <1>1 DEF Headed
<1>7. IsFiniteSet(all)
  <2>1. 1 \in Int /\ n + 1 \in Int
    BY <1>1
  <2> HIDE DEF n
  <2> QED
    BY <2>1, FS_Interval
<1> HIDE DEF f, g, n, all
<1>8. SumFunctionOnSet(g, all) = g[1] + SumFunctionOnSet(g, all \ {1})
  BY <1>4, <1>6, <1>7, SumRemove
<1>9. SumFunctionOnSet(g, 2..(n + 1)) = SumFunctionOnSet(f, 1..n)
  BY <1>1, <1>5, SumShift
<1> QED
  BY <1>2, <1>3, <1>6, <1>8, <1>9 DEF n

(* sumBlockFees gives the fees the block rules count: whatever is spent is *)
(* known when its turn comes.                                              *)
LEMMA HeadedFees ==
  ASSUME NEW s \in Seq(Ordinary), NEW cb \in Tx, NEW txs, Headed(txs, cb, s),
         NEW U, FromTxs(Outs(U)), NEW h, NEW mtp, Minable(s, U, h, mtp)
  PROVE  SumFunction([k \in 2..Len(txs) |-> GetTxFee(txs[k])]) = SumBlockFees(s, U)
<1> DEFINE n == Len(s)
           before(k) == SubSeq(s, 1, k - 1)
           known(k) == {o \in Outs(U) \cup CreatedBy(before(k)) : o \notin SpentBy(before(k))}
           e == [k \in 1..n |-> FeeFrom(s[k], known(k))]
           f == [k \in 1..n |-> GetTxFee(s[k])]
           g == [k \in 2..(n + 1) |-> GetTxFee(txs[k])]
<1>1. /\ n \in Nat /\ DOMAIN s = 1..n /\ Len(txs) = n + 1 /\ s \in Seq(Tx)
      /\ \A k \in 1..n : s[k] \in Tx
  BY DEF Headed, Ordinary
<1>2. ASSUME NEW k \in 1..n
      PROVE  /\ before(k) \in Seq(Tx) /\ DOMAIN before(k) = 1..(k - 1)
             /\ \A j \in 1..(k - 1) : before(k)[j] = s[j] /\ j \in 1..n /\ j # k
  <2>1. \A j \in 1..(k - 1) : j \in 1..n /\ j # k /\ s[j] \in Tx
    BY <1>1
  <2> QED
    BY <1>1, <2>1
<1> HIDE DEF before, n
<1>3. ASSUME NEW k \in 1..n PROVE e[k] = f[k] /\ f[k] \in Int
  <2>1. FromTxs(known(k))
    <3>1. \A o \in CreatedBy(before(k)) : \E p \in Tx : o \in Creates(p)
      BY <1>2, Maker
    <3> QED
      BY <3>1 DEF FromTxs
  <2>2. Spends(s[k]) \subseteq known(k)
    <3> SUFFICES ASSUME NEW o \in Spends(s[k]) PROVE o \in known(k)
      OBVIOUS
    <3>1. o \notin SpentBy(before(k))
      <4> SUFFICES ASSUME NEW j \in 1..(k - 1) PROVE o \notin Spends(before(k)[j])
        BY <1>2 DEF SpentBy
      <4>1. Spends(s[j]) \cap Spends(s[k]) = {}
        BY <1>1, <1>2 DEF Minable
      <4> QED
        BY <1>2, <4>1
    <3>2. ValidateTxIn(o, U, h) \/ \E j \in 1..(k - 1) : o \in Creates(s[j])
      BY <1>1 DEF Minable
    <3>3. CASE ValidateTxIn(o, U, h)
      BY <3>1, <3>3 DEF ValidateTxIn, Outs
    <3>4. CASE \E j \in 1..(k - 1) : o \in Creates(s[j])
      <4>1. o \in CreatedBy(before(k))
        BY <1>2, <3>4 DEF CreatedBy
      <4> QED
        BY <3>1, <4>1
    <3> QED
      BY <3>2, <3>3, <3>4
  <2> DEFINE outs == known(k)
  <2>3. FromTxs(outs) /\ Spends(s[k]) \subseteq outs /\ s[k] \in Tx /\ e[k] = FeeFrom(s[k], outs)
    BY <1>1, <2>1, <2>2
  <2> HIDE DEF known, outs, e
  <2>4. e[k] = GetTxFee(s[k]) /\ e[k] \in Int
    BY <2>3, FeeFromIs
  <2> QED
    BY <2>4
<1>4. SumBlockFees(s, U) = SumFunctionOnSet(e, 1..n)
  BY <1>1 DEF SumBlockFees, SumFunction, before, known
<1>5. SumFunction([k \in 2..Len(txs) |-> GetTxFee(txs[k])]) = SumFunctionOnSet(g, 2..(n + 1))
  BY <1>1 DEF SumFunction
<1>6. \A i \in 1..n : f[i] \in Int /\ g[i + 1] = f[i]
  <2> SUFFICES ASSUME NEW i \in 1..n PROVE f[i] \in Int /\ g[i + 1] = f[i]
    OBVIOUS
  <2>1. txs[i + 1] = s[i] /\ i + 1 \in 2..(n + 1)
    BY <1>1 DEF Headed, n
  <2>2. g[i + 1] = GetTxFee(s[i]) /\ f[i] = GetTxFee(s[i])
    BY <2>1
  <2> QED
    BY <1>3, <2>2
<1>7. IsFiniteSet(1..n)
  <2>1. 1 \in Int /\ n \in Int
    BY <1>1
  <2> QED
    BY <2>1, FS_Interval
<1> HIDE DEF e, f, g
<1>8. SumFunctionOnSet(e, 1..n) = SumFunctionOnSet(f, 1..n)
  BY <1>3, <1>7, SumSame
<1>9. SumFunctionOnSet(g, 2..(n + 1)) = SumFunctionOnSet(f, 1..n)
  BY <1>1, <1>6, SumShift
<1> QED
  BY <1>4, <1>5, <1>8, <1>9

(* Its transactions validate one after the other.                          *)
LEMMA HeadedValid ==
  ASSUME NEW s \in Seq(Ordinary), NEW cb \in Tx, NEW txs, Headed(txs, cb, s),
         NEW U, NEW h, NEW mtp, Minable(s, U, h, mtp), NEW k \in 2..Len(txs)
  PROVE  ValidateTx(txs[k], SeenBy(k, txs, U, h), h, mtp)
<1> DEFINE n == Len(s)
           leftBy(outs, j) == {o \in outs : \A i \in (j + 1)..(k - 1) : o \notin Spends(txs[i])}
<1>1. /\ n \in Nat /\ DOMAIN s = 1..n /\ Len(txs) = n + 1
      /\ k \in Int /\ k - 1 \in 1..n /\ txs[k] = s[k - 1]
  BY DEF Headed
<1>2. ASSUME NEW j \in 2..(n + 1) PROVE txs[j] = s[j - 1] /\ j - 1 \in 1..n
  <2>1. j - 1 \in 1..n /\ (j - 1) + 1 = j
    BY <1>1
  <2> QED
    BY <2>1 DEF Headed, n
<1> HIDE DEF n
<1>3. Payer(s[k - 1]) /\ IsFinalTx(s[k - 1], h, mtp)
  BY <1>1 DEF Minable
<1>4. GetTxFee(txs[k]) >= 0
  BY <1>1, <1>3, PayerSpends
<1>5. ASSUME NEW o \in Spends(txs[k]) PROVE ValidateTxIn(o, SeenBy(k, txs, U, h), h)
  <2>1. ASSUME NEW i \in 2..(k - 1) PROVE o \notin Spends(txs[i])
    <3>1. i \in 2..(n + 1) /\ i - 1 # k - 1
      BY <1>1
    <3>2. Spends(s[i - 1]) \cap Spends(s[k - 1]) = {}
      BY <1>1, <1>2, <3>1 DEF Minable
    <3> QED
      BY <1>1, <1>2, <3>1, <3>2
  <2>2. ValidateTxIn(o, U, h) \/ \E j \in 1..((k - 1) - 1) : o \in Creates(s[j])
    BY <1>1 DEF Minable
  <2>3. CASE ValidateTxIn(o, U, h)
    <3>1. PICK u \in U : u.out = o /\ IsSpendable(u, h)
      BY <2>3 DEF ValidateTxIn
    <3>2. o \in leftBy(Outs(U), 1)
      BY <2>1, <3>1 DEF Outs
    <3>3. u \in SeenBy(k, txs, U, h)
      BY <3>1, <3>2 DEF SeenBy
    <3> QED
      BY <3>1, <3>3 DEF ValidateTxIn
  <2>4. CASE \E j \in 1..((k - 1) - 1) : o \in Creates(s[j])
    <3>1. PICK j \in 1..((k - 1) - 1) : o \in Creates(s[j])
      BY <2>4
    <3> DEFINE m == j + 1
               u == [out |-> o, height |-> h]
    <3>2. m \in 2..(k - 1) /\ m \in 2..(n + 1) /\ m - 1 = j
      BY <1>1
    <3>3. txs[m] = s[j] /\ j \in 1..n
      BY <1>2, <3>2
    <3>4. \A i \in (m + 1)..(k - 1) : i \in 2..(k - 1)
      BY <1>1, <3>2
    <3> HIDE DEF m
    <3>5. o \in leftBy(Creates(txs[m]), m)
      BY <2>1, <3>1, <3>3, <3>4
    <3>6. u \in New(leftBy(Creates(txs[m]), m), h)
      BY <3>5 DEF New
    <3>7. u \in SeenBy(k, txs, U, h)
      BY <3>2, <3>6 DEF SeenBy
    <3>8. s[j] \in Tx /\ ~ IsCoinbaseTx(s[j])
      BY <1>1, <3>3 DEF Ordinary
    <3>9. IsSpendable(u, h)
      <4>1. o[1] = s[j] /\ u.out = o
        BY <3>1, <3>8, CreatesType
      <4> QED
        BY <3>8, <4>1 DEF IsSpendable
    <3> QED
      BY <3>7, <3>9 DEF ValidateTxIn
  <2> QED
    BY <2>2, <2>3, <2>4
<1> QED
  BY <1>1, <1>3, <1>4, <1>5 DEF ValidateTx

(* Nothing is in it twice, and nothing spent twice.                        *)
LEMMA HeadedOnce ==
  ASSUME \A t \in Tx : IsInjective(TxIns[t]),
         NEW s \in Seq(Ordinary), NEW cb \in Tx, IsCoinbaseTx(cb), NEW txs, Headed(txs, cb, s),
         NEW U, NEW h, NEW mtp, Minable(s, U, h, mtp)
  PROVE  NoDuplicateInputs(txs) /\ IsInjective(txs)
<1> DEFINE n == Len(s)
<1>1. n \in Nat /\ DOMAIN s = 1..n /\ DOMAIN txs = 1..(n + 1) /\ txs[1] = cb
  BY DEF Headed
<1>2. ASSUME NEW j \in 1..(n + 1), j # 1 PROVE txs[j] = s[j - 1] /\ j - 1 \in 1..n /\ j \in Int
  <2>1. j - 1 \in 1..n /\ (j - 1) + 1 = j
    BY <1>1, <1>2
  <2> QED
    BY <2>1 DEF Headed
<1> HIDE DEF n
<1>3. \A k \in 1..(n + 1) : IsInjective(TxIns[txs[k]])
  <2>1. \A k \in 1..(n + 1) : txs[k] \in Tx
    BY <1>1 DEF Headed
  <2> QED
    BY <2>1
<1>4. ASSUME NEW j \in 1..n
      PROVE  Spends(s[j]) # {} /\ Spends(cb) \cap Spends(s[j]) = {} /\ s[j] # cb
  <2>1. Payer(s[j])
    BY <1>1 DEF Minable
  <2>2. Spends(s[j]) # {} /\ s[j] \in Ordinary /\ \A o \in Spends(s[j]) : o[1] \in Tx
    BY <2>1, PayerSpends
  <2>3. \A o \in Spends(cb) : o[1] = NoTx
    <3>1. TxIns[cb] \in Seq(Outpoint)
      BY TxAssumption
    <3>2. DOMAIN TxIns[cb] = {1}
      BY <3>1 DEF IsCoinbaseTx
    <3> QED
      BY <3>2 DEF IsCoinbaseTx, Spends, Range
  <2> QED
    BY <2>2, <2>3, TxAssumption DEF Ordinary
<1>5. ASSUME NEW j \in 1..(n + 1), NEW k \in 1..(n + 1), j # k
      PROVE  Spends(txs[j]) \cap Spends(txs[k]) = {} /\ txs[j] # txs[k]
  <2>1. CASE j = 1
    BY <1>1, <1>2, <1>4, <1>5, <2>1
  <2>2. CASE k = 1
    BY <1>1, <1>2, <1>4, <1>5, <2>2
  <2>3. CASE j # 1 /\ k # 1
    <3>1. /\ txs[j] = s[j - 1] /\ j - 1 \in 1..n
          /\ txs[k] = s[k - 1] /\ k - 1 \in 1..n /\ j - 1 # k - 1
      BY <1>2, <1>5, <2>3
    <3>2. Spends(s[j - 1]) \cap Spends(s[k - 1]) = {}
      BY <1>1, <3>1 DEF Minable
    <3> QED
      BY <1>4, <3>1, <3>2
  <2> QED
    BY <2>1, <2>2, <2>3
<1> QED
  BY <1>1, <1>3, <1>5 DEF NoDuplicateInputs, IsInjective

(* A coinbase that fits, ahead of what can be mined and keeps the limits,  *)
(* makes a block the node accepts.                                         *)
LEMMA HeadedAccepted ==
  ASSUME \A t \in Tx : IsInjective(TxIns[t]),
         NEW s \in Seq(Ordinary), NEW U, FromTxs(Outs(U)), NEW h, NEW mtp, Minable(s, U, h, mtp),
         Len(s) <= MAX_TXS_PER_BLOCK - 1, PoolBytes(s) <= MAX_BLOCK_BYTES - COINBASE_RESERVE,
         NEW cb \in Tx, IsCoinbaseTx(cb), TxSize[cb] <= COINBASE_RESERVE,
         ValidateCoinbaseTx(cb, h, SumBlockFees(s, U))
  PROVE  ValidateBlockTxs(<<cb>> \o s, U, h, mtp)
<1> DEFINE txs == <<cb>> \o s
<1>1. s \in Seq(Tx) /\ Len(s) \in Nat
  BY DEF Ordinary
<1>2. Headed(txs, cb, s)
  BY <1>1, HeadedIs
<1> HIDE DEF txs
<1>3. txs # << >> /\ Len(txs) <= MAX_TXS_PER_BLOCK /\ txs[1] = cb
  BY <1>1, <1>2, ParameterAssumption DEF Headed
<1>4. SumFunction([k \in DOMAIN txs |-> TxSize[txs[k]]]) <= MAX_BLOCK_BYTES
  <2>1. SumFunction([k \in DOMAIN txs |-> TxSize[txs[k]]]) = TxSize[cb] + PoolBytes(s)
    BY <1>1, <1>2, HeadedBytes
  <2>2. PoolBytes(s) \in Nat
    BY <1>1, OnlyBytes
  <2> QED
    BY <2>1, <2>2, TxAssumption, PoolAssumption, ParameterAssumption
<1>5. NoDuplicateInputs(txs) /\ IsInjective(txs)
  BY <1>2, HeadedOnce
<1>6. \A k \in 2..Len(txs) : ValidateTx(txs[k], SeenBy(k, txs, U, h), h, mtp)
  BY <1>2, HeadedValid
<1>7. ValidateCoinbaseTx(txs[1], h, SumFunction([k \in 2..Len(txs) |-> GetTxFee(txs[k])]))
  <2>1. SumFunction([k \in 2..Len(txs) |-> GetTxFee(txs[k])]) = SumBlockFees(s, U)
    BY <1>2, HeadedFees
  <2> QED
    BY <1>3, <2>1
<1>8. ValidateBlockTxs(txs, U, h, mtp)
  BY <1>3, <1>4, <1>5, <1>6, <1>7 DEF ValidateBlockTxs
<1> QED
  BY <1>8 DEF txs

\* createCoinbaseTx makes a coinbase that pays the reward of the template
\* and fits into the bytes left for it.
CoinbaseMade ==
  LET fees == SumBlockFees(Template(uTxOuts, NextHeight), uTxOuts)
  IN  \E cb \in Tx : /\ IsCoinbaseTx(cb) /\ TxSize[cb] <= COINBASE_RESERVE
                     /\ ValidateCoinbaseTx(cb, NextHeight, fees)

(* In every state where the pool is sound and its parents are ahead.       *)
LEMMA TemplateIsBlock ==
  ASSUME \A t \in Tx : IsInjective(TxIns[t]),
         NodeInv, SupplyInv, CoinbaseMade
  PROVE  TemplateValid
<1> SUFFICES ASSUME StillMature PROVE TemplateAccepted
  BY DEF TemplateValid
<1> DEFINE h == NextHeight
           mtp == TipMedianTime
           U == uTxOuts
           txs == CandidateTxs(U, h)
           m == MAX_TXS_PER_BLOCK - 1
           b == MAX_BLOCK_BYTES - COINBASE_RESERVE
           s == Template(U, h)
<1>1. txs \in Seq(Ordinary) /\ InPoolOrder(txs) /\ Minable(txs, U, h, mtp)
  BY CandidatesMinable DEF NodeInv, SupplyInv
<1>2. FromTxs(Outs(U))
  <2>1. U = Unspent(blockchain) /\ blockchain \in Seq(Block)
    BY DEF NodeInv, ChainInv, StoreInv, UTxOutsAreUnspent, TypeOK
  <2> QED
    BY <2>1, UnspentMade DEF FromTxs
<1>3. s = SelectTxsForBlock(U, h, m, b) /\ m \in Int /\ b \in Int /\ m >= 0 /\ b >= 0
  BY ParameterAssumption, PoolAssumption DEF Template
<1>4. PICK cb \in Tx : /\ IsCoinbaseTx(cb) /\ TxSize[cb] <= COINBASE_RESERVE
                       /\ ValidateCoinbaseTx(cb, h, SumBlockFees(s, U))
  BY DEF CoinbaseMade
<1> HIDE DEF h, mtp, U, m, b, s
<1>5. s \in Seq(Tx) /\ Packed(s, txs) /\ (s = << >> \/ Fits(s, m, b))
  <2>1. txs \in Seq(Tx)
    BY <1>1 DEF Ordinary
  <2> QED
    BY <1>1, <1>2, <1>3, <2>1, Selected
<1> HIDE DEF txs
<1>6. Fits(s, m, b)
  <2>1. CASE s = << >>
    <3>1. << >> \in Seq(Tx) /\ DOMAIN << >> = {} /\ IsFiniteSet({}) /\ Len(<< >>) = 0
      BY FS_EmptySet
    <3>2. PoolBytes(<< >>) = 0
      BY <3>1, SumStep DEF PoolBytes, SumFunction
    <3> QED
      BY <1>3, <2>1, <3>1, <3>2 DEF Fits
  <2> QED
    BY <1>5, <2>1
<1>7. s \in Seq(Ordinary) /\ Minable(s, U, h, mtp)
  BY <1>1, <1>5, PackedMinable
<1>8. ValidateBlockTxs(<<cb>> \o s, U, h, mtp)
  BY <1>2, <1>4, <1>6, <1>7, HeadedAccepted DEF Fits, m, b
<1> QED
  BY <1>4, <1>8 DEF TemplateAccepted, h, mtp, U, s

(* Where no transaction names an input twice, no eviction takes a parent   *)
(* of the newcomer, and reorganisations leave the pool mature, the block   *)
(* of a template is one the node accepts (selectTxsForBlock,               *)
(* sumBlockFees, mineTemplate, addBlockToChain).                           *)
THEOREM TemplatesAccepted ==
  ASSUME \A t \in Tx : IsInjective(TxIns[t])
  PROVE  NodeSpec /\ [][SparesParents]_nodeVars => [](CoinbaseMade => TemplateValid)
<1>1. NodeInit => NodeInv /\ SupplyInv
  BY NodeInitInv
<1>2. NodeInv /\ SupplyInv /\ [NodeNext]_nodeVars /\ [SparesParents]_nodeVars => (NodeInv /\ SupplyInv)'
  BY AheadStep
<1>3. NodeInv /\ SupplyInv => (CoinbaseMade => TemplateValid)
  BY TemplateIsBlock
<1> QED
  BY <1>1, <1>2, <1>3, PTL DEF NodeSpec
=============================================================================
