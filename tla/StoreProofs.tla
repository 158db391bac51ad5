----------------------------- MODULE StoreProofs -----------------------------
(***************************************************************************)
(* The chain and its file: whatever write the process dies in, or a        *)
(* reorganisation fails in, the chain that is read back is valid, its      *)
(* uTxOuts and undo data are exact, and the file holds it and nothing      *)
(* else.                                                                   *)
(***************************************************************************)
EXTENDS ChainStore, ChainProofs

Cell == Block \X Nat

\* Where the line of the n-th block of bs ends.
End(bs, n) == Cells(Prefix(bs, n))

\* The file f starts with the lines of bs.
Starts(f, bs) ==
  /\ Cells(bs) <= Len(f)
  /\ \A n \in 1..Len(bs) : \A k \in 1..LineCells[bs[n]] : f[End(bs, n - 1) + k] = <<bs[n], k>>

\* No line ends after place m.
NoLineAfter(f, m) == \A i \in (m + 1)..Len(f) : f[i][2] # LineCells[f[i][1]]

\* The file and its index in memory hold bs and nothing else.
Holds(f, starts, size, bs) ==
  /\ Starts(f, bs) /\ Len(f) = Cells(bs)
  /\ starts = OffsetsOf(bs) /\ size = Cells(bs)

-----------------------------------------------------------------------------
(* Numbers in their order. *)

Rising(a, n) == \A i, j \in 1..n : i < j => a[i] < a[j]

\* a[1] < a[2] < ... < a[n] are the numbers in S.
Lists(a, n, S) ==
  /\ a \in [1..n -> Nat] /\ Rising(a, n)
  /\ \A i \in 1..n : a[i] \in S
  /\ \A e \in S : \E i \in 1..n : a[i] = e

(* There is one way to list numbers in their order.                        *)
LEMMA OneOrder ==
  ASSUME NEW S, NEW n \in Nat, NEW a, Lists(a, n, S), NEW m \in Nat, NEW b, Lists(b, m, S)
  PROVE  n = m /\ \A i \in 1..n : a[i] = b[i]
<1>0. a \in [1..n -> Nat] /\ Rising(a, n) /\ b \in [1..m -> Nat] /\ Rising(b, m)
  BY DEF Lists
<1>1. \A i \in 1..n : \E j \in 1..m : a[i] = b[j]
  BY DEF Lists
<1>2. \A j \in 1..m : \E i \in 1..n : a[i] = b[j]
  BY DEF Lists
<1> DEFINE Bad == {i \in Nat : i \in 1..n /\ i \in 1..m /\ a[i] # b[i]}
<1>3. Bad = {}
  <2> SUFFICES ASSUME Bad # {} PROVE FALSE
    OBVIOUS
  <2>1. PICK i \in Bad : \A j \in Bad : i <= j
    <3>1. Bad \in SUBSET Nat
      OBVIOUS
    <3> HIDE DEF Bad
    <3> QED
      BY <3>1, LeastNumber
  <2>2. i \in 1..n /\ i \in 1..m /\ a[i] # b[i] /\ a[i] \in Nat /\ b[i] \in Nat
    BY <1>0
  <2>3. ASSUME NEW j \in 1..n, j < i PROVE j \in 1..m /\ a[j] = b[j]
    <3>1. j \in Nat /\ j \in 1..m /\ ~ (i <= j)
      BY <2>2, <2>3
    <3>2. j \notin Bad
      <4> HIDE DEF Bad
      <4> QED
        BY <2>1, <3>1
    <3> QED
      BY <3>1, <3>2
  <2>4. CASE a[i] < b[i]
    <3>1. PICK j \in 1..m : a[i] = b[j]
      BY <1>1, <2>2
    <3>2. ~ (i < j) /\ i # j
      BY <1>0, <2>2, <2>4, <3>1 DEF Rising
    <3>3. j < i /\ j \in 1..n
      BY <2>2, <3>2
    <3>4. a[j] = a[i]
      BY <2>3, <3>1, <3>3
    <3> QED
      BY <1>0, <2>2, <3>3, <3>4 DEF Rising
  <2>5. CASE b[i] < a[i]
    <3>1. PICK j \in 1..n : a[j] = b[i]
      BY <1>2, <2>2
    <3>2. ~ (i < j) /\ i # j
      BY <1>0, <2>2, <2>5, <3>1 DEF Rising
    <3>3. j < i
      BY <2>2, <3>2
    <3>4. j \in 1..m /\ b[j] = b[i]
      BY <2>3, <3>1, <3>3
    <3> QED
      BY <1>0, <2>2, <3>3, <3>4 DEF Rising
  <2> QED
    BY <2>2, <2>4, <2>5
<1>4. \A i \in Nat : i \in 1..n /\ i \in 1..m => a[i] = b[i]
  BY <1>3
<1>5. ~ (n < m)
  <2> SUFFICES ASSUME n < m PROVE FALSE
    OBVIOUS
  <2>1. m \in 1..m
    OBVIOUS
  <2>2. PICK i \in 1..n : a[i] = b[m]
    BY <1>2, <2>1
  <2>3. i \in 1..m /\ i < m /\ a[i] = b[i] /\ b[i] \in Nat
    BY <1>0, <1>4
  <2>4. b[i] < b[m]
    BY <1>0, <2>1, <2>3 DEF Rising
  <2> QED
    BY <1>0, <2>1, <2>2, <2>3, <2>4
<1>6. ~ (m < n)
  <2> SUFFICES ASSUME m < n PROVE FALSE
    OBVIOUS
  <2>1. n \in 1..n
    OBVIOUS
  <2>2. PICK i \in 1..m : a[n] = b[i]
    BY <1>1, <2>1
  <2>3. i \in 1..n /\ i < n /\ a[i] = b[i] /\ a[i] \in Nat
    BY <1>0, <1>4
  <2>4. a[i] < a[n]
    BY <1>0, <2>1, <2>3 DEF Rising
  <2> QED
    BY <1>0, <2>1, <2>2, <2>3, <2>4
<1>7. n = m
  BY <1>5, <1>6
<1> QED
  BY <1>4, <1>7

-----------------------------------------------------------------------------
(* Lines, and where they end. *)

(* A line has at least one cell, numbered from 1.                          *)
LEMMA LineIs ==
  ASSUME NEW b \in Block
  PROVE  /\ LineCells[b] \in Nat /\ LineCells[b] >= 1
         /\ Line(b) \in Seq(Cell) /\ Len(Line(b)) = LineCells[b]
         /\ \A k \in 1..LineCells[b] : Line(b)[k] = <<b, k>>
<1>1. LineCells[b] \in Nat /\ LineCells[b] >= 1
  BY StoreAssumption
<1> QED
  BY <1>1 DEF Line, Cell

(* What a list of blocks takes in the file.                                *)
LEMMA CellsOf ==
  ASSUME NEW bs \in Seq(Block)
  PROVE  /\ Cells(bs) \in Nat
         /\ bs = << >> => Cells(bs) = 0
         /\ \A b \in Block : Cells(Append(bs, b)) = Cells(bs) + LineCells[b]
<1> DEFINE n == Len(bs)
           g == [i \in DOMAIN bs |-> LineCells[bs[i]]]
<1>1. n \in Nat /\ DOMAIN bs = 1..n
  OBVIOUS
<1>2. \A i \in 1..n : g[i] \in Nat /\ g[i] \in Int
  BY LineIs
<1>3. Cells(bs) = SumFunctionOnSet(g, 1..n)
  BY <1>1 DEF Cells, SumFunction
<1>4. Cells(bs) \in Nat
  <2>1. IsFiniteSet(1..n)
    <3>1. 1 \in Int /\ n \in Int
      BY <1>1
    <3> QED
      BY <3>1, FS_Interval
  <2> HIDE DEF g
  <2> QED
    BY <1>2, <1>3, <2>1, SumType
<1>5. ASSUME bs = << >> PROVE Cells(bs) = 0
  <2>1. 1..n = {}
    BY <1>5
  <2>2. IsFiniteSet({})
    BY FS_EmptySet
  <2> HIDE DEF g
  <2> QED
    BY <1>3, <2>1, <2>2, SumStep
<1>6. ASSUME NEW b \in Block PROVE Cells(Append(bs, b)) = Cells(bs) + LineCells[b]
  <2> DEFINE d == Append(bs, b)
             f == [i \in DOMAIN d |-> LineCells[d[i]]]
  <2>1. DOMAIN d = 1..(n + 1) /\ d[n + 1] = b /\ \A i \in 1..n : d[i] = bs[i]
    OBVIOUS
  <2>2. Cells(d) = SumFunctionOnSet(f, 1..(n + 1))
    BY <2>1 DEF Cells, SumFunction
  <2>3. f[n + 1] = LineCells[b] /\ f[n + 1] \in Int /\ \A i \in 1..n : f[i] = g[i]
    BY <1>1, <2>1, LineIs
  <2> HIDE DEF f, g, n, d
  <2>4. SumFunctionOnSet(f, 1..(n + 1)) = SumFunctionOnSet(g, 1..n) + f[n + 1]
    BY <1>1, <1>2, <2>3, SumAppend
  <2> QED
    BY <1>3, <2>2, <2>3, <2>4 DEF d
<1> QED
  BY <1>4, <1>5, <1>6

(* The next longer prefix has one block more.                              *)
LEMMA PrefixAppend ==
  ASSUME NEW bs \in Seq(Block), NEW n \in 1..Len(bs)
  PROVE  /\ bs[n] \in Block /\ n - 1 \in 0..Len(bs)
         /\ Prefix(bs, n - 1) \in Seq(Block)
         /\ Prefix(bs, n) = Append(Prefix(bs, n - 1), bs[n])
<1>1. bs[n] \in Block /\ n - 1 \in 0..Len(bs) /\ n \in 0..Len(bs)
  OBVIOUS
<1>2. /\ Prefix(bs, n - 1) \in Seq(Block) /\ Len(Prefix(bs, n - 1)) = n - 1
      /\ \A i \in 1..(n - 1) : Prefix(bs, n - 1)[i] = bs[i]
  BY <1>1, PrefixFacts
<1>3. /\ Prefix(bs, n) \in Seq(Block) /\ Len(Prefix(bs, n)) = n
      /\ \A i \in 1..n : Prefix(bs, n)[i] = bs[i]
  BY <1>1, PrefixFacts
<1> QED
  BY <1>1, <1>2, <1>3

(* Each line ends after its cells.                                         *)
LEMMA EndsAre ==
  ASSUME NEW bs \in Seq(Block)
  PROVE  /\ End(bs, 0) = 0 /\ End(bs, Len(bs)) = Cells(bs)
         /\ \A n \in 0..Len(bs) : End(bs, n) \in Nat
         /\ \A n \in 1..Len(bs) : End(bs, n) = End(bs, n - 1) + LineCells[bs[n]]
<1>1. Prefix(bs, 0) = << >> /\ Prefix(bs, 0) \in Seq(Block)
  BY DEF Prefix
<1>2. End(bs, 0) = 0
  BY <1>1, CellsOf DEF End
<1>3. End(bs, Len(bs)) = Cells(bs)
  BY PrefixOfAll DEF End
<1>4. \A n \in 0..Len(bs) : End(bs, n) \in Nat
  BY PrefixFacts, CellsOf DEF End
<1>5. \A n \in 1..Len(bs) : End(bs, n) = End(bs, n - 1) + LineCells[bs[n]]
  BY PrefixAppend, CellsOf DEF End
<1> QED
  BY <1>2, <1>3, <1>4, <1>5

(* Later lines end later.                                                  *)
LEMMA EndsRise ==
  ASSUME NEW bs \in Seq(Block), NEW i \in 0..Len(bs), NEW j \in 0..Len(bs), i < j
  PROVE  End(bs, i) < End(bs, j)
<1> DEFINE Bad == {n \in Nat : n > i /\ n <= Len(bs) /\ ~ (End(bs, i) < End(bs, n))}
<1>1. Bad = {}
  <2> SUFFICES ASSUME Bad # {} PROVE FALSE
    OBVIOUS
  <2>1. PICK n \in Bad : \A m \in Bad : n <= m
    <3>1. Bad \in SUBSET Nat
      OBVIOUS
    <3> HIDE DEF Bad
    <3> QED
      BY <3>1, LeastNumber
  <2>2. n \in 1..Len(bs) /\ n - 1 \in 0..Len(bs) /\ bs[n] \in Block /\ i <= n - 1
    OBVIOUS
  <2>3. /\ End(bs, n) = End(bs, n - 1) + LineCells[bs[n]] /\ LineCells[bs[n]] >= 1
        /\ LineCells[bs[n]] \in Nat /\ End(bs, n - 1) \in Nat /\ End(bs, i) \in Nat
    BY <2>2, EndsAre, LineIs
  <2>4. n - 1 \notin Bad
    <3>1. ~ (n <= n - 1)
      BY <2>2
    <3> HIDE DEF Bad
    <3> QED
      BY <2>1, <3>1
  <2>5. n - 1 = i \/ End(bs, i) < End(bs, n - 1)
    BY <2>2, <2>4
  <2>6. End(bs, i) < End(bs, n)
    BY <2>3, <2>5
  <2> QED
    BY <2>6
<1> QED
  BY <1>1

(* Every cell belongs to a line.                                           *)
LEMMA LineAt ==
  ASSUME NEW bs \in Seq(Block), NEW i \in 1..Cells(bs)
  PROVE  \E n \in 1..Len(bs) : End(bs, n - 1) < i /\ i <= End(bs, n)
<1> DEFINE Late == {n \in Nat : n <= Len(bs) /\ i <= End(bs, n)}
<1>1. Len(bs) \in Late /\ Late \in SUBSET Nat
  BY EndsAre, CellsOf
<1>2. PICK n \in Late : \A m \in Late : n <= m
  <2> HIDE DEF Late
  <2> QED
    BY <1>1, LeastNumber
<1>3. n # 0
  BY EndsAre, CellsOf
<1>4. n \in 1..Len(bs) /\ n - 1 \in Nat /\ n - 1 <= Len(bs) /\ n - 1 \in 0..Len(bs)
  BY <1>3
<1>5. n - 1 \notin Late
  <2>1. ~ (n <= n - 1)
    BY <1>4
  <2> HIDE DEF Late
  <2> QED
    BY <1>2, <2>1
<1>6. ~ (i <= End(bs, n - 1)) /\ End(bs, n - 1) \in Nat /\ i \in Nat
  BY <1>4, <1>5, EndsAre, CellsOf
<1>7. End(bs, n - 1) < i /\ i <= End(bs, n)
  BY <1>6
<1> QED
  BY <1>4, <1>7

(* Prefixes and longer lists have their lines at the same places.          *)
LEMMA EndsStay ==
  ASSUME NEW bs \in Seq(Block)
  PROVE  /\ \A m \in 0..Len(bs) : \A n \in 0..m : End(Prefix(bs, m), n) = End(bs, n)
         /\ \A b \in Block : \A n \in 0..Len(bs) : End(Append(bs, b), n) = End(bs, n)
BY PrefixFacts, AppendGrows DEF End

(* A line is in the file when its cells are.                               *)
LEMMA LineThere ==
  ASSUME NEW f \in Seq(Cell), NEW b \in Block, NEW from \in Nat, from + LineCells[b] <= Len(f)
  PROVE  SubSeq(f, from + 1, from + LineCells[b]) = Line(b)
           <=> \A k \in 1..LineCells[b] : f[from + k] = <<b, k>>
<1> DEFINE n == LineCells[b]
           s == SubSeq(f, from + 1, from + n)
<1>1. n \in Nat /\ n >= 1 /\ Line(b) \in Seq(Cell) /\ Len(Line(b)) = n
      /\ \A k \in 1..n : Line(b)[k] = <<b, k>>
  BY LineIs
<1> HIDE DEF n
<1>2. s \in Seq(Cell) /\ Len(s) = n /\ \A k \in 1..n : s[k] = f[from + k]
  BY <1>1 DEF n
<1> HIDE DEF s
<1>3. ASSUME s = Line(b) PROVE \A k \in 1..n : f[from + k] = <<b, k>>
  BY <1>1, <1>2, <1>3
<1>4. ASSUME \A k \in 1..n : f[from + k] = <<b, k>> PROVE s = Line(b)
  <2>1. Line(b) = [k \in 1..n |-> <<b, k>>]
    BY DEF Line, n
  <2>2. s = [k \in 1..n |-> s[k]]
    BY <1>1, <1>2
  <2>3. \A k \in 1..n : s[k] = <<b, k>>
    BY <1>2, <1>4
  <2> QED
    BY <2>1, <2>2, <2>3, Zenon
<1> QED
  BY <1>3, <1>4 DEF n, s

(* The cells of the lines a file starts with, and which of them end one.   *)
LEMMA CellAt ==
  ASSUME NEW bs \in Seq(Block), NEW f, Starts(f, bs), NEW i \in 1..Cells(bs)
  PROVE  \E n \in 1..Len(bs) :
           /\ End(bs, n - 1) < i /\ i <= End(bs, n)
           /\ f[i] = <<bs[n], i - End(bs, n - 1)>>
           /\ f[i][2] = LineCells[f[i][1]] <=> i = End(bs, n)
<1>1. PICK n \in 1..Len(bs) : End(bs, n - 1) < i /\ i <= End(bs, n)
  BY LineAt
<1>2. /\ bs[n] \in Block /\ End(bs, n) = End(bs, n - 1) + LineCells[bs[n]]
      /\ LineCells[bs[n]] \in Nat /\ End(bs, n - 1) \in Nat /\ i \in Nat
  <2>1. bs[n] \in Block /\ n - 1 \in 0..Len(bs)
    BY PrefixAppend
  <2>2. End(bs, n) = End(bs, n - 1) + LineCells[bs[n]] /\ End(bs, n - 1) \in Nat
    BY <2>1, EndsAre
  <2> QED
    BY <2>1, <2>2, LineIs, CellsOf
<1>3. i - End(bs, n - 1) \in 1..LineCells[bs[n]] /\ End(bs, n - 1) + (i - End(bs, n - 1)) = i
  BY <1>1, <1>2
<1>4. f[i] = <<bs[n], i - End(bs, n - 1)>>
  BY <1>3 DEF Starts
<1>5. f[i][2] = LineCells[f[i][1]] <=> i = End(bs, n)
  BY <1>2, <1>4
<1> QED
  BY <1>1, <1>4, <1>5

(* They are the ends of the lines.                                         *)
LEMMA LineEndsAre ==
  ASSUME NEW bs \in Seq(Block), NEW f \in Seq(Cell), Starts(f, bs)
  PROVE  /\ \A n \in 1..Len(bs) : /\ End(bs, n) \in 1..Cells(bs) /\ End(bs, n) \in LineEnds(f)
                                  /\ f[End(bs, n)] = <<bs[n], LineCells[bs[n]]>>
         /\ \A i \in LineEnds(f) : i <= Cells(bs) => \E n \in 1..Len(bs) : i = End(bs, n)
<1>1. Cells(bs) \in Nat /\ Cells(bs) <= Len(f) /\ Len(f) \in Nat
  BY CellsOf DEF Starts
<1>2. ASSUME NEW n \in 1..Len(bs)
      PROVE  /\ End(bs, n) \in 1..Cells(bs) /\ End(bs, n) \in LineEnds(f)
             /\ f[End(bs, n)] = <<bs[n], LineCells[bs[n]]>>
  <2>1. /\ bs[n] \in Block /\ End(bs, n) = End(bs, n - 1) + LineCells[bs[n]]
        /\ LineCells[bs[n]] \in Nat /\ LineCells[bs[n]] >= 1 /\ End(bs, n - 1) \in Nat
    BY PrefixAppend, EndsAre, LineIs
  <2>2. f[End(bs, n)] = <<bs[n], LineCells[bs[n]]>>
    <3>1. LineCells[bs[n]] \in 1..LineCells[bs[n]]
      BY <2>1
    <3> QED
      BY <2>1, <3>1 DEF Starts
  <2>3. End(bs, n) <= Cells(bs)
    <3>1. n = Len(bs) \/ (n < Len(bs) /\ n \in 0..Len(bs) /\ Len(bs) \in 0..Len(bs))
      OBVIOUS
    <3>2. End(bs, Len(bs)) = Cells(bs) /\ End(bs, n) \in Nat
      BY <2>1, EndsAre
    <3>3. n = Len(bs) \/ End(bs, n) < End(bs, Len(bs))
      BY <3>1, EndsRise
    <3> QED
      BY <1>1, <3>2, <3>3
  <2>4. End(bs, n) \in 1..Cells(bs) /\ End(bs, n) \in DOMAIN f
    BY <1>1, <2>1, <2>3
  <2> QED
    BY <2>2, <2>4 DEF LineEnds
<1>3. ASSUME NEW i \in LineEnds(f), i <= Cells(bs) PROVE \E n \in 1..Len(bs) : i = End(bs, n)
  <2>1. i \in 1..Cells(bs) /\ f[i][2] = LineCells[f[i][1]]
    BY <1>1, <1>3 DEF LineEnds
  <2> QED
    BY <2>1, CellAt
<1> QED
  BY <1>2, <1>3

\* The line that ends at e is complete and begins where another ends.
Parses(f, e) ==
  LET from == e - LineCells[f[e][1]]
  IN  /\ from \in {0} \cup LineEnds(f)
      /\ SubSeq(f, from + 1, e) = Line(f[e][1])

(* What is read back is in the order of the file.                          *)
LEMMA StoredIs ==
  ASSUME NEW f \in Seq(Cell)
  PROVE  \E n \in Nat : \E a :
           Lists(a, n, GoodEnds(f)) /\ Stored(f) = [i \in 1..n |-> f[a[i]][1]]
<1> DEFINE ends == GoodEnds(f)
           n == Cardinality(ends)
           a == [i \in 1..n |-> CHOOSE e \in ends : Rank(e, ends) = i]
<1>1. Len(f) \in Nat /\ ends \in SUBSET (1..Len(f))
  BY DEF GoodEnds, LineEnds
<1>2. Stored(f) = [i \in 1..n |-> f[a[i]][1]]
  BY DEF Stored, Rank
<1> HIDE DEF ends
<1>3. /\ n \in Nat
      /\ \A i \in ends : Rank(i, ends) \in 1..n
      /\ \A i, j \in ends : i < j => Rank(i, ends) < Rank(j, ends)
      /\ \A k \in 1..n : \E i \in ends : Rank(i, ends) = k
  BY <1>1, Ranks
<1> HIDE DEF n
<1>4. \A i \in 1..n : a[i] \in ends /\ Rank(a[i], ends) = i
  BY <1>3
<1>5. a \in [1..n -> Nat]
  <2>1. \A e \in ends : e \in Nat
    BY <1>1
  <2>2. ASSUME NEW i \in 1..n PROVE a[i] \in Nat
    <3>1. a[i] \in ends
      BY <1>4
    <3> HIDE DEF a
    <3> QED
      BY <2>1, <3>1
  <2> QED
    BY <2>2
<1>6. \A e, d \in ends : Rank(e, ends) = Rank(d, ends) => e = d
  <2> SUFFICES ASSUME NEW e \in ends, NEW d \in ends, Rank(e, ends) = Rank(d, ends), e # d
               PROVE  FALSE
    OBVIOUS
  <2>1. e < d \/ d < e
    BY <1>1
  <2> QED
    BY <1>3, <2>1
<1> HIDE DEF a
<1>7. Rising(a, n)
  <2> SUFFICES ASSUME NEW i \in 1..n, NEW j \in 1..n, i < j PROVE a[i] < a[j]
    BY DEF Rising
  <2>1. a[i] \in ends /\ a[j] \in ends /\ Rank(a[i], ends) = i /\ Rank(a[j], ends) = j
    BY <1>4
  <2>2. a[i] # a[j]
    BY <2>1
  <2>3. ~ (a[j] < a[i])
    BY <1>3, <2>1
  <2>4. a[i] \in Nat /\ a[j] \in Nat
    BY <1>5
  <2> QED
    BY <2>2, <2>3, <2>4
<1>8. \A e \in ends : \E i \in 1..n : a[i] = e
  <2>1. ASSUME NEW e \in ends PROVE \E i \in 1..n : a[i] = e
    BY <1>3, <1>4, <1>6
  <2> QED
    BY <2>1
<1>9. Lists(a, n, ends)
  BY <1>4, <1>5, <1>7, <1>8 DEF Lists
<1> QED
  BY <1>2, <1>3, <1>9 DEF ends

(* A file that starts with the lines of some blocks and ends no line after *)
(* them is read back as these blocks (scanBlocks).                         *)
LEMMA StoredOf ==
  ASSUME NEW bs \in Seq(Block), NEW f \in Seq(Cell), Starts(f, bs), NoLineAfter(f, Cells(bs))
  PROVE  Stored(f) = bs
<1> DEFINE m == Len(bs)
           b == [n \in 1..m |-> End(bs, n)]
<1>1. m \in Nat /\ Cells(bs) \in Nat /\ Cells(bs) <= Len(f) /\ Len(f) \in Nat
  BY CellsOf DEF Starts
<1>2. b \in [1..m -> Nat] /\ Rising(b, m)
  <2>1. \A n \in 1..m : n \in 0..m /\ b[n] = End(bs, n)
    OBVIOUS
  <2> QED
    BY <2>1, EndsAre, EndsRise DEF Rising
<1>3. LineEnds(f) = {b[n] : n \in 1..m}
  <2>1. ASSUME NEW i \in LineEnds(f) PROVE \E n \in 1..m : i = b[n]
    <3>1. ~ (i \in (Cells(bs) + 1)..Len(f))
      BY DEF NoLineAfter, LineEnds
    <3>2. i <= Cells(bs)
      BY <1>1, <3>1 DEF LineEnds
    <3> QED
      BY <3>2, LineEndsAre
  <2>2. ASSUME NEW n \in 1..m PROVE b[n] \in LineEnds(f)
    BY LineEndsAre
  <2> QED
    BY <2>1, <2>2
<1>4. ASSUME NEW n \in 1..m PROVE Parses(f, b[n])
  <2>1. b[n] = End(bs, n) /\ f[End(bs, n)][1] = bs[n]
    BY LineEndsAre
  <2>2. /\ bs[n] \in Block /\ End(bs, n) = End(bs, n - 1) + LineCells[bs[n]]
        /\ LineCells[bs[n]] \in Nat /\ End(bs, n - 1) \in Nat /\ End(bs, n) <= Cells(bs)
    BY PrefixAppend, EndsAre, LineIs, LineEndsAre
  <2>3. End(bs, n) - LineCells[bs[n]] = End(bs, n - 1)
    BY <2>2
  <2>4. End(bs, n - 1) \in {0} \cup LineEnds(f)
    <3>1. n - 1 = 0 \/ n - 1 \in 1..m
      OBVIOUS
    <3>2. n - 1 = 0 => End(bs, n - 1) = 0
      BY EndsAre
    <3> QED
      BY <3>1, <3>2, LineEndsAre
  <2>5. SubSeq(f, End(bs, n - 1) + 1, End(bs, n)) = Line(bs[n])
    <3>1. \A k \in 1..LineCells[bs[n]] : f[End(bs, n - 1) + k] = <<bs[n], k>>
      BY DEF Starts
    <3>2. End(bs, n - 1) + LineCells[bs[n]] <= Len(f)
      BY <1>1, <2>2
    <3> DEFINE from == End(bs, n - 1)
    <3>3. SubSeq(f, from + 1, from + LineCells[bs[n]]) = Line(bs[n])
      <4> HIDE DEF from
      <4> QED
        BY <2>2, <3>1, <3>2, LineThere DEF from
    <3> QED
      BY <2>2, <3>3
  <2> HIDE DEF b
  <2> QED
    BY <2>1, <2>3, <2>4, <2>5 DEF Parses
<1>5. GoodEnds(f) = {b[n] : n \in 1..m}
  <2>1. GoodEnds(f) = {e \in LineEnds(f) : \A d \in LineEnds(f) : d <= e => Parses(f, d)}
    BY DEF GoodEnds, Parses
  <2>2. \A d \in LineEnds(f) : Parses(f, d)
    BY <1>3, <1>4
  <2> QED
    BY <1>3, <2>1, <2>2
<1>6. PICK k \in Nat : \E a : Lists(a, k, GoodEnds(f)) /\ Stored(f) = [i \in 1..k |-> f[a[i]][1]]
  BY StoredIs
<1>10. PICK a : Lists(a, k, GoodEnds(f)) /\ Stored(f) = [i \in 1..k |-> f[a[i]][1]]
  BY <1>6
<1>7. k = m /\ \A i \in 1..k : a[i] = b[i]
  <2>1. Lists(b, m, GoodEnds(f))
    <3> HIDE DEF b, m
    <3> QED
      BY <1>2, <1>5 DEF Lists
  <2> HIDE DEF b, m
  <2> QED
    BY <1>1, <1>10, <2>1, OneOrder
<1>8. \A i \in 1..m : f[a[i]][1] = bs[i]
  BY <1>7, LineEndsAre
<1>9. Stored(f) = [i \in 1..m |-> bs[i]]
  BY <1>7, <1>8, <1>10
<1> QED
  BY <1>9

(* The line that ends at a good end, and nothing else, is what lies        *)
(* between it and the good end before it.                                  *)
LEMMA GoodLine ==
  ASSUME NEW f \in Seq(Cell), NEW n \in Nat, NEW a, Lists(a, n, GoodEnds(f)), NEW i \in 1..n
  PROVE  LET b == f[a[i]][1]
         IN  /\ a[i] \in Nat /\ a[i] <= Len(f) /\ b \in Block
             /\ a[i] = (IF i = 1 THEN 0 ELSE a[i - 1]) + LineCells[b]
             /\ \A k \in 1..LineCells[b] : f[(IF i = 1 THEN 0 ELSE a[i - 1]) + k] = <<b, k>>
<1> DEFINE b == f[a[i]][1]
           from == a[i] - LineCells[b]
<1>1. GoodEnds(f) = {e \in LineEnds(f) : \A d \in LineEnds(f) : d <= e => Parses(f, d)}
  BY DEF GoodEnds, Parses
<1>2. /\ LineEnds(f) \in SUBSET (1..Len(f)) /\ Len(f) \in Nat
      /\ \A e \in LineEnds(f) : f[e] \in Cell /\ f[e][2] = LineCells[f[e][1]]
  BY DEF LineEnds
<1>3. a[i] \in LineEnds(f) /\ Parses(f, a[i]) /\ \A d \in LineEnds(f) : d <= a[i] => d \in GoodEnds(f)
  <2>1. a[i] \in GoodEnds(f)
    BY DEF Lists
  <2>2. a[i] \in LineEnds(f) /\ \A d \in LineEnds(f) : d <= a[i] => Parses(f, d)
    BY <1>1, <2>1
  <2>3. Parses(f, a[i]) /\ a[i] \in Nat
    BY <1>2, <2>2
  <2>4. ASSUME NEW d \in LineEnds(f), d <= a[i] PROVE d \in GoodEnds(f)
    <3>1. ASSUME NEW e \in LineEnds(f), e <= d PROVE Parses(f, e)
      <4>1. e \in Nat /\ d \in Nat
        BY <1>2
      <4>2. e <= a[i]
        BY <2>3, <2>4, <3>1, <4>1
      <4> QED
        BY <2>2, <4>2
    <3> QED
      BY <1>1, <3>1
  <2> QED
    BY <2>2, <2>3, <2>4
<1>4. a[i] \in Nat /\ a[i] <= Len(f) /\ b \in Block
  BY <1>2, <1>3 DEF Cell
<1>5. LineCells[b] \in Nat /\ LineCells[b] >= 1
  BY <1>4, LineIs
<1>6. from \in {0} \cup LineEnds(f) /\ SubSeq(f, from + 1, a[i]) = Line(b)
  BY <1>3 DEF Parses
<1> HIDE DEF b
<1>7. from \in Nat /\ from < a[i] /\ from + LineCells[b] = a[i]
  <2>1. \A e \in {0} \cup LineEnds(f) : e \in Nat
    BY <1>2
  <2>2. from \in Nat
    BY ONLY <1>6, <2>1
  <2> QED
    BY <1>4, <1>5, <2>2
<1>8. \A k \in 1..LineCells[b] : f[from + k] = <<b, k>>
  <2>1. SubSeq(f, from + 1, from + LineCells[b]) = Line(b)
    BY <1>6, <1>7
  <2> HIDE DEF from
  <2> QED
    BY <1>4, <1>7, <2>1, LineThere
<1> HIDE DEF from
<1>9. ASSUME NEW d \in LineEnds(f), d > from, d < a[i] PROVE FALSE
  <2>1. d \in Nat
    BY <1>2
  <2>2. d - from \in 1..LineCells[b] /\ from + (d - from) = d /\ d - from # LineCells[b]
    BY <1>4, <1>5, <1>7, <1>9, <2>1
  <2>3. f[d] = <<b, d - from>>
    BY <1>8, <2>2
  <2>4. f[d][2] = LineCells[f[d][1]]
    BY <1>2
  <2> QED
    BY <2>2, <2>3, <2>4
<1>10. CASE i = 1
  <2>1. from \notin GoodEnds(f)
    <3> SUFFICES ASSUME from \in GoodEnds(f) PROVE FALSE
      OBVIOUS
    <3>1. PICK j \in 1..n : a[j] = from
      BY DEF Lists
    <3>2. j = 1 \/ 1 < j
      OBVIOUS
    <3>3. 1 < j => a[1] < a[j]
      BY <1>10 DEF Lists, Rising
    <3> QED
      BY <1>4, <1>7, <1>10, <3>1, <3>2, <3>3
  <2>2. from \notin LineEnds(f)
    BY <1>3, <1>4, <1>7, <2>1
  <2>3. from = 0
    BY <1>6, <2>2
  <2> QED
    BY <1>4, <1>7, <1>8, <1>10, <2>3 DEF b
<1>11. CASE i # 1
  <2>1. i - 1 \in 1..n /\ i - 1 < i
    BY <1>11
  <2>2. a[i - 1] < a[i] /\ a[i - 1] \in LineEnds(f) /\ a[i - 1] \in Nat
    BY <1>1, <2>1 DEF Lists, Rising
  <2>3. a[i - 1] >= 1
    BY <1>2, <2>2
  <2>4. ~ (a[i - 1] > from)
    BY <1>9, <2>2
  <2>5. from # 0 /\ from \in LineEnds(f)
    BY <1>6, <1>7, <2>2, <2>3, <2>4
  <2>6. from \in GoodEnds(f)
    BY <1>3, <1>4, <1>7, <2>5
  <2>7. PICK j \in 1..n : a[j] = from
    BY <2>6 DEF Lists
  <2>8. j < i
    <3>1. j = i => from = a[i]
      BY <2>7
    <3>2. i < j => a[i] < from
      BY <2>7 DEF Lists, Rising
    <3> QED
      BY <1>4, <1>7, <3>1, <3>2
  <2>9. j = i - 1 \/ j < i - 1
    BY <2>8
  <2>10. j < i - 1 => from < a[i - 1]
    BY <2>1, <2>7 DEF Lists, Rising
  <2>11. from = a[i - 1]
    BY <1>7, <2>2, <2>4, <2>7, <2>9, <2>10
  <2> QED
    BY <1>4, <1>7, <1>8, <1>11, <2>11 DEF b
<1> QED
  BY <1>10, <1>11

(* Whatever is in a file, it starts with the lines of the blocks that are  *)
(* read back from it (scanBlocks).                                         *)
LEMMA StoredStarts ==
  ASSUME NEW f \in Seq(Cell)
  PROVE  Stored(f) \in Seq(Block) /\ Starts(f, Stored(f))
<1> DEFINE s == Stored(f)
<1>0. PICK n \in Nat : \E a : Lists(a, n, GoodEnds(f)) /\ s = [i \in 1..n |-> f[a[i]][1]]
  BY StoredIs
<1>1. PICK a : Lists(a, n, GoodEnds(f)) /\ s = [i \in 1..n |-> f[a[i]][1]]
  BY <1>0
<1> HIDE DEF s
<1> DEFINE prev(i) == IF i = 1 THEN 0 ELSE a[i - 1]
<1>2. ASSUME NEW i \in 1..n
      PROVE  /\ s[i] = f[a[i]][1] /\ s[i] \in Block /\ a[i] \in Nat /\ a[i] <= Len(f)
             /\ a[i] = prev(i) + LineCells[s[i]]
             /\ \A k \in 1..LineCells[s[i]] : f[prev(i) + k] = <<s[i], k>>
  <2>1. s[i] = f[a[i]][1]
    BY <1>1
  <2>2. /\ a[i] \in Nat /\ a[i] <= Len(f) /\ f[a[i]][1] \in Block
        /\ a[i] = (IF i = 1 THEN 0 ELSE a[i - 1]) + LineCells[f[a[i]][1]]
        /\ \A k \in 1..LineCells[f[a[i]][1]] :
             f[(IF i = 1 THEN 0 ELSE a[i - 1]) + k] = <<f[a[i]][1], k>>
    <3>1. Lists(a, n, GoodEnds(f))
      BY <1>1
    <3> QED
      BY <3>1, GoodLine
  <2> QED
    BY <2>1, <2>2
<1>3. s \in Seq(Block) /\ Len(s) = n
  BY <1>1, <1>2
<1> DEFINE Bad == {i \in Nat : i \in 1..n /\ End(s, i) # a[i]}
<1>4. Bad = {}
  <2> SUFFICES ASSUME Bad # {} PROVE FALSE
    OBVIOUS
  <2>1. PICK i \in Bad : \A j \in Bad : i <= j
    <3>1. Bad \in SUBSET Nat
      OBVIOUS
    <3> HIDE DEF Bad
    <3> QED
      BY <3>1, LeastNumber
  <2>2. i \in 1..n /\ End(s, i) # a[i]
    OBVIOUS
  <2>3. End(s, i) = End(s, i - 1) + LineCells[s[i]] /\ End(s, 0) = 0
    BY <1>3, <2>2, EndsAre
  <2>4. i # 1 => End(s, i - 1) = a[i - 1]
    <3> SUFFICES ASSUME i # 1 PROVE End(s, i - 1) = a[i - 1]
      OBVIOUS
    <3>1. i - 1 \in Nat /\ i - 1 \in 1..n /\ ~ (i <= i - 1)
      BY <2>2
    <3>2. i - 1 \notin Bad
      <4> HIDE DEF Bad
      <4> QED
        BY <2>1, <3>1
    <3> QED
      BY <3>1, <3>2
  <2>5. End(s, i - 1) = prev(i)
    BY <2>3, <2>4
  <2> QED
    BY <1>2, <2>2, <2>3, <2>5
<1>5. \A i \in 1..n : End(s, i) = a[i]
  BY <1>4
<1>6. ASSUME NEW i \in 1..n PROVE End(s, i - 1) = prev(i)
  <2>1. i = 1 \/ i - 1 \in 1..n
    OBVIOUS
  <2>2. i = 1 => End(s, i - 1) = 0
    BY <1>3, EndsAre
  <2> QED
    BY <1>5, <2>1, <2>2
<1>7. Cells(s) <= Len(f)
  <2>1. Cells(s) = End(s, n) /\ Len(f) \in Nat
    BY <1>3, EndsAre
  <2>2. n = 0 => End(s, n) = 0
    BY <1>3, EndsAre
  <2>3. n # 0 => n \in 1..n
    OBVIOUS
  <2> QED
    BY <1>2, <1>5, <2>1, <2>2, <2>3
<1>8. ASSUME NEW i \in 1..n, NEW k \in 1..LineCells[s[i]] PROVE f[End(s, i - 1) + k] = <<s[i], k>>
  <2> HIDE DEF prev
  <2> QED
    BY <1>2, <1>6
<1> QED
  BY <1>3, <1>7, <1>8 DEF Starts, s

(* The genesis block's cells at the start of a file make it the first      *)
(* block that is read back.                                                *)
LEMMA StoredGenesis ==
  ASSUME NEW f \in Seq(Cell), \A k \in 1..LineCells[Genesis] : k <= Len(f) => f[k] = <<Genesis, k>>,
         Stored(f) # << >>
  PROVE  Stored(f)[1] = Genesis
<1> DEFINE s == Stored(f)
<1>1. s \in Seq(Block) /\ Starts(f, s)
  BY StoredStarts
<1> HIDE DEF s
<1>2. 1 \in 1..Len(s) /\ s[1] \in Block
  BY <1>1 DEF s
<1>3. 1 \in 1..LineCells[s[1]] /\ 1 \in 1..LineCells[Genesis]
  BY <1>2, LineIs, GenesisAssumption
<1>4. f[1] = <<s[1], 1>>
  <2>1. End(s, 1 - 1) = 0
    BY <1>1, EndsAre
  <2> QED
    BY <1>1, <1>2, <1>3, <2>1 DEF Starts
<1>5. 1 <= Len(f)
  <2>1. End(s, 1) \in 1..Cells(s)
    BY <1>1, <1>2, LineEndsAre
  <2> QED
    BY <1>1, <2>1, CellsOf DEF Starts
<1>6. f[1] = <<Genesis, 1>>
  BY <1>3, <1>5
<1> QED
  BY <1>4, <1>6 DEF s

-----------------------------------------------------------------------------
(* What cutting and appending do to a file. *)

(* A shorter list takes less, and a file with the lines of the longer one  *)
(* starts with its lines.                                                  *)
LEMMA StartsPrefix ==
  ASSUME NEW bs \in Seq(Block), NEW n \in 0..Len(bs)
  PROVE  /\ Prefix(bs, n) \in Seq(Block) /\ Cells(Prefix(bs, n)) <= Cells(bs)
         /\ \A f : Starts(f, bs) /\ Len(f) \in Nat => Starts(f, Prefix(bs, n))
<1> DEFINE p == Prefix(bs, n)
<1>1. p \in Seq(Block) /\ Len(p) = n /\ \A i \in 1..n : p[i] = bs[i] /\ i \in 1..Len(bs)
  BY PrefixFacts
<1>2. Cells(p) = End(bs, n) /\ Cells(bs) = End(bs, Len(bs)) /\ Cells(p) \in Nat /\ Cells(bs) \in Nat
  BY <1>1, EndsAre, CellsOf DEF End
<1>3. Cells(p) <= Cells(bs)
  <2>1. n = Len(bs) \/ n < Len(bs)
    OBVIOUS
  <2>2. Len(bs) \in 0..Len(bs)
    OBVIOUS
  <2>3. n < Len(bs) => End(bs, n) < End(bs, Len(bs))
    BY <2>2, EndsRise
  <2> QED
    BY <1>2, <2>1, <2>3
<1>4. \A i \in 1..n : End(p, i - 1) = End(bs, i - 1)
  <2>1. \A i \in 1..n : i - 1 \in 0..n
    OBVIOUS
  <2> QED
    BY <2>1, EndsStay
<1> HIDE DEF p
<1>5. ASSUME NEW f, Starts(f, bs), Len(f) \in Nat PROVE Starts(f, p)
  <2>1. Cells(p) <= Len(f)
    BY <1>2, <1>3, <1>5 DEF Starts
  <2>2. ASSUME NEW i \in 1..Len(p), NEW k \in 1..LineCells[p[i]] PROVE f[End(p, i - 1) + k] = <<p[i], k>>
    BY <1>1, <1>4, <1>5 DEF Starts
  <2> QED
    BY <2>1, <2>2 DEF Starts
<1> QED
  BY <1>1, <1>3, <1>5 DEF p

(* Only the cells of the lines matter.                                     *)
LEMMA StartsSame ==
  ASSUME NEW bs \in Seq(Block), NEW f, Starts(f, bs),
         NEW g, Cells(bs) <= Len(g), \A i \in 1..Cells(bs) : g[i] = f[i]
  PROVE  Starts(g, bs)
<1>1. ASSUME NEW n \in 1..Len(bs), NEW k \in 1..LineCells[bs[n]]
      PROVE  g[End(bs, n - 1) + k] = <<bs[n], k>>
  <2>1. bs[n] \in Block /\ n - 1 \in 0..Len(bs) /\ n \in 0..Len(bs)
    BY PrefixAppend
  <2>2. /\ End(bs, n - 1) \in Nat /\ LineCells[bs[n]] \in Nat
        /\ End(bs, n) = End(bs, n - 1) + LineCells[bs[n]]
    BY <2>1, EndsAre, LineIs
  <2>3. End(bs, n) <= Cells(bs) /\ Cells(bs) \in Nat
    BY <2>1, StartsPrefix, CellsOf DEF End
  <2>4. End(bs, n - 1) + k \in 1..Cells(bs)
    BY <2>2, <2>3
  <2> QED
    BY <2>4 DEF Starts
<1> QED
  BY <1>1 DEF Starts

(* The offsets are where the lines begin.                                  *)
LEMMA OffsetsAre ==
  ASSUME NEW bs \in Seq(Block)
  PROVE  /\ OffsetsOf(bs) \in Seq(Nat) /\ Len(OffsetsOf(bs)) = Len(bs)
         /\ \A n \in 1..Len(bs) : OffsetsOf(bs)[n] = End(bs, n - 1)
<1>1. \A n \in 1..Len(bs) : n - 1 \in 0..Len(bs) /\ Cells(SubSeq(bs, 1, n - 1)) = End(bs, n - 1)
  BY DEF End, Prefix
<1>2. \A n \in 1..Len(bs) : Cells(SubSeq(bs, 1, n - 1)) \in Nat
  BY <1>1, EndsAre
<1>3. OffsetsOf(bs) = [n \in 1..Len(bs) |-> Cells(SubSeq(bs, 1, n - 1))]
  BY DEF OffsetsOf
<1> QED
  BY <1>1, <1>2, <1>3

(* A file cut behind some lines holds them (initChain).                    *)
LEMMA HoldsCut ==
  ASSUME NEW f \in Seq(Cell), NEW bs \in Seq(Block), Starts(f, bs)
  PROVE  /\ SubSeq(f, 1, Cells(bs)) \in Seq(Cell)
         /\ Holds(SubSeq(f, 1, Cells(bs)), OffsetsOf(bs), Cells(bs), bs)
<1> DEFINE g == SubSeq(f, 1, Cells(bs))
<1>1. Cells(bs) \in Nat /\ Cells(bs) <= Len(f)
  BY CellsOf DEF Starts
<1>2. g \in Seq(Cell) /\ Len(g) = Cells(bs) /\ \A i \in 1..Cells(bs) : g[i] = f[i]
  BY <1>1
<1> HIDE DEF g
<1>3. Starts(g, bs)
  BY <1>1, <1>2, StartsSame
<1> QED
  BY <1>2, <1>3 DEF Holds, g

(* So does one cut at the offset of the next (truncateBlocksTo).           *)
LEMMA HoldsResized ==
  ASSUME NEW f \in Seq(Cell), NEW o, NEW size, NEW bs \in Seq(Block), Holds(f, o, size, bs),
         NEW n \in 0..Len(bs), n < Len(o)
  PROVE  /\ o[n + 1] = Cells(Prefix(bs, n)) /\ Resized(f, o[n + 1]) \in Seq(Cell)
         /\ Holds(Resized(f, o[n + 1]), SubSeq(o, 1, n), o[n + 1], Prefix(bs, n))
<1> DEFINE p == Prefix(bs, n)
           m == o[n + 1]
           g == Resized(f, m)
<1>1. o = OffsetsOf(bs) /\ Starts(f, bs) /\ Len(f) = Cells(bs) /\ Len(f) \in Nat
  BY CellsOf DEF Holds
<1>2. o \in Seq(Nat) /\ Len(o) = Len(bs) /\ \A i \in 1..Len(bs) : o[i] = End(bs, i - 1)
  BY <1>1, OffsetsAre
<1>3. m = Cells(p)
  <2>1. n + 1 \in 1..Len(bs) /\ (n + 1) - 1 = n
    BY <1>2
  <2> QED
    BY <1>2, <2>1 DEF End
<1>4. p \in Seq(Block) /\ Len(p) = n /\ Starts(f, p) /\ Cells(p) \in Nat /\ Cells(p) <= Len(f)
  BY <1>1, StartsPrefix, PrefixFacts, CellsOf
<1>5. g \in Seq(Cell) /\ Len(g) = m /\ \A i \in 1..m : g[i] = f[i]
  <2>1. \A i \in 1..m : i <= Len(f) /\ f[i] \in Cell
    BY <1>3, <1>4
  <2>2. g = [i \in 1..m |-> f[i]]
    BY <2>1 DEF Resized
  <2> HIDE DEF m
  <2> QED
    BY <1>3, <1>4, <2>1, <2>2
<1>6. Starts(g, p)
  <2> HIDE DEF g, p, m
  <2> QED
    BY <1>3, <1>4, <1>5, StartsSame
<1>7. SubSeq(o, 1, n) = OffsetsOf(p)
  <2> DEFINE q == OffsetsOf(p)
  <2>1. q \in Seq(Nat) /\ Len(q) = n /\ \A i \in 1..n : q[i] = End(p, i - 1)
    BY <1>4, OffsetsAre
  <2>2. \A i \in 1..n : i - 1 \in 0..n /\ i \in 1..Len(bs)
    OBVIOUS
  <2>3. \A i \in 1..n : q[i] = o[i]
    BY <1>2, <2>1, <2>2, EndsStay
  <2> HIDE DEF q
  <2>4. SubSeq(o, 1, n) = [i \in 1..n |-> o[i]]
    BY <1>2
  <2>5. q = [i \in 1..n |-> q[i]]
    BY <2>1
  <2> QED
    BY <2>3, <2>4, <2>5 DEF q
<1> QED
  BY <1>3, <1>5, <1>6, <1>7 DEF Holds

(* An append puts one more block into it (appendBlock).                    *)
LEMMA HoldsAppend ==
  ASSUME NEW f \in Seq(Cell), NEW o, NEW size, NEW bs \in Seq(Block), Holds(f, o, size, bs),
         NEW b \in Block
  PROVE  /\ f \o SubSeq(Line(b), 1, LineCells[b]) \in Seq(Cell)
         /\ Holds(f \o SubSeq(Line(b), 1, LineCells[b]), Append(o, size), size + LineCells[b],
                  Append(bs, b))
<1> DEFINE n == LineCells[b]
           l == SubSeq(Line(b), 1, n)
           g == f \o l
           d == Append(bs, b)
<1>1. /\ o = OffsetsOf(bs) /\ Starts(f, bs) /\ Len(f) = Cells(bs) /\ size = Cells(bs)
      /\ Cells(bs) \in Nat /\ Cells(d) = Cells(bs) + n
  BY CellsOf DEF Holds
<1>2. n \in Nat /\ n >= 1 /\ l \in Seq(Cell) /\ Len(l) = n /\ \A k \in 1..n : l[k] = <<b, k>>
  BY LineIs
<1>3. d \in Seq(Block) /\ Len(d) = Len(bs) + 1 /\ d[Len(d)] = b /\ \A i \in 1..Len(bs) : d[i] = bs[i]
  OBVIOUS
<1> HIDE DEF n, l
<1>4. /\ g \in Seq(Cell) /\ Len(g) = Cells(d) /\ \A i \in 1..Cells(bs) : g[i] = f[i]
      /\ \A k \in 1..n : g[Cells(bs) + k] = <<b, k>>
  <2>1. g \in Seq(Cell) /\ Len(g) = Len(f) + Len(l)
    <3>1. f \in Seq(Cell) /\ l \in Seq(Cell)
      BY <1>2
    <3> QED
      BY ONLY <3>1
  <2>2. \A k \in 1..n : g[Cells(bs) + k] = l[k]
    BY <1>1, <1>2
  <2>3. \A i \in 1..Cells(bs) : g[i] = f[i]
    BY <1>1, <1>2
  <2> HIDE DEF g
  <2> QED
    BY <1>1, <1>2, <2>1, <2>2, <2>3
<1> HIDE DEF g, d
<1>5. \A i \in 0..Len(bs) : End(d, i) = End(bs, i)
  BY EndsStay DEF d
<1>6. Starts(g, bs)
  <2>1. Starts(f, bs) /\ Cells(bs) <= Len(g) /\ \A i \in 1..Cells(bs) : g[i] = f[i]
    BY <1>1, <1>2, <1>4
  <2> QED
    BY <2>1, StartsSame
<1>7. Starts(g, d)
  <2>1. ASSUME NEW i \in 1..Len(d), NEW k \in 1..LineCells[d[i]] PROVE g[End(d, i - 1) + k] = <<d[i], k>>
    <3>1. CASE i \in 1..Len(bs)
      <4>1. d[i] = bs[i] /\ End(d, i - 1) = End(bs, i - 1)
        BY <1>3, <1>5, <3>1
      <4> QED
        BY <1>6, <3>1, <4>1 DEF Starts
    <3>2. CASE i \notin 1..Len(bs)
      <4>1. i = Len(d) /\ i - 1 = Len(bs) /\ d[i] = b
        BY <1>3, <3>2
      <4>2. End(d, i - 1) = Cells(bs)
        BY <1>5, <4>1, EndsAre
      <4> QED
        BY <1>4, <4>1, <4>2 DEF n
    <3> QED
      BY <3>1, <3>2
  <2>2. Cells(d) <= Len(g)
    BY <1>1, <1>2, <1>4
  <2> QED
    BY <2>1, <2>2 DEF Starts
<1>8. Append(o, size) = OffsetsOf(d)
  <2> DEFINE q == OffsetsOf(d)
             r == Append(o, size)
  <2>1. q \in Seq(Nat) /\ Len(q) = Len(d) /\ \A i \in 1..Len(d) : q[i] = End(d, i - 1)
    BY <1>3, OffsetsAre
  <2>2. o \in Seq(Nat) /\ Len(o) = Len(bs) /\ \A i \in 1..Len(bs) : o[i] = End(bs, i - 1)
    BY <1>1, OffsetsAre
  <2>3. r \in Seq(Nat) /\ Len(r) = Len(d) /\ r[Len(d)] = size /\ \A i \in 1..Len(bs) : r[i] = o[i]
    BY <1>1, <1>3, <2>2
  <2>4. ASSUME NEW i \in 1..Len(d) PROVE q[i] = r[i]
    <3>1. CASE i \in 1..Len(bs)
      BY <1>5, <2>1, <2>2, <2>3, <3>1
    <3>2. CASE i \notin 1..Len(bs)
      <4>1. i = Len(d) /\ i - 1 = Len(bs)
        BY <1>3, <3>2
      <4> QED
        BY <1>1, <1>5, <2>1, <2>3, <4>1, EndsAre
    <3> QED
      BY <3>1, <3>2
  <2> HIDE DEF q, r
  <2>5. q = [i \in 1..Len(d) |-> q[i]] /\ r = [i \in 1..Len(d) |-> r[i]]
    BY <2>1, <2>3
  <2>6. q = r
    BY <2>4, <2>5
  <2> QED
    BY <2>6 DEF q, r
<1>9. size + n = Cells(d)
  BY <1>1
<1> QED
  BY <1>4, <1>7, <1>8, <1>9 DEF Holds, g, l, d, n

(* A line that is cut short ends nowhere.                                  *)
LEMMA TornLine ==
  ASSUME NEW f \in Seq(Cell), NEW bs \in Seq(Block), Starts(f, bs), Len(f) = Cells(bs),
         NEW b \in Block, NEW w \in 0..(LineCells[b] - 1)
  PROVE  Starts(f \o SubSeq(Line(b), 1, w), bs) /\ NoLineAfter(f \o SubSeq(Line(b), 1, w), Cells(bs))
<1> DEFINE l == SubSeq(Line(b), 1, w)
           g == f \o l
<1>1. /\ LineCells[b] \in Nat /\ w \in Nat /\ w < LineCells[b] /\ Cells(bs) \in Nat
      /\ l \in Seq(Cell) /\ Len(l) = w /\ \A k \in 1..w : l[k] = <<b, k>>
  <2>1. /\ LineCells[b] \in Nat /\ w \in Nat /\ w < LineCells[b] /\ Cells(bs) \in Nat
        /\ Line(b) \in Seq(Cell) /\ Len(Line(b)) = LineCells[b]
        /\ \A k \in 1..LineCells[b] : Line(b)[k] = <<b, k>>
    BY LineIs, CellsOf
  <2>2. l \in Seq(Cell) /\ Len(l) = w /\ \A k \in 1..w : k \in 1..LineCells[b] /\ l[k] = Line(b)[k]
    BY <2>1
  <2> QED
    BY <2>1, <2>2
<1> HIDE DEF l
<1>2. g \in Seq(Cell) /\ Len(g) = Len(f) + Len(l)
  <2>1. f \in Seq(Cell) /\ l \in Seq(Cell)
    BY <1>1
  <2> QED
    BY ONLY <2>1
<1>3. \A i \in 1..Cells(bs) : g[i] = f[i]
  BY <1>1
<1>4. ASSUME NEW i \in (Cells(bs) + 1)..Len(g) PROVE g[i][2] # LineCells[g[i][1]]
  <2>1. i - Cells(bs) \in 1..w
    BY <1>1, <1>2
  <2>2. g[i] = l[i - Cells(bs)]
    BY <1>1, <1>2
  <2> HIDE DEF g
  <2>3. g[i] = <<b, i - Cells(bs)>>
    BY <1>1, <2>1, <2>2
  <2> QED
    BY <1>1, <2>1, <2>3
<1> HIDE DEF g
<1>5. Starts(g, bs)
  BY <1>1, <1>2, <1>3, StartsSame
<1> QED
  BY <1>4, <1>5 DEF NoLineAfter, g, l

(* The block at a height is read back through its offset (readBlockAt).    *)
LEMMA HoldsRead ==
  ASSUME file \in Seq(Cell), NEW bs \in Seq(Block), Holds(file, offsets, fileSize, bs),
         NEW n \in 1..Len(bs)
  PROVE  ReadBlockAt(n - 1) = {bs[n]}
<1> DEFINE from == End(bs, n - 1)
           to == IF (n - 1) + 1 < Len(offsets) THEN offsets[(n - 1) + 2] ELSE fileSize
<1>1. /\ offsets = OffsetsOf(bs) /\ fileSize = Cells(bs) /\ Starts(file, bs)
      /\ Len(offsets) = Len(bs) /\ \A i \in 1..Len(bs) : offsets[i] = End(bs, i - 1)
  BY OffsetsAre DEF Holds
<1>2. bs[n] \in Block /\ n - 1 \in 0..Len(bs) /\ (n - 1) + 1 = n /\ (n - 1) + 2 = n + 1
  BY PrefixAppend
<1>3. /\ from \in Nat /\ LineCells[bs[n]] \in Nat
      /\ End(bs, n) = from + LineCells[bs[n]] /\ End(bs, Len(bs)) = Cells(bs)
  BY <1>2, EndsAre, LineIs
<1>4. End(bs, n) <= Len(file)
  <2>1. End(bs, n) <= Cells(bs) /\ Cells(bs) \in Nat /\ Len(file) \in Nat
    BY StartsPrefix, CellsOf DEF End
  <2> QED
    BY <1>1, <1>3, <2>1 DEF Starts
<1>5. to = End(bs, n)
  <2>1. CASE n < Len(bs)
    <3>1. n + 1 \in 1..Len(bs) /\ (n + 1) - 1 = n
      BY <2>1
    <3> QED
      BY <1>1, <1>2, <2>1, <3>1
  <2>2. CASE n = Len(bs)
    BY <1>1, <1>2, <1>3, <2>2
  <2> QED
    BY <2>1, <2>2
<1>6. offsets[(n - 1) + 1] = from /\ ~ (n - 1 >= Len(offsets))
  BY <1>1, <1>2
<1> HIDE DEF to, from
<1>7. SubSeq(file, from + 1, to) = Line(bs[n])
  <2>1. \A k \in 1..LineCells[bs[n]] : file[from + k] = <<bs[n], k>>
    BY <1>1 DEF Starts, from
  <2>2. SubSeq(file, from + 1, from + LineCells[bs[n]]) = Line(bs[n])
    BY <1>2, <1>3, <1>4, <2>1, LineThere
  <2> QED
    BY <1>3, <1>5, <2>2
<1>8. ASSUME NEW b \in Block PROVE Line(bs[n]) = Line(b) <=> b = bs[n]
  <2>1. 1 \in 1..LineCells[b] /\ 1 \in 1..LineCells[bs[n]]
    BY <1>2, LineIs
  <2>2. Line(b)[1] = <<b, 1>> /\ Line(bs[n])[1] = <<bs[n], 1>>
    BY <1>2, <2>1, LineIs
  <2> QED
    BY <2>2
<1>9. ReadBlockAt(n - 1) =
        {b \in Block : to <= Len(file) /\ SubSeq(file, offsets[(n - 1) + 1] + 1, to) = Line(b)}
  BY <1>6 DEF ReadBlockAt, to
<1> QED
  BY <1>2, <1>4, <1>5, <1>6, <1>7, <1>8, <1>9

-----------------------------------------------------------------------------
(* What a start reads back. *)

IsReplay(blocks, skipUntil, now, n, g) ==
  g = [k \in 0..n |-> IF k = 0 THEN NothingLoaded ELSE Load(g[k - 1], blocks[k], skipUntil, now)]

Replay(blocks, skipUntil, now, n) ==
  CHOOSE g : g = [k \in 0..n |-> IF k = 0 THEN NothingLoaded
                                 ELSE Load(g[k - 1], blocks[k], skipUntil, now)]

(* The states of a replay exist.                                           *)
LEMMA ReplayExists ==
  ASSUME NEW blocks, NEW skipUntil, NEW now, NEW n \in Nat
  PROVE  IsReplay(blocks, skipUntil, now, n, Replay(blocks, skipUntil, now, n))
<1> DEFINE Is(m, g) == IsReplay(blocks, skipUntil, now, m, g)
           Bad == {m \in Nat : ~ \E g : Is(m, g)}
<1>1. Bad = {}
  <2> SUFFICES ASSUME Bad # {} PROVE FALSE
    OBVIOUS
  <2>1. PICK m \in Bad : \A k \in Bad : m <= k
    <3>1. Bad \in SUBSET Nat
      OBVIOUS
    <3> HIDE DEF Bad
    <3> QED
      BY <3>1, LeastNumber
  <2>2. m \in Nat /\ ~ \E g : Is(m, g)
    OBVIOUS
  <2>3. CASE m = 0
    <3> DEFINE g == [k \in 0..m |-> NothingLoaded]
    <3>1. g = [k \in 0..m |-> IF k = 0 THEN NothingLoaded ELSE Load(g[k - 1], blocks[k], skipUntil, now)]
      BY <2>3
    <3>2. Is(m, g)
      BY <3>1 DEF IsReplay
    <3> QED
      BY <3>2, <2>2
  <2>4. CASE m # 0
    <3>1. m - 1 \in Nat /\ m - 1 \notin Bad
      <4>1. m - 1 \in Nat /\ ~ (m <= m - 1)
        BY <2>2, <2>4
      <4> HIDE DEF Bad
      <4> QED
        BY <4>1, <2>1
    <3>2. PICK g : Is(m - 1, g)
      BY <3>1
    <3> DEFINE h == [k \in 0..m |-> IF k = 0 THEN NothingLoaded
                                    ELSE Load(g[k - 1], blocks[k], skipUntil, now)]
    <3>3. ASSUME NEW k \in 0..(m - 1) PROVE h[k] = g[k]
      <4>1. k \in 0..m
        BY <2>2
      <4>2. g[k] = IF k = 0 THEN NothingLoaded ELSE Load(g[k - 1], blocks[k], skipUntil, now)
        BY <3>2 DEF IsReplay
      <4> QED
        BY <4>1, <4>2
    <3>4. ASSUME NEW k \in 0..m, k # 0 PROVE h[k - 1] = g[k - 1]
      <4>1. k - 1 \in 0..(m - 1)
        BY <2>2, <3>4
      <4> HIDE DEF h
      <4> QED
        BY <3>3, <4>1
    <3>5. h = [k \in 0..m |-> IF k = 0 THEN NothingLoaded ELSE Load(h[k - 1], blocks[k], skipUntil, now)]
      BY <3>4
    <3>6. Is(m, h)
      <4> HIDE DEF h
      <4> QED
        BY <3>5 DEF IsReplay
    <3> QED
      BY <3>6, <2>2
  <2> QED
    BY <2>3, <2>4
<1>2. \E g : Is(n, g)
  BY <1>1
<1> QED
  BY <1>2 DEF IsReplay, Replay

\* What is loaded after k of the blocks: the first ones of them, and no more
\* once one has been refused.
LoadedAt(l, blocks, k) ==
  /\ l \in [chain : Seq(Block), uTxOuts : SUBSET UTxOut, undo : Seq(Undo), stopped : BOOLEAN]
  /\ Len(l.undo) = Len(l.chain)
  /\ \E j \in 0..k : /\ l.chain = Prefix(blocks, j) /\ Len(l.chain) = j
                     /\ k > 0 => j > 0
                     /\ ~ l.stopped => j = k
                     /\ k = 0 => ~ l.stopped

\* It is valid, with the set and the undo data that go with it.
Exactly(l) ==
  /\ Sound(l.chain) /\ Revalidates(l.chain)
  /\ l.uTxOuts = Unspent(l.chain) /\ UndoMatches(l.undo, l.chain)

(* Nothing at all is valid, and so is the genesis block.                   *)
LEMMA GenesisGood ==
  /\ Exactly(NothingLoaded)
  /\ Sound(<<Genesis>>) /\ Revalidates(<<Genesis>>)
<1> DEFINE g == <<Genesis>>
<1>1. Genesis \in Block /\ Genesis.index = 0 /\ Genesis.data \in Seq(Tx)
  BY GenesisAssumption, BlockFields
<1>2. << >> \in Seq(Block) /\ Len(<< >>) = 0 /\ Unspent(<< >>) = {}
  BY DEF Unspent
<1>3. Sound(<< >>) /\ Revalidates(<< >>) /\ UndoMatches(<< >>, << >>)
  BY <1>2 DEF Sound, Heights, Shapes, MadeOnce, MadeBeforeSpent, Revalidates, UndoMatches
<1>4. Exactly(NothingLoaded)
  BY <1>2, <1>3 DEF Exactly, NothingLoaded
<1>5. g \in Seq(Block) /\ Len(g) = 1 /\ g[1] = Genesis
  BY <1>1
<1> HIDE DEF g
<1>6. Grows(g, << >>, Genesis)
  BY <1>2, <1>5 DEF Grows
<1>7. ValidateBlockTxs(Genesis.data, Unspent(<< >>), Genesis.index, 0)
  BY <1>1, <1>2, GenesisAssumption
<1>8. Sound(g)
  BY <1>1, <1>2, <1>3, <1>6, <1>7, SoundStep
<1>9. Revalidates(g)
  <2>1. 2..Len(g) = {}
    BY <1>5
  <2> QED
    BY <2>1 DEF Revalidates
<1> QED
  BY <1>4, <1>8, <1>9 DEF g

(* One turn of the loop of initChain.                                      *)
LEMMA LoadStep ==
  ASSUME NEW blocks \in Seq(Block), NEW k \in 1..Len(blocks), NEW l, LoadedAt(l, blocks, k - 1),
         NEW skipUntil, NEW now
  PROVE  LoadedAt(Load(l, blocks[k], skipUntil, now), blocks, k)
<1> DEFINE b == blocks[k]
           r == Load(l, b, skipUntil, now)
<1>1. /\ l \in [chain : Seq(Block), uTxOuts : SUBSET UTxOut, undo : Seq(Undo), stopped : BOOLEAN]
      /\ Len(l.undo) = Len(l.chain)
  BY DEF LoadedAt
<1>2. PICK j \in 0..(k - 1) :
        /\ l.chain = Prefix(blocks, j) /\ Len(l.chain) = j
        /\ k - 1 > 0 => j > 0
        /\ ~ l.stopped => j = k - 1
        /\ k - 1 = 0 => ~ l.stopped
  BY DEF LoadedAt
<1>3. b \in Block /\ b.data \in Seq(Tx) /\ b.index \in Nat
  BY BlockFields
<1>4. CASE l.stopped
  <2>1. r = l
    BY <1>4 DEF Load
  <2>2. j \in 0..k /\ j > 0 /\ k # 0
    BY <1>2, <1>4
  <2> HIDE DEF r
  <2>3. \E i \in 0..k : /\ r.chain = Prefix(blocks, i) /\ Len(r.chain) = i
                        /\ k > 0 => i > 0
                        /\ ~ r.stopped => i = k
                        /\ k = 0 => ~ r.stopped
    <3> WITNESS j \in 0..k
    <3> QED
      BY <1>2, <1>4, <2>1, <2>2
  <2> QED
    BY <1>1, <2>1, <2>3 DEF LoadedAt, r
<1>5. CASE ~ l.stopped /\ ~ Loadable(l, b, skipUntil, now)
  <2>1. r = [l EXCEPT !.stopped = TRUE]
    BY <1>5 DEF Load
  <2>2. /\ r \in [chain : Seq(Block), uTxOuts : SUBSET UTxOut, undo : Seq(Undo), stopped : BOOLEAN]
        /\ r.chain = l.chain /\ r.undo = l.undo /\ r.stopped = TRUE
    BY <1>1, <2>1
  <2>3. Len(l.chain) # 0
    BY <1>5 DEF Loadable
  <2>4. j \in 0..k /\ j > 0 /\ k # 0
    BY <1>2, <2>3
  <2> HIDE DEF r
  <2>5. \E i \in 0..k : /\ r.chain = Prefix(blocks, i) /\ Len(r.chain) = i
                        /\ k > 0 => i > 0
                        /\ ~ r.stopped => i = k
                        /\ k = 0 => ~ r.stopped
    <3> WITNESS j \in 0..k
    <3> QED
      BY <1>2, <2>2, <2>4
  <2> QED
    BY <1>1, <2>2, <2>5 DEF LoadedAt, r
<1>6. CASE ~ l.stopped /\ Loadable(l, b, skipUntil, now)
  <2> DEFINE d == Append(l.chain, b)
             U == UpdateUTxOuts(b.data, l.uTxOuts, b.index)
             log == Append(l.undo, CollectConsumed(b.data, l.uTxOuts))
  <2>1. r = [chain |-> d, uTxOuts |-> U, undo |-> log, stopped |-> FALSE]
    BY <1>6 DEF Load
  <2>2. d = Prefix(blocks, k) /\ d \in Seq(Block) /\ Len(d) = k
    <3>1. l.chain = Prefix(blocks, k - 1) /\ k \in 0..Len(blocks)
      BY <1>2, <1>6
    <3>2. Prefix(blocks, k) = Append(Prefix(blocks, k - 1), b)
      BY PrefixAppend
    <3> QED
      BY <3>1, <3>2, PrefixFacts
  <2>3. U \in SUBSET UTxOut
    BY <1>1, <1>3, UpdateType
  <2>4. CollectConsumed(b.data, l.uTxOuts) \in Undo
    BY <1>1, ConsumedType
  <2>5. log \in Seq(Undo) /\ Len(log) = Len(l.undo) + 1
    BY <1>1, <2>4
  <2>6. Len(l.undo) = k - 1
    BY <1>1, <1>2, <1>6
  <2> HIDE DEF d, U, log, r
  <2>7. /\ r \in [chain : Seq(Block), uTxOuts : SUBSET UTxOut, undo : Seq(Undo), stopped : BOOLEAN]
        /\ r.chain = d /\ r.undo = log /\ r.stopped = FALSE
    BY <2>1, <2>2, <2>3, <2>5
  <2>8. k \in 0..k /\ k > 0
    OBVIOUS
  <2> QED
    BY <2>2, <2>5, <2>6, <2>7, <2>8 DEF LoadedAt, r
<1> QED
  BY <1>4, <1>5, <1>6

(* It loads exact data when every block is validated, and when the blocks  *)
(* are known to be valid.                                                  *)
LEMMA LoadExact ==
  ASSUME NEW blocks \in Seq(Block), blocks[1] = Genesis,
         NEW k \in 1..Len(blocks), NEW l, LoadedAt(l, blocks, k - 1), Exactly(l),
         NEW skipUntil, NEW now, skipUntil = -1 \/ (Sound(blocks) /\ Revalidates(blocks))
  PROVE  Exactly(Load(l, blocks[k], skipUntil, now))
<1> DEFINE b == blocks[k]
           r == Load(l, b, skipUntil, now)
           c == l.chain
           d == Append(c, b)
<1>1. /\ l \in [chain : Seq(Block), uTxOuts : SUBSET UTxOut, undo : Seq(Undo), stopped : BOOLEAN]
      /\ ~ l.stopped => c = Prefix(blocks, k - 1)
  BY DEF LoadedAt
<1>2. Sound(c) /\ Revalidates(c) /\ l.uTxOuts = Unspent(c) /\ UndoMatches(l.undo, c)
  BY DEF Exactly
<1>3. b \in Block /\ b.data \in Seq(Tx) /\ k \in 0..Len(blocks)
  BY BlockFields
<1>4. CASE l.stopped
  <2>1. r = l
    BY <1>4 DEF Load
  <2> QED
    BY <2>1
<1>5. CASE ~ l.stopped /\ ~ Loadable(l, b, skipUntil, now)
  <2>1. r = [l EXCEPT !.stopped = TRUE]
    BY <1>5 DEF Load
  <2>2. r.chain = c /\ r.undo = l.undo /\ r.uTxOuts = l.uTxOuts
    BY <1>1, <2>1
  <2> QED
    BY <1>2, <2>2 DEF Exactly
<1>6. CASE ~ l.stopped /\ Loadable(l, b, skipUntil, now)
  <2>1. c = Prefix(blocks, k - 1) /\ d = Prefix(blocks, k) /\ c \in Seq(Block) /\ Len(c) = k - 1
    BY <1>1, <1>6, PrefixAppend, PrefixFacts
  <2>2. Sound(d) /\ Revalidates(d)
    <3>1. CASE Sound(blocks) /\ Revalidates(blocks)
      BY <1>3, <2>1, <3>1, PrefixSound, RevalidatesPrefix
    <3>2. CASE skipUntil = -1 /\ k = 1
      <4>1. c = << >> /\ b = Genesis
        BY <2>1, <3>2
      <4>2. d = <<Genesis>>
        BY <4>1
      <4> QED
        BY <4>2, GenesisGood
    <3>3. CASE skipUntil = -1 /\ k # 1
      <4>1. c # << >> /\ Len(c) # 0 /\ ~ (Len(c) <= -1)
        BY <2>1, <3>3
      <4>2. IsBlockValid(b, c, now) /\ TxsAccepted(b, Unspent(c), c)
        BY <1>2, <1>6, <3>3, <4>1 DEF Loadable
      <4> QED
        BY <1>1, <1>2, <1>3, <2>1, <4>1, <4>2, AcceptedBlock
    <3> QED
      BY <3>1, <3>2, <3>3
  <2>3. Unspent(d) = UpdateUTxOuts(b.data, l.uTxOuts, b.index)
    <3>1. Grows(d, c, b) /\ Len(c) \in Nat
      BY <1>3, <2>1, AppendGrows
    <3> QED
      BY <1>2, <1>3, <2>2, <3>1, UnspentStep
  <2>4. UndoMatches(Append(l.undo, CollectConsumed(b.data, l.uTxOuts)), d)
    BY <1>1, <1>2, <1>3, <2>1, UndoAppend
  <2>5. r = [chain |-> d, uTxOuts |-> UpdateUTxOuts(b.data, l.uTxOuts, b.index),
             undo |-> Append(l.undo, CollectConsumed(b.data, l.uTxOuts)), stopped |-> FALSE]
    BY <1>6 DEF Load
  <2> HIDE DEF d, r
  <2> QED
    BY <2>2, <2>3, <2>4, <2>5 DEF Exactly, r
<1> QED
  BY <1>4, <1>5, <1>6

(* What initChain has loaded when it is done.                              *)
LEMMA ReplayIs ==
  ASSUME NEW blocks \in Seq(Block), NEW skipUntil, NEW now
  PROVE  LET l == ReplayStored(blocks, skipUntil, now)
         IN  /\ LoadedAt(l, blocks, Len(blocks))
             /\ blocks # << >> /\ blocks[1] = Genesis
                  /\ (skipUntil = -1 \/ (Sound(blocks) /\ Revalidates(blocks))) => Exactly(l)
<1> DEFINE n == Len(blocks)
           g == Replay(blocks, skipUntil, now, n)
           fine == /\ blocks # << >> /\ blocks[1] = Genesis
                   /\ skipUntil = -1 \/ (Sound(blocks) /\ Revalidates(blocks))
           P(k) == LoadedAt(g[k], blocks, k) /\ (fine => Exactly(g[k]))
           Bad == {k \in Nat : k <= n /\ ~ P(k)}
<1>1. n \in Nat /\ ReplayStored(blocks, skipUntil, now) = g[n]
  BY DEF ReplayStored, Replay
<1>2. \A k \in 0..n : g[k] = IF k = 0 THEN NothingLoaded ELSE Load(g[k - 1], blocks[k], skipUntil, now)
  <2>1. IsReplay(blocks, skipUntil, now, n, g)
    BY <1>1, ReplayExists
  <2> HIDE DEF g
  <2> QED
    BY <2>1 DEF IsReplay
<1> HIDE DEF g
<1>3. P(0)
  <2>1. g[0] = NothingLoaded
    BY <1>1, <1>2
  <2>2. LoadedAt(NothingLoaded, blocks, 0)
    <3>1. NothingLoaded \in [chain : Seq(Block), uTxOuts : SUBSET UTxOut, undo : Seq(Undo), stopped : BOOLEAN]
      BY DEF NothingLoaded
    <3>2. << >> = Prefix(blocks, 0) /\ 0 \in 0..0
      BY DEF Prefix
    <3> QED
      BY <3>1, <3>2 DEF LoadedAt, NothingLoaded
  <2> QED
    BY <2>1, <2>2, GenesisGood
<1>4. Bad = {}
  <2> SUFFICES ASSUME Bad # {} PROVE FALSE
    OBVIOUS
  <2>1. PICK k \in Bad : \A j \in Bad : k <= j
    <3>1. Bad \in SUBSET Nat
      OBVIOUS
    <3> HIDE DEF Bad
    <3> QED
      BY <3>1, LeastNumber
  <2>2. k \in Nat /\ k <= n /\ ~ P(k)
    OBVIOUS
  <2>3. k # 0
    BY <1>3, <2>2
  <2>4. k \in 1..n /\ k - 1 \in Nat /\ k - 1 <= n /\ k \in 0..n /\ ~ (k <= k - 1)
    BY <1>1, <2>2, <2>3
  <2>5. k - 1 \notin Bad
    <3> HIDE DEF Bad
    <3> QED
      BY <2>1, <2>4
  <2>6. P(k - 1)
    BY <2>4, <2>5
  <2>7. g[k] = Load(g[k - 1], blocks[k], skipUntil, now)
    BY <1>2, <2>3, <2>4
  <2>8. LoadedAt(g[k], blocks, k)
    BY <2>4, <2>6, <2>7, LoadStep
  <2>9. fine => Exactly(g[k])
    BY <2>4, <2>6, <2>7, LoadExact
  <2> QED
    BY <2>2, <2>8, <2>9
<1>5. P(n)
  BY <1>1, <1>4
<1> QED
  BY <1>1, <1>5

-----------------------------------------------------------------------------
(* What holds even after a write of addBlockToChain has failed, when the   *)
(* chain need not be valid any more. *)

Begun(c, log) == c # << >> /\ c[1] = Genesis /\ Len(log) = Len(c)

RoughChain ==
  /\ TypeOK
  /\ Begun(blockchain, undoLog)
  /\ phase # "idle" =>
       /\ common \in 1..Len(blockchain) /\ cursor <= Len(blockchain)
       /\ Begun(chain, undo) /\ common <= Len(chain)

(* A list of blocks that takes one more goes on beginning with genesis.    *)
LEMMA BegunAppend ==
  ASSUME NEW c \in Seq(Block), NEW log \in Seq(Undo), Begun(c, log),
         NEW b \in Block, NEW U \in SUBSET UTxOut
  PROVE  /\ Append(c, b) \in Seq(Block) /\ Len(Append(c, b)) = Len(c) + 1
         /\ Append(log, CollectConsumed(b.data, U)) \in Seq(Undo)
         /\ Begun(Append(c, b), Append(log, CollectConsumed(b.data, U)))
         /\ UpdateUTxOuts(b.data, U, b.index) \in SUBSET UTxOut
<1>1. CollectConsumed(b.data, U) \in Undo
  BY ConsumedType
<1>2. UpdateUTxOuts(b.data, U, b.index) \in SUBSET UTxOut
  BY BlockFields, UpdateType
<1> QED
  BY <1>1, <1>2 DEF Begun

(* Trimming keeps the length of the log.                                   *)
LEMMA TrimType ==
  ASSUME NEW log \in Seq(Undo)
  PROVE  TrimUndoLog(log) \in Seq(Undo) /\ Len(TrimUndoLog(log)) = Len(log)
<1>1. NoUndo \in Undo
  BY DEF Undo
<1> QED
  BY <1>1 DEF TrimUndoLog

(* The chain and its reorganisations begin with genesis.                   *)
LEMMA RoughStep ==
  ASSUME RoughChain, [Next]_vars
  PROVE  RoughChain'
<1> USE DEF RoughChain, TypeOK
<1>1. ASSUME NEW b \in Block, NEW now \in Clock, AddBlockToChain(b, now) PROVE RoughChain'
  <2> DEFINE log == Append(undoLog, CollectConsumed(b.data, uTxOuts))
  <2>1. /\ blockchain' = Append(blockchain, b) /\ undoLog' = TrimUndoLog(log)
        /\ uTxOuts' = UpdateUTxOuts(b.data, uTxOuts, b.index) /\ UNCHANGED locals /\ phase = "idle"
    BY <1>1 DEF AddBlockToChain
  <2>2. /\ blockchain' \in Seq(Block) /\ uTxOuts' \in SUBSET UTxOut
        /\ log \in Seq(Undo) /\ Begun(blockchain', log)
    BY <2>1, BegunAppend
  <2> HIDE DEF log
  <2>3. undoLog' \in Seq(Undo) /\ Len(undoLog') = Len(log)
    BY <2>1, <2>2, TrimType
  <2> QED
    BY <2>1, <2>2, <2>3 DEF Begun, locals
<1>2. ASSUME NEW c \in Candidates, StartReplace(c) PROVE RoughChain'
  <2> DEFINE n == CountCommonPrefix(blockchain, c)
  <2>1. c \in Seq(Block) /\ c # << >> /\ c[1].hash = Genesis.hash
    BY <1>2, BlockAssumption DEF StartReplace
  <2>2. /\ n \in 0..Len(blockchain)
        /\ ~ (/\ n + 1 <= Len(blockchain) /\ n + 1 <= Len(c)
              /\ \A i \in 1..(n + 1) : blockchain[i].hash = c[i].hash)
    BY <2>1, CommonPrefix
  <2>3. n # 0
    <3>1. SUFFICES ASSUME n = 0 PROVE FALSE
      OBVIOUS
    <3>2. 1 <= Len(blockchain) /\ 1 <= Len(c) /\ blockchain[1].hash = c[1].hash
      BY <2>1 DEF Begun
    <3>3. \A i \in 1..(n + 1) : i = 1
      BY <3>1
    <3> QED
      BY <2>2, <3>1, <3>2, <3>3
  <2>4. n \in 1..Len(blockchain) /\ Len(undoLog) = Len(blockchain)
    BY <2>2, <2>3 DEF Begun
  <2>5. /\ candidate' = c /\ common' = n /\ chain' = SubSeq(blockchain, 1, n)
        /\ undo' = SubSeq(undoLog, 1, n) /\ UNCHANGED <<store, atCommon>>
        /\ phase' = "rewind" /\ cursor' = Len(blockchain) /\ working' = uTxOuts
    BY <1>2, <2>4 DEF StartReplace
  <2> HIDE DEF n
  <2>6. /\ chain' \in Seq(Block) /\ Len(chain') = n /\ chain'[1] = Genesis
        /\ undo' \in Seq(Undo) /\ Len(undo') = n
    BY <2>4, <2>5 DEF Begun
  <2>7. Begun(chain', undo')
    BY <2>4, <2>6 DEF Begun
  <2> QED
    BY <2>1, <2>4, <2>5, <2>6, <2>7 DEF store
<1>3. ASSUME RewindBlock PROVE RoughChain'
  <2>1. cursor \in 1..Len(blockchain) /\ cursor - 1 \in Nat
    BY <1>3 DEF RewindBlock
  <2>2. undoLog[cursor] \in SUBSET UTxOut
    BY <1>3, <2>1 DEF RewindBlock, Undo, Begun
  <2>3. working' \in SUBSET UTxOut
    BY <1>3, <2>2 DEF RewindBlock, RollbackTxs
  <2> QED
    BY <1>3, <2>1, <2>3 DEF RewindBlock, store
<1>4. ASSUME UndoMissing PROVE RoughChain'
  <2>1. Len(blockchain) \in Nat
    OBVIOUS
  <2> QED
    BY <1>4, <2>1 DEF UndoMissing, store
<1>5. ASSUME ReplayBlock PROVE RoughChain'
  <2> DEFINE b == chain[cursor + 1]
             consumed == CollectConsumed(b.data, working)
  <2>1. /\ cursor + 1 \in 1..Len(chain) /\ cursor + 1 <= Len(blockchain) /\ phase # "idle"
        /\ cursor + 1 \in Nat
    BY <1>5 DEF ReplayBlock
  <2>2. b \in Block /\ consumed \in Undo
    BY <2>1, ConsumedType
  <2>3. /\ undo' = [undo EXCEPT ![cursor + 1] = consumed] /\ cursor' = cursor + 1
        /\ working' = UpdateUTxOuts(b.data, working, b.index)
        /\ UNCHANGED <<blockchain, uTxOuts, undoLog, phase, candidate, common, atCommon, chain>>
    BY <1>5 DEF ReplayBlock, store
  <2>4. working' \in SUBSET UTxOut
    BY <2>2, <2>3, BlockFields, UpdateType
  <2> HIDE DEF b, consumed
  <2>5. undo' \in Seq(Undo) /\ Len(undo') = Len(undo)
    <3>1. undo \in Seq(Undo) /\ undo' = [undo EXCEPT ![cursor + 1] = consumed]
      BY <2>3
    <3> DEFINE n == Len(undo)
    <3>2. n \in Nat /\ undo \in [1..n -> Undo]
      BY <3>1
    <3> HIDE DEF n
    <3>3. undo' \in [1..n -> Undo]
      BY ONLY <2>2, <3>1, <3>2
    <3> QED
      BY <3>2, <3>3 DEF n
  <2>6. Begun(chain', undo')
    BY <2>1, <2>3, <2>5 DEF Begun
  <2> QED
    BY <2>1, <2>3, <2>4, <2>5, <2>6
<1>6. ASSUME StartApply PROVE RoughChain'
  BY <1>6 DEF StartApply, store
<1>7. ASSUME NEW now \in Clock, ApplyBlock(now) PROVE RoughChain'
  <2> DEFINE b == candidate[Len(chain) + 1]
  <2>1. Len(chain) + 1 \in 1..Len(candidate) /\ phase # "idle"
    BY <1>7 DEF ApplyBlock
  <2>2. b \in Block
    BY <2>1
  <2>3. /\ undo' = Append(undo, CollectConsumed(b.data, working)) /\ chain' = Append(chain, b)
        /\ working' = UpdateUTxOuts(b.data, working, b.index)
        /\ UNCHANGED <<blockchain, uTxOuts, undoLog, phase, candidate, common, cursor, atCommon>>
    BY <1>7 DEF ApplyBlock, store
  <2> HIDE DEF b
  <2>4. /\ chain' \in Seq(Block) /\ Len(chain') = Len(chain) + 1
        /\ undo' \in Seq(Undo) /\ Begun(chain', undo') /\ working' \in SUBSET UTxOut
    BY <2>1, <2>2, <2>3, BegunAppend
  <2> QED
    BY <2>1, <2>3, <2>4
<1>8. ASSUME Return, UNCHANGED store PROVE RoughChain'
  BY <1>8 DEF Return, store
<1>9. ASSUME Adopt PROVE RoughChain'
  <2>1. blockchain' = chain /\ uTxOuts' = working /\ undoLog' = TrimUndoLog(undo) /\ Return /\ phase # "idle"
    BY <1>9 DEF Adopt
  <2>2. undoLog' \in Seq(Undo) /\ Len(undoLog') = Len(undo)
    BY <2>1, TrimType
  <2> QED
    BY <2>1, <2>2 DEF Begun, Return
<1>10. CASE UNCHANGED vars
  BY <1>10 DEF vars, store, locals
<1> QED
  BY <1>1, <1>2, <1>3, <1>4, <1>5, <1>6, <1>7, <1>8, <1>9, <1>10 DEF Next, RejectBlock, RejectLighter

(* What the body cache may be when some bodies have come in.               *)
LEMMA CachedIs ==
  ASSUME NEW cache \in SUBSET (Nat \X Block), IsFiniteSet(cache),
         NEW new \in SUBSET (Nat \X Block), IsFiniteSet(new),
         NEW kept \in CachedWith(cache, new)
  PROVE  /\ kept \in SUBSET (Nat \X Block) /\ IsFiniteSet(kept)
         /\ Cardinality(kept) <= BODY_CACHE_SIZE
         /\ \A e \in kept : e \in new \/ (e \in cache /\ \A d \in new : d[1] # e[1])
<1> DEFINE all == {e \in cache : \A d \in new : d[1] # e[1]} \cup new
<1>1. IsFiniteSet(all)
  <2>1. IsFiniteSet({e \in cache : \A d \in new : d[1] # e[1]})
    BY FS_Subset
  <2> QED
    BY <2>1, FS_Union
<1>2. kept \in SUBSET all /\ Cardinality(kept) <= BODY_CACHE_SIZE
  <2>1. CASE Cardinality(all) <= BODY_CACHE_SIZE
    BY <2>1 DEF CachedWith
  <2>2. CASE ~ (Cardinality(all) <= BODY_CACHE_SIZE)
    <3>1. kept \in SUBSET all /\ Cardinality(kept) = BODY_CACHE_SIZE
      BY <2>2 DEF CachedWith
    <3> QED
      BY <3>1, StoreAssumption
  <2> QED
    BY <2>1, <2>2
<1>3. IsFiniteSet(kept)
  <2> HIDE DEF all
  <2> QED
    BY <1>1, <1>2, FS_Subset
<1> QED
  BY <1>2, <1>3

-----------------------------------------------------------------------------
(* The inductive invariant. *)

\* As far as the file f goes, it starts with the genesis block.
StartsGenesis(f) == \A k \in 1..LineCells[Genesis] : k <= Len(f) => f[k] = <<Genesis, k>>

(* The genesis block is never cut off, and starts every file.              *)
GenesisFirst ==
  /\ StartsGenesis(file)
  /\ \A n \in DOMAIN offsets : n > 1 => offsets[n] >= LineCells[Genesis]
  /\ offsets # << >> => fileSize >= LineCells[Genesis] /\ Len(file) >= LineCells[Genesis]

(* What each mode says of the rest.                                        *)
ModeInv ==
  /\ mode \in {"appending", "snapshotting", "down"} => phase = "idle"
  /\ mode = "replacing" => phase = "apply" /\ Len(chain) >= Len(candidate) /\ Heavier
  /\ mode \in {"running", "snapshotting", "down"} => pending = << >>
  /\ mode = "appending" =>
       /\ Len(pending) = 1
       /\ pending[1] = Genesis <=> offsets = << >>
       /\ pending[1] = Genesis => file = << >> /\ fileSize = 0
  /\ mode \in {"running", "snapshotting", "replacing"} => offsets # << >>
  /\ mode = "down" => offsets = << >> /\ bodyCache = {} /\ blockchain = <<Genesis>>

\* The blocks whose lines are complete.
OnDisk ==
  CASE mode \in {"running", "snapshotting"} -> blockchain
    [] mode = "appending" -> Prefix(blockchain, Len(blockchain) - 1)
    [] mode = "replacing" -> Prefix(chain, Len(chain) - Len(pending))

\* What a start will find: valid blocks, and at most a torn line.
Recoverable(f) ==
  \E bs \in Seq(Block) :
    Sound(bs) /\ Revalidates(bs) /\ Starts(f, bs) /\ NoLineAfter(f, Cells(bs))

\* The cached bodies are those of the chain.
BodiesRight ==
  \A e \in bodyCache :
    /\ e[1] < Len(blockchain) /\ e[2] = blockchain[e[1] + 1]
    /\ mode = "replacing" => e[1] < common

(* As long as every block in memory could be written.                      *)
Exact ==
  /\ ChainInv
  /\ mode # "down" => Holds(file, offsets, fileSize, OnDisk)
  /\ mode = "appending" => pending[1] = blockchain[Len(blockchain)]
  /\ mode = "replacing" =>
       /\ Len(pending) <= Len(chain) - common
       /\ pending = SubSeq(chain, Len(chain) - Len(pending) + 1, Len(chain))
  /\ mode = "down" => Recoverable(file)
  /\ BodiesRight

DiskInv ==
  /\ StoreTypeOK /\ IsFiniteSet(bodyCache)
  /\ RoughChain /\ GenesisFirst /\ ModeInv
  /\ ~ damaged => Exact

-----------------------------------------------------------------------------
(* Every step keeps it. *)

(* A file that has the genesis block keeps it when more is appended.       *)
LEMMA GenesisStays ==
  ASSUME NEW f \in Seq(Cell), StartsGenesis(f), Len(f) >= LineCells[Genesis], NEW l \in Seq(Cell)
  PROVE  /\ f \o l \in Seq(Cell) /\ Len(f \o l) >= LineCells[Genesis]
         /\ StartsGenesis(f \o l)
<1>1. LineCells[Genesis] \in Nat
  BY LineIs, GenesisAssumption
<1>2. Len(f \o l) = Len(f) + Len(l) /\ \A k \in 1..Len(f) : (f \o l)[k] = f[k]
  OBVIOUS
<1>3. f \o l \in Seq(Cell)
  OBVIOUS
<1>4. Len(f) \in Nat /\ Len(l) \in Nat
  OBVIOUS
<1>5. \A k \in 1..LineCells[Genesis] : k \in 1..Len(f) /\ k <= Len(f)
  BY <1>1, <1>4
<1> QED
  BY <1>1, <1>2, <1>3, <1>4, <1>5 DEF StartsGenesis

(* Some cells of a line.                                                   *)
LEMMA CellsType ==
  ASSUME NEW b \in Block, NEW w \in 0..LineCells[b]
  PROVE  /\ SubSeq(Line(b), 1, w) \in Seq(Cell) /\ Len(SubSeq(Line(b), 1, w)) = w
         /\ \A k \in 1..w : SubSeq(Line(b), 1, w)[k] = <<b, k>>
<1>1. /\ LineCells[b] \in Nat /\ Line(b) \in Seq(Cell) /\ Len(Line(b)) = LineCells[b]
      /\ \A k \in 1..LineCells[b] : Line(b)[k] = <<b, k>>
  BY LineIs
<1>2. /\ SubSeq(Line(b), 1, w) \in Seq(Cell) /\ Len(SubSeq(Line(b), 1, w)) = w
      /\ \A k \in 1..w : k \in 1..LineCells[b] /\ SubSeq(Line(b), 1, w)[k] = Line(b)[k]
  BY <1>1
<1> QED
  BY <1>1, <1>2

(* An exact chain begins with genesis.                                     *)
LEMMA ExactRough ==
  ASSUME ChainInv, phase = "idle"
  PROVE  RoughChain
BY DEF ChainInv, StoreInv, UndoRestores, UndoMatches, RoughChain, Begun

(* What the process held is gone.                                          *)
LEMMA Forgotten ==
  ASSUME Forget
  PROVE  ChainInv' /\ RoughChain'
<1>1. Init'
  BY DEF Forget, Return, Init
<1>2. ChainInv'
  BY <1>1, InitInv, PTL
<1>3. ChainInv /\ phase = "idle" => RoughChain
  BY ExactRough
<1>4. phase' = "idle"
  BY DEF Forget, Return
<1>5. (ChainInv /\ phase = "idle" => RoughChain)'
  BY ExactRough, PTL
<1> QED
  BY <1>2, <1>4, <1>5

(* A prefix of what is on disk when a write is cut short is found again.   *)
LEMMA TornFile ==
  ASSUME DiskInv, mode # "down", TornAppend
  PROVE  /\ file' \in Seq(Cell) /\ StartsGenesis(file')
         /\ ~ damaged => Recoverable(file')
<1>1. /\ file \in Seq(Cell) /\ pending \in Seq(Block) /\ StartsGenesis(file)
      /\ pending = << >> \/ (pending # << >> /\ Head(pending) = pending[1] /\ pending[1] \in Block)
  BY DEF DiskInv, StoreTypeOK, GenesisFirst, Cell
<1>2. pending # << >> =>
        \E w \in 0..(LineCells[pending[1]] - 1) : file' = file \o SubSeq(Line(pending[1]), 1, w)
  BY <1>1 DEF TornAppend
<1>3. pending = << >> => file' = file
  BY DEF TornAppend
<1>4. file' \in Seq(Cell) /\ StartsGenesis(file')
  <2>1. CASE pending = << >>
    BY <1>1, <1>3, <2>1
  <2>2. CASE pending # << >>
    <3> DEFINE b == pending[1]
    <3>1. PICK w \in 0..(LineCells[b] - 1) : file' = file \o SubSeq(Line(b), 1, w)
      BY <1>2, <2>2
    <3>2. b \in Block /\ LineCells[b] \in Nat
      BY <1>1, <2>2, LineIs
    <3> DEFINE l == SubSeq(Line(b), 1, w)
    <3>3. l \in Seq(Cell) /\ Len(l) = w /\ \A k \in 1..w : l[k] = <<b, k>>
      <4>1. w \in 0..LineCells[b]
        BY <3>2
      <4> QED
        BY <3>2, <4>1, CellsType
    <3> HIDE DEF l
    <3>4. CASE Len(file) >= LineCells[Genesis]
      BY <1>1, <3>1, <3>3, <3>4, GenesisStays DEF l
    <3>5. CASE ~ (Len(file) >= LineCells[Genesis])
      <4>1. offsets = << >>
        BY <3>5 DEF DiskInv, GenesisFirst
      <4>2. file = << >> /\ b = Genesis
        BY <2>2, <4>1 DEF DiskInv, ModeInv, StoreTypeOK
      <4>3. file' = l
        BY <3>1, <3>3, <4>2 DEF l
      <4> QED
        BY <3>3, <4>2, <4>3 DEF StartsGenesis
    <3> QED
      BY <3>4, <3>5
  <2> QED
    BY <2>1, <2>2
<1>5. ASSUME ~ damaged PROVE Recoverable(file')
  <2> DEFINE bs == OnDisk
  <2>1. ChainInv /\ Holds(file, offsets, fileSize, bs)
    BY <1>5 DEF DiskInv, Exact
  <2>2. bs \in Seq(Block) /\ Sound(bs) /\ Revalidates(bs)
    <3>1. blockchain \in Seq(Block) /\ Sound(blockchain) /\ Revalidates(blockchain) /\ blockchain # << >>
      BY <2>1 DEF ChainInv, TypeOK, StoreInv
    <3>2. CASE mode \in {"running", "snapshotting"}
      BY <3>1, <3>2 DEF OnDisk
    <3>3. CASE mode = "appending"
      <4>1. bs = Prefix(blockchain, Len(blockchain) - 1) /\ Len(blockchain) - 1 \in 0..Len(blockchain)
        BY <3>1, <3>3 DEF OnDisk
      <4> QED
        BY <3>1, <4>1, PrefixFacts, PrefixSound, RevalidatesPrefix
    <3>4. CASE mode = "replacing"
      <4>1. chain \in Seq(Block) /\ Sound(chain) /\ Revalidates(chain)
        BY <2>1, <3>4 DEF ChainInv, TypeOK, ForkInv, DiskInv, ModeInv
      <4>2. bs = Prefix(chain, Len(chain) - Len(pending))
        BY <3>4 DEF OnDisk
      <4>3. Len(chain) - Len(pending) \in 0..Len(chain)
        <5>1. Len(pending) <= Len(chain) - common /\ Len(pending) \in Nat /\ Len(chain) \in Nat /\ common \in Nat
          BY <1>1, <1>5, <3>4, <4>1 DEF DiskInv, Exact, RoughChain, TypeOK
        <5> QED
          BY <5>1
      <4> QED
        BY <4>1, <4>2, <4>3, PrefixFacts, PrefixSound, RevalidatesPrefix
    <3> QED
      BY <3>2, <3>3, <3>4 DEF DiskInv, StoreTypeOK
  <2> HIDE DEF bs
  <2>3. Starts(file, bs) /\ Len(file) = Cells(bs) /\ Cells(bs) \in Nat
    BY <2>1, <2>2, CellsOf DEF Holds
  <2>4. Starts(file', bs) /\ NoLineAfter(file', Cells(bs))
    <3>1. CASE pending = << >>
      <4>1. (Cells(bs) + 1)..Len(file) = {}
        BY <2>3
      <4> QED
        BY <1>3, <2>3, <3>1, <4>1 DEF NoLineAfter
    <3>2. CASE pending # << >>
      BY <1>1, <1>2, <2>2, <2>3, <3>2, TornLine
    <3> QED
      BY <3>1, <3>2
  <2> QED
    BY <2>2, <2>4 DEF Recoverable
<1> QED
  BY <1>4, <1>5

(* The process dies, or starts over.                                       *)
LEMMA ForgetInv ==
  ASSUME DiskInv, mode # "down", TornAppend, Forget,
         snapshot' = NoSnapshot \/ snapshot' \in [height : Nat, tipHash : {b.hash : b \in Block}]
  PROVE  DiskInv'
<1>1. ChainInv' /\ RoughChain'
  BY Forgotten
<1>2. /\ file' \in Seq(Cell) /\ StartsGenesis(file)'
      /\ ~ damaged => Recoverable(file)'
  BY TornFile DEF StartsGenesis, Recoverable
<1>3. /\ offsets' = << >> /\ fileSize' = 0 /\ bodyCache' = {} /\ pending' = << >> /\ mode' = "down"
      /\ damaged' = damaged /\ blockchain' = <<Genesis>> /\ phase' = "idle"
  BY DEF Forget, Return
<1>4. IsFiniteSet({}) /\ Cardinality({}) = 0
  BY FS_EmptySet
<1>5. StoreTypeOK'
  BY <1>2, <1>3, <1>4, StoreAssumption DEF StoreTypeOK, Cell, DiskInv
<1>6. GenesisFirst'
  BY <1>2, <1>3 DEF GenesisFirst
<1>7. ModeInv'
  BY <1>3 DEF ModeInv
<1>8. ~ damaged => Exact'
  BY <1>1, <1>2, <1>3 DEF Exact, BodiesRight
<1> QED
  BY <1>1, <1>3, <1>4, <1>5, <1>6, <1>7, <1>8 DEF DiskInv

(* One more body is cached.                                                *)
LEMMA OneBody ==
  ASSUME DiskInv, NEW h \in Nat, NEW b \in Block, bodyCache' \in CachedWith(bodyCache, {<<h, b>>})
  PROVE  /\ bodyCache' \in SUBSET (Nat \X Block) /\ IsFiniteSet(bodyCache')
         /\ Cardinality(bodyCache') <= BODY_CACHE_SIZE
         /\ \A e \in bodyCache' : (e[1] = h /\ e[2] = b) \/ e \in bodyCache
<1> DEFINE new == {<<h, b>>}
<1>1. new \in SUBSET (Nat \X Block) /\ IsFiniteSet(new)
  <2>1. IsFiniteSet(new)
    BY FS_Singleton
  <2>2. <<h, b>> \in Nat \X Block
    OBVIOUS
  <2> QED
    BY <2>1, <2>2
<1>2. bodyCache \in SUBSET (Nat \X Block) /\ IsFiniteSet(bodyCache) /\ bodyCache' \in CachedWith(bodyCache, new)
  BY DEF DiskInv, StoreTypeOK
<1>3. \A e \in new : e[1] = h /\ e[2] = b
  OBVIOUS
<1> HIDE DEF new
<1>4. /\ bodyCache' \in SUBSET (Nat \X Block) /\ IsFiniteSet(bodyCache')
      /\ Cardinality(bodyCache') <= BODY_CACHE_SIZE
      /\ \A e \in bodyCache' : e \in new \/ e \in bodyCache
  BY <1>1, <1>2, CachedIs
<1> QED
  BY <1>3, <1>4

(* A block goes into memory (addBlockToChain).                             *)
LEMMA StoreAddInv ==
  ASSUME DiskInv, NEW b \in Block, NEW now \in Clock, StoreAddBlock(b, now)
  PROVE  DiskInv'
<1>1. /\ mode = "running" /\ mode' = "appending" /\ AddBlockToChain(b, now) /\ pending' = <<b>>
      /\ bodyCache' \in CachedWith(bodyCache, {<<Len(blockchain), b>>})
      /\ UNCHANGED <<file, snapshot, offsets, fileSize, damaged>>
  BY DEF StoreAddBlock, disk, index
<1>2. /\ blockchain \in Seq(Block) /\ blockchain # << >> /\ phase = "idle" /\ phase' = "idle"
      /\ blockchain' = Append(blockchain, b) /\ IsBlockValid(b, blockchain, now)
  BY <1>1 DEF DiskInv, RoughChain, Begun, TypeOK, AddBlockToChain, locals
<1>3. Len(blockchain) \in Nat /\ Len(blockchain) # 0
  BY <1>2
<1>4. RoughChain'
  BY <1>1, RoughStep DEF DiskInv, Next
<1>5. b # Genesis
  <2>1. Tip(blockchain) \in Block
    BY <1>2, <1>3 DEF Tip
  <2>2. Tip(blockchain).index \in Nat /\ b.index = Tip(blockchain).index + 1
    BY <1>2, <2>1, BlockFields DEF IsBlockValid, IsHeaderValid
  <2> QED
    BY <2>2, GenesisAssumption
<1>6. /\ bodyCache' \in SUBSET (Nat \X Block) /\ IsFiniteSet(bodyCache')
      /\ Cardinality(bodyCache') <= BODY_CACHE_SIZE
      /\ \A e \in bodyCache' : (e[1] = Len(blockchain) /\ e[2] = b) \/ e \in bodyCache
  BY <1>1, <1>3, OneBody
<1>7. pending' \in Seq(Block) /\ Len(pending') = 1 /\ pending'[1] = b
  BY <1>1
<1>8. StoreTypeOK'
  BY <1>1, <1>6, <1>7 DEF DiskInv, StoreTypeOK
<1>9. GenesisFirst'
  BY <1>1 DEF DiskInv, GenesisFirst, StartsGenesis
<1>10. ModeInv'
  BY <1>1, <1>2, <1>5, <1>7 DEF DiskInv, ModeInv
<1>11. ASSUME ~ damaged PROVE Exact'
  <2>1. ChainInv /\ Holds(file, offsets, fileSize, blockchain) /\ BodiesRight
    BY <1>1, <1>11 DEF DiskInv, Exact, OnDisk
  <2>2. ChainInv'
    BY <1>1, <2>1, AddBlockInv
  <2>3. OnDisk' = blockchain
    <3>1. OnDisk' = Prefix(Append(blockchain, b), Len(Append(blockchain, b)) - 1)
      BY <1>1, <1>2 DEF OnDisk
    <3>2. Len(Append(blockchain, b)) - 1 = Len(blockchain) /\ Len(blockchain) \in 0..Len(blockchain)
      BY <1>2
    <3>3. Prefix(Append(blockchain, b), Len(blockchain)) = Prefix(blockchain, Len(blockchain))
      BY <1>2, <3>2, AppendGrows
    <3> QED
      BY <1>2, <3>1, <3>2, <3>3, PrefixOfAll
  <2>4. /\ Len(blockchain') = Len(blockchain) + 1 /\ blockchain'[Len(blockchain) + 1] = b
        /\ \A n \in 1..Len(blockchain) : blockchain'[n] = blockchain[n]
    BY <1>2
  <2>5. BodiesRight'
    <3>1. ASSUME NEW e \in bodyCache'
          PROVE  e[1] < Len(blockchain') /\ e[2] = blockchain'[e[1] + 1]
      <4>1. CASE e[1] = Len(blockchain) /\ e[2] = b
        BY <1>3, <2>4, <4>1
      <4>2. CASE e \in bodyCache
        <5>1. e[1] < Len(blockchain) /\ e[2] = blockchain[e[1] + 1] /\ e[1] \in Nat
          BY <2>1, <4>2 DEF BodiesRight, DiskInv, StoreTypeOK
        <5>2. e[1] + 1 \in 1..Len(blockchain)
          BY <1>3, <5>1
        <5> QED
          BY <1>3, <2>4, <5>1, <5>2
      <4> QED
        BY <1>6, <4>1, <4>2
    <3> QED
      BY <1>1, <3>1 DEF BodiesRight
  <2> QED
    BY <1>1, <1>7, <2>1, <2>2, <2>3, <2>4, <2>5 DEF Exact
<1> QED
  BY <1>1, <1>4, <1>6, <1>8, <1>9, <1>10, <1>11 DEF DiskInv

(* A line that is appended comes after the genesis block.                  *)
LEMMA AppendCellsKeep ==
  ASSUME DiskInv, offsets # << >>, NEW b \in Block, NEW w \in 0..LineCells[b], AppendCells(b, w)
  PROVE  /\ file' \in Seq(Cell) /\ offsets' \in Seq(Nat) /\ offsets' # << >> /\ fileSize' \in Nat
         /\ GenesisFirst'
<1> DEFINE l == SubSeq(Line(b), 1, w)
<1>1. /\ offsets' = Append(offsets, fileSize) /\ fileSize' = fileSize + LineCells[b] /\ file' = file \o l
      /\ file \in Seq(Cell) /\ offsets \in Seq(Nat) /\ fileSize \in Nat
  BY DEF AppendCells, DiskInv, StoreTypeOK, Cell
<1>2. LineCells[b] \in Nat /\ l \in Seq(Cell)
  BY LineIs, CellsType
<1> HIDE DEF l
<1>3. /\ offsets' \in Seq(Nat) /\ offsets' # << >> /\ Len(offsets') = Len(offsets) + 1
      /\ \A n \in 1..Len(offsets) : offsets'[n] = offsets[n]
      /\ offsets'[Len(offsets) + 1] = fileSize
  <2>1. offsets \in Seq(Nat) /\ fileSize \in Nat /\ offsets' = Append(offsets, fileSize)
    BY <1>1
  <2> QED
    BY ONLY <2>1
<1>4. file' \in Seq(Cell) /\ fileSize' \in Nat
  BY <1>1, <1>2
<1>5. /\ fileSize >= LineCells[Genesis] /\ Len(file) >= LineCells[Genesis]
      /\ StartsGenesis(file) /\ LineCells[Genesis] \in Nat
      /\ \A n \in DOMAIN offsets : n > 1 => offsets[n] >= LineCells[Genesis]
  BY LineIs, GenesisAssumption DEF DiskInv, GenesisFirst
<1>6. StartsGenesis(file') /\ Len(file') >= LineCells[Genesis]
  BY <1>1, <1>2, <1>5, GenesisStays
<1>7. ASSUME NEW n \in DOMAIN offsets', n > 1 PROVE offsets'[n] >= LineCells[Genesis]
  <2>1. n \in 1..Len(offsets) \/ n = Len(offsets) + 1
    BY <1>1, <1>3
  <2> QED
    BY <1>3, <1>5, <1>7, <2>1
<1>8. fileSize' >= LineCells[Genesis]
  BY <1>1, <1>2, <1>5
<1>9. GenesisFirst'
  BY <1>6, <1>7, <1>8 DEF GenesisFirst, StartsGenesis
<1> QED
  BY <1>3, <1>4, <1>9

(* What is under way when one block is to be written.                       *)
LEMMA Appending ==
  ASSUME DiskInv, mode = "appending"
  PROVE  /\ pending \in Seq(Block) /\ Len(pending) = 1 /\ pending[1] \in Block
         /\ Head(pending) = pending[1] /\ phase = "idle"
         /\ pending[1] = Genesis <=> offsets = << >>
         /\ pending[1] = Genesis => file = << >> /\ fileSize = 0
         /\ file \in Seq(Cell) /\ offsets \in Seq(Nat) /\ fileSize \in Nat
<1>1. pending \in Seq(Block) /\ file \in Seq(Cell) /\ offsets \in Seq(Nat) /\ fileSize \in Nat
  BY DEF DiskInv, StoreTypeOK, Cell
<1>2. ModeInv
  BY DEF DiskInv
<1>3. Len(pending) = 1 /\ phase = "idle"
  BY <1>2 DEF ModeInv
<1>4. (pending[1] = Genesis <=> offsets = << >>) /\ (pending[1] = Genesis => file = << >> /\ fileSize = 0)
  BY <1>2 DEF ModeInv
<1>5. pending[1] \in Block /\ Head(pending) = pending[1]
  <2>1. pending # << >> /\ 1 \in 1..Len(pending)
    BY <1>3
  <2>2. pending[1] \in Block
    BY <1>1, <2>1
  <2> QED
    BY <1>1, <2>1, <2>2
<1> QED
  BY <1>1, <1>3, <1>4, <1>5

(* Its line is written (appendBlock).                                      *)
LEMMA AppendNewInv ==
  ASSUME DiskInv, AppendNewBlock
  PROVE  DiskInv'
<1> DEFINE b == pending[1]
           l == SubSeq(Line(b), 1, LineCells[b])
<1>1. /\ mode = "appending" /\ pending \in Seq(Block) /\ Len(pending) = 1
      /\ Head(pending) = b /\ b \in Block /\ phase = "idle"
      /\ b = Genesis <=> offsets = << >>
      /\ b = Genesis => file = << >> /\ fileSize = 0
      /\ file \in Seq(Cell) /\ offsets \in Seq(Nat) /\ fileSize \in Nat
  <2>1. mode = "appending"
    BY DEF AppendNewBlock
  <2> QED
    BY <2>1, Appending
<1>2. /\ offsets' = Append(offsets, fileSize) /\ fileSize' = fileSize + LineCells[b]
      /\ file' = file \o l /\ pending' = << >> /\ mode' \in {"running", "snapshotting"}
      /\ UNCHANGED <<vars, snapshot, bodyCache, damaged>>
  BY <1>1 DEF AppendNewBlock, AppendBlock, AppendCells
<1>3. /\ LineCells[b] \in Nat /\ LineCells[b] >= 1 /\ l \in Seq(Cell) /\ Len(l) = LineCells[b]
      /\ \A k \in 1..LineCells[b] : l[k] = <<b, k>>
  <2>1. LineCells[b] \in Nat /\ LineCells[b] >= 1 /\ LineCells[b] \in 0..LineCells[b]
    BY <1>1, LineIs
  <2> QED
    BY <1>1, <2>1, CellsType
<1>4. blockchain' = blockchain /\ phase' = phase /\ common' = common
  BY <1>2 DEF vars, store, locals
<1> HIDE DEF l, b
<1>5. offsets' # << >> /\ GenesisFirst' /\ file' \in Seq(Cell) /\ offsets' \in Seq(Nat) /\ fileSize' \in Nat
  <2>1. CASE offsets = << >>
    <3>1. b = Genesis /\ offsets' = <<0>> /\ file' = l /\ fileSize' = LineCells[Genesis]
      BY <1>1, <1>2, <1>3, <2>1
    <3>2. offsets' \in Seq(Nat) /\ \A n \in DOMAIN offsets' : ~ (n > 1)
      BY <3>1
    <3>3. offsets' # << >>
      BY <3>1
    <3> QED
      BY <1>3, <3>1, <3>2, <3>3 DEF GenesisFirst, StartsGenesis
  <2>2. CASE offsets # << >>
    <3>1. AppendCells(b, LineCells[b]) /\ LineCells[b] \in 0..LineCells[b]
      BY <1>1, <1>3 DEF AppendNewBlock, AppendBlock
    <3> QED
      BY <1>1, <2>2, <3>1, AppendCellsKeep
  <2> QED
    BY <2>1, <2>2
<1>6. StoreTypeOK'
  BY <1>2, <1>5 DEF DiskInv, StoreTypeOK, Cell
<1>7. ModeInv'
  BY <1>1, <1>2, <1>4, <1>5 DEF ModeInv
<1>8. RoughChain'
  BY <1>2, RoughStep DEF DiskInv
<1>9. ASSUME ~ damaged PROVE Exact'
  <2> DEFINE bs == Prefix(blockchain, Len(blockchain) - 1)
  <2>1. ChainInv /\ Holds(file, offsets, fileSize, bs) /\ b = blockchain[Len(blockchain)] /\ BodiesRight
    BY <1>1, <1>9 DEF DiskInv, Exact, OnDisk, b
  <2>2. ChainInv'
    BY <1>2, <2>1, NextInv
  <2>3. blockchain \in Seq(Block) /\ Len(blockchain) \in 1..Len(blockchain)
    BY DEF DiskInv, RoughChain, Begun, TypeOK
  <2>4. bs \in Seq(Block) /\ Append(bs, b) = blockchain
    BY <2>1, <2>3, PrefixAppend, PrefixOfAll
  <2> HIDE DEF bs
  <2>5. Holds(file', offsets', fileSize', blockchain)
    BY <1>1, <1>2, <2>1, <2>4, HoldsAppend DEF l
  <2>6. OnDisk' = blockchain
    BY <1>2, <1>4 DEF OnDisk
  <2>7. BodiesRight'
    BY <1>2, <1>4, <2>1 DEF BodiesRight
  <2> QED
    BY <1>2, <2>2, <2>5, <2>6, <2>7 DEF Exact
<1> QED
  BY <1>2, <1>5, <1>6, <1>7, <1>8, <1>9 DEF DiskInv

(* Its line is not written, or not all of it.                              *)
LEMMA AppendFailsInv ==
  ASSUME DiskInv, AppendFails
  PROVE  DiskInv'
<1> DEFINE b == pending[1]
<1>1. Head(pending) = b /\ b \in Block /\ phase = "idle" /\ offsets # << >> /\ LineCells[b] \in Nat
  <2>1. mode = "appending" /\ Head(pending) # Genesis
    BY DEF AppendFails
  <2> QED
    BY <2>1, Appending, LineIs
<1>2. PICK w \in 0..(LineCells[b] - 1) : AppendCells(b, w)
  BY <1>1 DEF AppendFails
<1>3. pending' = << >> /\ mode' = "running" /\ damaged' = TRUE /\ UNCHANGED <<vars, snapshot, bodyCache>>
  BY DEF AppendFails
<1>4. offsets' # << >> /\ GenesisFirst' /\ file' \in Seq(Cell) /\ offsets' \in Seq(Nat) /\ fileSize' \in Nat
  <2>1. w \in 0..LineCells[b]
    BY <1>1
  <2> QED
    BY <1>1, <1>2, <2>1, AppendCellsKeep
<1> HIDE DEF b
<1>5. StoreTypeOK'
  BY <1>3, <1>4 DEF DiskInv, StoreTypeOK, Cell
<1>6. ModeInv'
  BY <1>3, <1>4 DEF ModeInv
<1>7. RoughChain'
  BY <1>3, RoughStep DEF DiskInv
<1> QED
  BY <1>3, <1>4, <1>5, <1>6, <1>7 DEF DiskInv

(* The snapshot names the height and the hash of the tip.                  *)
LEMMA SnapshotType ==
  ASSUME DiskInv, TakeSnapshot
  PROVE  snapshot' \in [height : Nat, tipHash : {b.hash : b \in Block}]
<1>1. blockchain \in Seq(Block) /\ Len(blockchain) \in Nat /\ Len(blockchain) # 0
  BY DEF DiskInv, RoughChain, Begun, TypeOK
<1>2. Tip(blockchain) \in Block /\ Len(blockchain) - 1 \in Nat
  BY <1>1 DEF Tip
<1> QED
  BY <1>2 DEF TakeSnapshot

(* The snapshot is written, or its write throws (persistChainstate).       *)
LEMMA PersistInv ==
  ASSUME DiskInv, PersistChainstate \/ SnapshotFails
  PROVE  DiskInv'
<1>1. /\ mode = "snapshotting" /\ mode' = "running" /\ (TakeSnapshot \/ snapshot' = snapshot)
      /\ UNCHANGED <<vars, file, offsets, fileSize, bodyCache, pending, damaged>>
  BY DEF PersistChainstate, SnapshotFails, index, disk
<1>2. snapshot' = NoSnapshot \/ snapshot' \in [height : Nat, tipHash : {b.hash : b \in Block}]
  BY <1>1, SnapshotType DEF DiskInv, StoreTypeOK
<1>3. blockchain' = blockchain /\ phase' = phase
  BY <1>1 DEF vars, store, locals
<1>4. RoughChain'
  BY <1>1, RoughStep DEF DiskInv
<1>5. StoreTypeOK' /\ GenesisFirst' /\ ModeInv'
  <2>1. StoreTypeOK /\ GenesisFirst /\ ModeInv
    BY DEF DiskInv
  <2>2. GenesisFirst' /\ ModeInv'
    BY <1>1, <1>3, <2>1 DEF GenesisFirst, StartsGenesis, ModeInv
  <2>3. StoreTypeOK'
    <3> DEFINE Snapshots == [height : Nat, tipHash : {b.hash : b \in Block}]
    <3>1. snapshot' = NoSnapshot \/ snapshot' \in Snapshots
      BY <1>2
    <3> HIDE DEF Snapshots
    <3> QED BY <1>1, <2>1, <3>1 DEF StoreTypeOK, Snapshots
  <2> QED BY <2>2, <2>3
<1>6. ASSUME ~ damaged PROVE Exact'
  <2>1. ChainInv'
    BY <1>1, <1>6, NextInv DEF DiskInv, Exact
  <2>2. OnDisk' = blockchain /\ OnDisk = blockchain
    BY <1>1, <1>3 DEF OnDisk
  <2> QED
    BY <1>1, <1>3, <1>6, <2>1, <2>2 DEF DiskInv, Exact, BodiesRight
<1> QED
  BY <1>1, <1>4, <1>5, <1>6 DEF DiskInv

(* A body is read from the file (bodyAt).                                  *)
LEMMA ReadBodyInv ==
  ASSUME DiskInv, NEW height \in 0..(Len(blockchain) - 1), ReadBody(height)
  PROVE  DiskInv'
<1>1. /\ mode = "running" /\ mode' = mode
      /\ UNCHANGED <<vars, file, snapshot, offsets, fileSize, pending, damaged>>
  BY DEF ReadBody, disk, index
<1>2. PICK b \in ReadBlockAt(height) : bodyCache' \in CachedWith(bodyCache, {<<height, b>>})
  BY DEF ReadBody
<1>3. /\ blockchain \in Seq(Block) /\ height \in Nat /\ height < Len(blockchain)
      /\ height + 1 \in 1..Len(blockchain) /\ (height + 1) - 1 = height
  BY DEF DiskInv, RoughChain, TypeOK
<1>4. b \in Block
  BY <1>2 DEF ReadBlockAt
<1>5. /\ bodyCache' \in SUBSET (Nat \X Block) /\ IsFiniteSet(bodyCache')
      /\ Cardinality(bodyCache') <= BODY_CACHE_SIZE
      /\ \A e \in bodyCache' : (e[1] = height /\ e[2] = b) \/ e \in bodyCache
  BY <1>2, <1>3, <1>4, OneBody
<1>6. blockchain' = blockchain /\ phase' = phase /\ common' = common
  BY <1>1 DEF vars, store, locals
<1>7. RoughChain'
  BY <1>1, RoughStep DEF DiskInv
<1>8. StoreTypeOK' /\ GenesisFirst'
  BY <1>1, <1>5 DEF DiskInv, StoreTypeOK, GenesisFirst, StartsGenesis
<1>9. ModeInv'
  BY <1>1 DEF DiskInv, ModeInv
<1>10. ASSUME ~ damaged PROVE Exact'
  <2>1. ChainInv /\ Holds(file, offsets, fileSize, blockchain) /\ BodiesRight
    BY <1>1, <1>10 DEF DiskInv, Exact, OnDisk
  <2>2. ChainInv'
    BY <1>1, <2>1, NextInv
  <2>3. b = blockchain[height + 1]
    <3>1. file \in Seq(Cell)
      BY DEF DiskInv, StoreTypeOK, Cell
    <3>2. ReadBlockAt((height + 1) - 1) = {blockchain[height + 1]}
      BY <1>3, <2>1, <3>1, HoldsRead
    <3> QED
      BY <1>2, <1>3, <3>2
  <2>4. BodiesRight'
    BY <1>1, <1>3, <1>5, <1>6, <2>1, <2>3 DEF BodiesRight
  <2>5. OnDisk' = blockchain
    BY <1>1, <1>6 DEF OnDisk
  <2> QED
    BY <1>1, <2>1, <2>2, <2>4, <2>5 DEF Exact
<1> QED
  BY <1>1, <1>5, <1>7, <1>8, <1>9, <1>10 DEF DiskInv

(* A reorganisation is prepared (replaceChain).                            *)
LEMMA StoreReplaceInv ==
  ASSUME DiskInv, StoreReplaceStep
  PROVE  DiskInv'
<1>1. /\ mode = "running" /\ mode' = mode /\ Next
      /\ UNCHANGED <<file, snapshot, offsets, fileSize, bodyCache, pending, damaged>>
  BY DEF StoreReplaceStep, Next, disk, index
<1>2. blockchain' = blockchain
  BY DEF StoreReplaceStep, StartReplace, RewindBlock, UndoMissing, ReplayBlock, StartApply, ApplyBlock,
         RejectBlock, RejectLighter, store
<1>3. RoughChain'
  BY <1>1, RoughStep DEF DiskInv
<1>4. StoreTypeOK' /\ GenesisFirst'
  BY <1>1 DEF DiskInv, StoreTypeOK, GenesisFirst, StartsGenesis
<1>5. ModeInv'
  BY <1>1 DEF DiskInv, ModeInv
<1>6. ASSUME ~ damaged PROVE Exact'
  <2>1. ChainInv /\ Holds(file, offsets, fileSize, blockchain) /\ BodiesRight
    BY <1>1, <1>6 DEF DiskInv, Exact, OnDisk
  <2>2. ChainInv'
    BY <1>1, <2>1, NextInv
  <2>3. BodiesRight' /\ OnDisk' = blockchain
    BY <1>1, <1>2, <2>1 DEF BodiesRight, OnDisk
  <2> QED
    BY <1>1, <2>1, <2>2, <2>3 DEF Exact
<1> QED
  BY <1>1, <1>3, <1>4, <1>5, <1>6 DEF DiskInv

(* The file is cut at a block (truncateBlocksTo).                          *)
LEMMA TruncateKeeps ==
  ASSUME DiskInv, offsets # << >>, NEW n \in Nat \ {0}, TruncateBlocksTo(n)
  PROVE  /\ file' \in Seq(Cell) /\ offsets' \in Seq(Nat) /\ offsets' # << >> /\ fileSize' \in Nat
         /\ GenesisFirst'
<1>1. file \in Seq(Cell) /\ offsets \in Seq(Nat) /\ fileSize \in Nat /\ GenesisFirst
  BY DEF DiskInv, StoreTypeOK, Cell
<1>2. CASE n >= Len(offsets)
  BY <1>1, <1>2 DEF TruncateBlocksTo, index, GenesisFirst, StartsGenesis
<1>3. CASE ~ (n >= Len(offsets))
  <2> DEFINE size == offsets[n + 1]
  <2>1. file' = Resized(file, size) /\ offsets' = SubSeq(offsets, 1, n) /\ fileSize' = size
    BY <1>3 DEF TruncateBlocksTo
  <2>2. n + 1 \in DOMAIN offsets /\ n + 1 > 1 /\ n < Len(offsets)
    BY <1>1, <1>3
  <2>3. size \in Nat /\ size >= LineCells[Genesis] /\ LineCells[Genesis] \in Nat
    BY <1>1, <2>2, LineIs, GenesisAssumption DEF GenesisFirst
  <2>4. /\ offsets' \in Seq(Nat) /\ offsets' # << >>
        /\ \A i \in DOMAIN offsets' : i \in DOMAIN offsets /\ offsets'[i] = offsets[i]
    <3>1. offsets \in Seq(Nat) /\ n \in 1..Len(offsets) /\ offsets' = SubSeq(offsets, 1, n)
      BY <1>1, <2>1, <2>2
    <3> QED
      BY ONLY <3>1
  <2> HIDE DEF size
  <2>5. /\ file' \in Seq(Cell) /\ Len(file') = size
        /\ \A i \in 1..size : i <= Len(file) => file'[i] = file[i]
    <3>1. <<Genesis, 0>> \in Cell
      BY GenesisAssumption DEF Cell
    <3> DEFINE g == [i \in 1..size |-> IF i <= Len(file) THEN file[i] ELSE <<Genesis, 0>>]
    <3>2. \A i \in 1..size : (IF i <= Len(file) THEN file[i] ELSE <<Genesis, 0>>) \in Cell
      BY <1>1, <2>3, <3>1
    <3>3. g \in Seq(Cell) /\ Len(g) = size /\ \A i \in 1..size : i <= Len(file) => g[i] = file[i]
      BY <2>3, <3>2
    <3> QED
      BY <2>1, <3>3 DEF Resized
  <2>6. \A k \in 1..LineCells[Genesis] : k \in 1..size /\ k <= Len(file) /\ file[k] = <<Genesis, k>>
    BY <1>1, <2>3 DEF GenesisFirst, StartsGenesis
  <2>7. StartsGenesis(file') /\ Len(file') >= LineCells[Genesis]
    BY <2>3, <2>5, <2>6 DEF StartsGenesis
  <2>8. GenesisFirst'
    BY <1>1, <2>1, <2>3, <2>4, <2>7 DEF GenesisFirst, StartsGenesis
  <2> QED
    BY <2>1, <2>3, <2>4, <2>5, <2>8
<1> QED
  BY <1>2, <1>3

(* A branch has won: the file is cut at the fork (replaceChain).           *)
LEMMA BeginWriteInv ==
  ASSUME DiskInv, BeginWrite
  PROVE  DiskInv'
<1>1. /\ mode = "running" /\ phase = "apply" /\ Len(chain) >= Len(candidate) /\ Heavier
      /\ TruncateBlocksTo(common) /\ mode' = "replacing"
      /\ bodyCache' = {e \in bodyCache : e[1] < common}
      /\ pending' = SubSeq(chain, common + 1, Len(chain))
      /\ UNCHANGED <<vars, snapshot, damaged>>
  BY DEF BeginWrite, BranchWins
<1>2. /\ blockchain \in Seq(Block) /\ chain \in Seq(Block) /\ common \in 1..Len(blockchain)
      /\ common <= Len(chain) /\ common \in Nat \ {0} /\ Len(chain) \in Nat
      /\ offsets # << >> /\ file \in Seq(Cell)
  BY <1>1 DEF DiskInv, RoughChain, TypeOK, ModeInv, StoreTypeOK, Cell
<1>3. /\ file' \in Seq(Cell) /\ offsets' \in Seq(Nat) /\ offsets' # << >> /\ fileSize' \in Nat
      /\ GenesisFirst'
  BY <1>1, <1>2, TruncateKeeps
<1>4. pending' \in Seq(Block) /\ Len(pending') = Len(chain) - common
  <2>1. common + 1 \in 1..(Len(chain) + 1) /\ Len(chain) \in 0..Len(chain)
    BY <1>2
  <2>2. pending' = [i \in 1..(Len(chain) - common) |-> chain[common + i]]
    BY <1>1, <1>2, <2>1
  <2>3. \A i \in 1..(Len(chain) - common) : chain[common + i] \in Block
    BY <1>2
  <2>4. Len(chain) - common \in Nat
    BY <1>2
  <2> HIDE DEF Len
  <2> QED
    BY <2>2, <2>3, <2>4
<1>5. bodyCache' \in SUBSET bodyCache /\ IsFiniteSet(bodyCache') /\ Cardinality(bodyCache') <= BODY_CACHE_SIZE
  <2>1. IsFiniteSet(bodyCache) /\ Cardinality(bodyCache) <= BODY_CACHE_SIZE /\ bodyCache' \in SUBSET bodyCache
    BY <1>1 DEF DiskInv, StoreTypeOK
  <2>2. IsFiniteSet(bodyCache') /\ Cardinality(bodyCache') <= Cardinality(bodyCache)
    BY <2>1, FS_Subset
  <2>3. Cardinality(bodyCache') \in Nat /\ Cardinality(bodyCache) \in Nat
    BY <2>1, <2>2, FS_CardinalityType
  <2> QED
    BY <2>1, <2>2, <2>3, StoreAssumption
<1>6. /\ blockchain' = blockchain /\ chain' = chain /\ candidate' = candidate
      /\ common' = common /\ phase' = phase
  BY <1>1 DEF vars, store, locals
<1>7. RoughChain'
  BY <1>1, RoughStep DEF DiskInv
<1>8. StoreTypeOK'
  BY <1>1, <1>3, <1>4, <1>5 DEF DiskInv, StoreTypeOK, Cell
<1>9. ModeInv'
  <2>1. Heavier'
    BY <1>1, <1>6 DEF Heavier
  <2> QED
    BY <1>1, <1>3, <1>6, <2>1 DEF ModeInv
<1>10. ASSUME ~ damaged PROVE Exact'
  <2>1. ChainInv /\ Holds(file, offsets, fileSize, blockchain) /\ BodiesRight
    BY <1>1, <1>10 DEF DiskInv, Exact, OnDisk
  <2>2. ChainInv' /\ Keeps(common)
    BY <1>1, <2>1, NextInv DEF ChainInv, ForkInv
  <2>3. OnDisk' = Prefix(blockchain, common)
    <3>1. OnDisk' = Prefix(chain, common)
      <4>1. Len(chain) - Len(pending') = common
        BY <1>2, <1>4
      <4> QED
        BY <1>1, <1>6, <4>1 DEF OnDisk
    <3>2. Prefix(chain, common) = [i \in 1..common |-> chain[i]]
      BY <1>2 DEF Prefix
    <3>3. Prefix(blockchain, common) = [i \in 1..common |-> blockchain[i]]
      BY <1>2 DEF Prefix
    <3> QED
      BY <2>2, <3>1, <3>2, <3>3 DEF Keeps
  <2>4. Holds(file', offsets', fileSize', Prefix(blockchain, common))
    <3>1. offsets = OffsetsOf(blockchain) /\ Len(offsets) = Len(blockchain)
      BY <1>2, <2>1, OffsetsAre DEF Holds
    <3>2. CASE common >= Len(offsets)
      <4>1. common = Len(blockchain)
        BY <1>2, <3>1, <3>2
      <4>2. Prefix(blockchain, common) = blockchain
        BY <1>2, <4>1, PrefixOfAll
      <4>3. UNCHANGED <<file, offsets, fileSize>>
        BY <1>1, <3>2 DEF TruncateBlocksTo, index
      <4> QED
        BY <2>1, <4>2, <4>3
    <3>3. CASE ~ (common >= Len(offsets))
      <4>1. common \in 0..Len(blockchain) /\ common < Len(offsets)
        BY <1>2, <3>1, <3>3
      <4>2. /\ file' = Resized(file, offsets[common + 1]) /\ offsets' = SubSeq(offsets, 1, common)
            /\ fileSize' = offsets[common + 1]
        BY <1>1, <3>3 DEF TruncateBlocksTo
      <4> QED
        BY <1>2, <2>1, <4>1, <4>2, HoldsResized
    <3> QED
      BY <3>2, <3>3
  <2>5. pending' = SubSeq(chain, Len(chain) - Len(pending') + 1, Len(chain))
    <3>1. Len(chain) - Len(pending') + 1 = common + 1
      BY <1>2, <1>4
    <3> QED
      BY <1>1, <3>1
  <2>6. BodiesRight'
    BY <1>1, <1>6, <2>1 DEF BodiesRight
  <2>7. (Holds(file, offsets, fileSize, OnDisk))'
    BY <2>3, <2>4 DEF Holds, Starts
  <2>8. (/\ Len(pending) <= Len(chain) - common
         /\ pending = SubSeq(chain, Len(chain) - Len(pending) + 1, Len(chain)))'
    <3>1. Len(pending') <= Len(chain) - common
      BY <1>2, <1>4
    <3> QED
      BY <1>6, <2>5, <3>1
  <2> QED
    BY <1>1, <2>2, <2>6, <2>7, <2>8 DEF Exact
<1> QED
  BY <1>1, <1>5, <1>3, <1>7, <1>8, <1>9, <1>10 DEF DiskInv

(* One more block of the branch is written.                                *)
LEMMA AppendBranchInv ==
  ASSUME DiskInv, AppendBranchBlock
  PROVE  DiskInv'
<1> DEFINE b == pending[1]
<1>1. /\ mode = "replacing" /\ mode' = mode /\ pending # << >> /\ AppendBlock(Head(pending))
      /\ pending' = Tail(pending) /\ UNCHANGED <<vars, snapshot, bodyCache, damaged>>
  BY DEF AppendBranchBlock
<1>2. /\ pending \in Seq(Block) /\ Len(pending) \in Nat \ {0} /\ Head(pending) = b /\ b \in Block
      /\ pending' \in Seq(Block) /\ Len(pending') = Len(pending) - 1
      /\ \A i \in 1..(Len(pending) - 1) : pending'[i] = pending[i + 1]
  <2>1. pending \in Seq(Block) /\ pending # << >> /\ pending' = Tail(pending)
    BY <1>1 DEF DiskInv, StoreTypeOK
  <2> QED
    BY ONLY <2>1
<1>3. offsets # << >> /\ file \in Seq(Cell)
  BY <1>1 DEF DiskInv, ModeInv, StoreTypeOK, Cell
<1>4. LineCells[b] \in 0..LineCells[b] /\ AppendCells(b, LineCells[b])
  BY <1>1, <1>2, LineIs DEF AppendBlock
<1> HIDE DEF b
<1>5. /\ file' \in Seq(Cell) /\ offsets' \in Seq(Nat) /\ offsets' # << >> /\ fileSize' \in Nat
      /\ GenesisFirst'
  BY <1>2, <1>3, <1>4, AppendCellsKeep
<1>6. /\ blockchain' = blockchain /\ chain' = chain /\ candidate' = candidate
      /\ common' = common /\ phase' = phase
  BY <1>1 DEF vars, store, locals
<1>7. RoughChain'
  BY <1>1, RoughStep DEF DiskInv
<1>8. StoreTypeOK'
  BY <1>1, <1>2, <1>5 DEF DiskInv, StoreTypeOK, Cell
<1>9. ModeInv'
  <2>1. phase = "apply" /\ Len(chain) >= Len(candidate) /\ Heavier
    BY <1>1 DEF DiskInv, ModeInv
  <2>2. Heavier'
    BY <1>6, <2>1 DEF Heavier
  <2> QED
    BY <1>1, <1>5, <1>6, <2>1, <2>2 DEF ModeInv
<1>10. ASSUME ~ damaged PROVE Exact'
  <2> DEFINE k == Len(chain) - Len(pending)
  <2>1. /\ ChainInv /\ BodiesRight /\ Holds(file, offsets, fileSize, Prefix(chain, k))
        /\ Len(pending) <= Len(chain) - common /\ pending = SubSeq(chain, k + 1, Len(chain))
    BY <1>1, <1>10 DEF DiskInv, Exact, OnDisk
  <2>2. /\ ChainInv' /\ chain \in Seq(Block) /\ Len(chain) \in Nat /\ common \in Nat
        /\ k \in Nat /\ k + 1 \in 1..Len(chain) /\ k \in 0..Len(chain)
    <3>1. ChainInv'
      BY <1>1, <2>1, NextInv
    <3>2. chain \in Seq(Block) /\ common \in Nat
      BY <2>1 DEF ChainInv, TypeOK
    <3>3. Len(chain) \in Nat
      BY <3>2
    <3> QED
      BY <1>2, <2>1, <3>1, <3>2, <3>3
  <2> HIDE DEF k
  <2>3. b = chain[k + 1]
    <3>1. SubSeq(chain, k + 1, Len(chain))[1] = chain[k + 1]
      BY <2>2
    <3> QED
      BY <2>1, <3>1 DEF b
  <2>4. Prefix(chain, k + 1) = Append(Prefix(chain, k), b) /\ Prefix(chain, k) \in Seq(Block)
    <3>1. (k + 1) - 1 = k
      BY <2>2
    <3> QED
      BY <2>2, <2>3, <3>1, PrefixAppend
  <2>5. Len(chain) - Len(pending') = k + 1
    BY <1>2, <2>2 DEF k
  <2>6. (Holds(file, offsets, fileSize, OnDisk))'
    <3>1. OnDisk' = Prefix(chain, k + 1)
      BY <1>1, <1>6, <2>5 DEF OnDisk
    <3>2. Holds(file', offsets', fileSize', Prefix(chain, k + 1))
      <4>1. /\ file' = file \o SubSeq(Line(b), 1, LineCells[b])
            /\ offsets' = Append(offsets, fileSize) /\ fileSize' = fileSize + LineCells[b]
        BY <1>4 DEF AppendCells
      <4>2. Holds(file \o SubSeq(Line(b), 1, LineCells[b]), Append(offsets, fileSize),
                  fileSize + LineCells[b], Append(Prefix(chain, k), b))
        BY <1>2, <1>3, <2>1, <2>4, HoldsAppend
      <4> QED
        BY <2>4, <4>1, <4>2
    <3> QED
      BY <3>1, <3>2 DEF Holds, Starts
  <2>7. (/\ Len(pending) <= Len(chain) - common
         /\ pending = SubSeq(chain, Len(chain) - Len(pending) + 1, Len(chain)))'
    <3>1. Len(pending') <= Len(chain) - common
      BY <1>2, <2>1, <2>2 DEF k
    <3>2. pending' = SubSeq(chain, (k + 1) + 1, Len(chain))
      <4>1. pending' = [i \in 1..Len(pending') |-> pending[i + 1]]
        BY <1>2
      <4>2. /\ Len(SubSeq(chain, (k + 1) + 1, Len(chain))) = Len(pending')
            /\ SubSeq(chain, (k + 1) + 1, Len(chain)) = [i \in 1..Len(pending') |-> chain[(k + 1) + i]]
        BY <1>2, <2>2, <2>5
      <4>3. \A i \in 1..Len(pending') : pending[i + 1] = chain[(k + 1) + i]
        BY <1>2, <2>1, <2>2, <2>5
      <4> QED
        BY <4>1, <4>2, <4>3
    <3> QED
      BY <1>6, <2>5, <3>1, <3>2
  <2>8. BodiesRight'
    BY <1>1, <1>6, <2>1 DEF BodiesRight
  <2> QED
    BY <1>1, <2>2, <2>6, <2>7, <2>8 DEF Exact
<1> QED
  BY <1>1, <1>5, <1>7, <1>8, <1>9, <1>10 DEF DiskInv

(* The branch becomes the chain in memory.                                 *)
LEMMA FinishWriteInv ==
  ASSUME DiskInv, FinishWrite
  PROVE  DiskInv'
<1> DEFINE new == {<<n - 1, chain[n]>> : n \in (common + 1)..Len(chain)}
<1>1. /\ mode = "replacing" /\ mode' = "snapshotting" /\ pending = << >> /\ Adopt
      /\ bodyCache' \in CachedWith(bodyCache, new)
      /\ UNCHANGED <<file, snapshot, offsets, fileSize, pending, damaged>>
  BY DEF FinishWrite, disk, index
<1>2. /\ chain \in Seq(Block) /\ Len(chain) \in Nat /\ common \in Nat
      /\ blockchain' = chain /\ phase' = "idle" /\ common <= Len(chain)
  BY <1>1 DEF DiskInv, RoughChain, TypeOK, Adopt, Return
<1>3. new \in SUBSET (Nat \X Block) /\ IsFiniteSet(new)
  <2>1. \A n \in (common + 1)..Len(chain) : n - 1 \in Nat /\ chain[n] \in Block
    BY <1>2
  <2>2. IsFiniteSet((common + 1)..Len(chain))
    BY <1>2, FS_Interval
  <2> DEFINE f == [n \in (common + 1)..Len(chain) |-> <<n - 1, chain[n]>>]
  <2>3. f \in Surjection((common + 1)..Len(chain), new)
    BY DEF Surjection
  <2>4. IsFiniteSet(new)
    <3> HIDE DEF f, new
    <3> QED
      BY <2>2, <2>3, FS_Surjection
  <2> QED
    BY <2>1, <2>4
<1>4. \A d \in new : d[1] \in Nat /\ d[1] >= common /\ d[1] < Len(chain) /\ d[2] = chain[d[1] + 1]
  BY <1>2
<1> HIDE DEF new
<1>5. /\ bodyCache' \in SUBSET (Nat \X Block) /\ IsFiniteSet(bodyCache')
      /\ Cardinality(bodyCache') <= BODY_CACHE_SIZE
      /\ \A e \in bodyCache' : e \in new \/ e \in bodyCache
  BY <1>1, <1>3, CachedIs DEF DiskInv, StoreTypeOK
<1>6. RoughChain'
  BY <1>1, RoughStep DEF DiskInv, Next
<1>7. StoreTypeOK' /\ GenesisFirst'
  BY <1>1, <1>5 DEF DiskInv, StoreTypeOK, GenesisFirst, StartsGenesis
<1>8. ModeInv'
  BY <1>1, <1>2 DEF DiskInv, ModeInv
<1>9. ASSUME ~ damaged PROVE Exact'
  <2>1. /\ ChainInv /\ Holds(file, offsets, fileSize, Prefix(chain, Len(chain) - Len(pending)))
        /\ BodiesRight
    BY <1>1, <1>9 DEF DiskInv, Exact, OnDisk
  <2>2. ChainInv' /\ Keeps(common)
    BY <1>1, <2>1, NextInv DEF ChainInv, ForkInv, Next, Adopt
  <2>3. Prefix(chain, Len(chain) - Len(pending)) = chain /\ OnDisk' = chain
    <3>1. Len(chain) - Len(pending) = Len(chain)
      BY <1>1, <1>2
    <3> QED
      BY <1>1, <1>2, <3>1, PrefixOfAll DEF OnDisk
  <2>4. ASSUME NEW e \in bodyCache' PROVE e[1] < Len(chain) /\ e[2] = chain[e[1] + 1]
    <3>1. CASE e \in new
      BY <1>4, <3>1
    <3>2. CASE e \in bodyCache
      <4>1. e[1] < common /\ e[2] = blockchain[e[1] + 1] /\ e[1] \in Nat
        BY <1>1, <2>1, <3>2 DEF BodiesRight, DiskInv, StoreTypeOK
      <4>2. e[1] + 1 \in 1..common
        BY <1>2, <4>1
      <4> QED
        BY <1>2, <2>2, <4>1, <4>2 DEF Keeps
    <3> QED
      BY <1>5, <3>1, <3>2
  <2>5. BodiesRight'
    BY <1>1, <1>2, <2>4 DEF BodiesRight
  <2> QED
    BY <1>1, <2>1, <2>2, <2>3, <2>5 DEF Exact
<1> QED
  BY <1>1, <1>5, <1>6, <1>7, <1>8, <1>9 DEF DiskInv

(* The process dies, is stopped, or starts over after a failed write.      *)
LEMMA EndsInv ==
  ASSUME DiskInv, BranchWriteFails \/ Crash \/ Shutdown
  PROVE  DiskInv'
<1>1. mode = "running" => pending = << >>
  BY DEF DiskInv, ModeInv
<1>2. CASE BranchWriteFails
  <2>1. mode # "down" /\ TornAppend /\ Forget /\ snapshot' = NoSnapshot
    BY <1>2 DEF BranchWriteFails, BranchWins
  <2> QED
    BY <2>1, ForgetInv
<1>3. CASE Crash
  <2>1. mode # "down" /\ TornAppend /\ Forget /\ snapshot' = snapshot
    BY <1>3 DEF Crash
  <2>2. snapshot = NoSnapshot \/ snapshot \in [height : Nat, tipHash : {b.hash : b \in Block}]
    BY DEF DiskInv, StoreTypeOK
  <2> QED
    BY <2>1, <2>2, ForgetInv
<1>4. CASE Shutdown
  <2>1. mode = "running" /\ TakeSnapshot /\ file' = file /\ Forget
    BY <1>4 DEF Shutdown
  <2>2. snapshot' \in [height : Nat, tipHash : {b.hash : b \in Block}]
    BY <2>1, SnapshotType
  <2>3. TornAppend
    BY <1>1, <2>1 DEF TornAppend
  <2> QED
    BY <2>1, <2>2, <2>3, ForgetInv
<1> QED
  BY <1>2, <1>3, <1>4

(* Nothing is stored: genesis is to be written (initChain).                *)
LEMMA StartEmptyInv ==
  ASSUME DiskInv, StartEmpty
  PROVE  DiskInv'
<1>1. /\ mode = "down" /\ mode' = "appending" /\ file' = << >> /\ offsets' = << >> /\ fileSize' = 0
      /\ bodyCache' = {<<0, Genesis>>} /\ pending' = <<Genesis>> /\ UNCHANGED <<vars, snapshot, damaged>>
  BY DEF StartEmpty
<1>2. /\ blockchain = <<Genesis>> /\ phase = "idle" /\ Genesis \in Block
      /\ blockchain' = blockchain /\ phase' = phase
  BY <1>1, GenesisAssumption DEF DiskInv, ModeInv, vars, store, locals
<1>3. IsFiniteSet(bodyCache') /\ Cardinality(bodyCache') <= BODY_CACHE_SIZE /\ bodyCache' \subseteq Nat \X Block
  <2>1. IsFiniteSet(bodyCache') /\ Cardinality(bodyCache') = 1
    BY <1>1, FS_Singleton
  <2> QED
    BY <1>1, <1>2, <2>1, StoreAssumption
<1>4. pending' \in Seq(Block) /\ Len(pending') = 1 /\ pending'[1] = Genesis
  BY <1>1, <1>2
<1>5. StoreTypeOK'
  BY <1>1, <1>3, <1>4 DEF DiskInv, StoreTypeOK
<1>6. GenesisFirst' /\ ModeInv'
  BY <1>1, <1>2, <1>4 DEF GenesisFirst, StartsGenesis, ModeInv
<1>7. RoughChain'
  BY <1>1, RoughStep DEF DiskInv
<1>8. ASSUME ~ damaged PROVE Exact'
  <2>1. ChainInv'
    BY <1>1, <1>8, NextInv DEF DiskInv, Exact
  <2>2. << >> \in Seq(Block) /\ Cells(<< >>) = 0 /\ OffsetsOf(<< >>) = << >>
    <3>1. << >> \in Seq(Block) /\ Len(<< >>) = 0
      OBVIOUS
    <3>2. Cells(<< >>) = 0
      BY <3>1, CellsOf
    <3>3. OffsetsOf(<< >>) \in Seq(Nat) /\ Len(OffsetsOf(<< >>)) = 0
      BY <3>1, OffsetsAre
    <3> QED
      BY <3>1, <3>2, <3>3
  <2>3. Holds(<< >>, << >>, 0, << >>)
    BY <2>2 DEF Holds, Starts
  <2>4. OnDisk' = << >>
    <3>1. OnDisk' = Prefix(<<Genesis>>, 0)
      BY <1>1, <1>2 DEF OnDisk
    <3> QED
      BY <3>1 DEF Prefix
  <2>5. (Holds(file, offsets, fileSize, OnDisk))'
    BY <1>1, <2>3, <2>4 DEF Holds, Starts
  <2>6. BodiesRight'
    BY <1>1, <1>2 DEF BodiesRight
  <2>7. pending'[1] = blockchain'[Len(blockchain')]
    BY <1>2, <1>4
  <2> QED
    BY <1>1, <2>1, <2>5, <2>6, <2>7 DEF Exact
<1> QED
  BY <1>1, <1>3, <1>5, <1>6, <1>7, <1>8 DEF DiskInv

(* What is stored is read back, replayed and cut (initChain).              *)
LEMMA RestartInv ==
  ASSUME DiskInv, NEW now \in Clock, Restart(now)
  PROVE  DiskInv'
<1> DEFINE blocks == Stored(file)
           skip == IF ReplaysAll(blocks) THEN -1 ELSE snapshot.height
           l == ReplayStored(blocks, skip, now)
           c == l.chain
<1>1. /\ mode = "down" /\ mode' = "snapshotting" /\ blocks # << >>
      /\ blockchain' = c /\ uTxOuts' = l.uTxOuts /\ undoLog' = TrimUndoLog(l.undo)
      /\ file' = SubSeq(file, 1, Cells(c)) /\ fileSize' = Cells(c) /\ offsets' = OffsetsOf(c)
      /\ snapshot' \in {NoSnapshot, snapshot}
      /\ damaged' = (damaged /\ ~ ReplaysAll(blocks))
      /\ UNCHANGED <<locals, bodyCache, pending>>
  BY DEF Restart
<1>2. file \in Seq(Cell) /\ StartsGenesis(file) /\ phase = "idle" /\ offsets = << >> /\ bodyCache = {} /\ pending = << >>
  BY <1>1 DEF DiskInv, StoreTypeOK, Cell, GenesisFirst, ModeInv
<1>3. blocks \in Seq(Block) /\ Starts(file, blocks) /\ blocks[1] = Genesis
  BY <1>1, <1>2, StoredStarts, StoredGenesis DEF StartsGenesis
<1>4. /\ LoadedAt(l, blocks, Len(blocks))
      /\ skip = -1 \/ (Sound(blocks) /\ Revalidates(blocks)) => Exactly(l)
  <2> HIDE DEF blocks, skip
  <2> QED
    BY <1>1, <1>3, ReplayIs
<1> HIDE DEF l
<1>5. /\ c \in Seq(Block) /\ c # << >> /\ c[1] = Genesis /\ Starts(file, c) /\ Len(c) \in Nat
      /\ l.uTxOuts \in SUBSET UTxOut /\ l.undo \in Seq(Undo) /\ Len(l.undo) = Len(c)
  <2> HIDE DEF blocks
  <2>1. /\ l \in [chain : Seq(Block), uTxOuts : SUBSET UTxOut, undo : Seq(Undo), stopped : BOOLEAN]
        /\ Len(l.undo) = Len(c)
    BY <1>4 DEF LoadedAt
  <2>2. PICK j \in 0..Len(blocks) : c = Prefix(blocks, j) /\ Len(c) = j /\ (Len(blocks) > 0 => j > 0)
    BY <1>4 DEF LoadedAt
  <2>3. Len(blocks) > 0 /\ Len(file) \in Nat
    BY <1>1, <1>2, <1>3
  <2>4. Starts(file, c)
    BY <1>3, <2>2, <2>3, StartsPrefix
  <2>5. 1 \in 1..j
    BY <2>2, <2>3
  <2>6. c[1] = blocks[1]
    BY <1>3, <2>2, <2>5, PrefixFacts
  <2> QED
    BY <1>3, <2>1, <2>2, <2>3, <2>4, <2>6
<1> HIDE DEF blocks, skip, c
<1>6. file' \in Seq(Cell) /\ Holds(file', offsets', fileSize', c)
  BY <1>1, <1>2, <1>5, HoldsCut
<1>7. /\ offsets' \in Seq(Nat) /\ Len(offsets') = Len(c) /\ fileSize' \in Nat /\ Len(file') = fileSize'
      /\ \A n \in 1..Len(c) : offsets'[n] = End(c, n - 1)
  BY <1>1, <1>5, <1>6, OffsetsAre, CellsOf DEF Holds
<1>8. undoLog' \in Seq(Undo) /\ Len(undoLog') = Len(c)
  BY <1>1, <1>5, TrimType
<1>9. RoughChain'
  <2>1. TypeOK'
    BY <1>1, <1>5, <1>8 DEF DiskInv, RoughChain, TypeOK, locals
  <2> QED
    BY <1>1, <1>2, <1>5, <1>8, <2>1 DEF RoughChain, Begun, locals
<1>10. GenesisFirst'
  <2>1. ASSUME NEW n \in 1..Len(c) PROVE End(c, n) \in Nat /\ End(c, n) >= LineCells[Genesis]
    <3>1. /\ End(c, 0) = 0 /\ End(c, 1) = End(c, 0) + LineCells[c[1]] /\ LineCells[Genesis] \in Nat
          /\ End(c, n) \in Nat /\ 1 \in 0..Len(c) /\ n \in 0..Len(c)
      <4>1. 1 \in 1..Len(c) /\ 1 \in 0..Len(c) /\ n \in 0..Len(c) /\ 1 - 1 = 0
        BY <1>5
      <4>2. /\ End(c, 0) = 0 /\ End(c, n) \in Nat
            /\ End(c, 1) = End(c, 1 - 1) + LineCells[c[1]]
        BY <1>5, <4>1, EndsAre
      <4> QED
        BY <4>1, <4>2, LineIs, GenesisAssumption
    <3>2. n = 1 \/ End(c, 1) < End(c, n)
      BY <1>5, <3>1, EndsRise
    <3> QED
      BY <1>5, <3>1, <3>2
  <2>2. Cells(c) \in Nat /\ Cells(c) >= LineCells[Genesis] /\ LineCells[Genesis] \in Nat
    <3>1. Len(c) \in 1..Len(c) /\ End(c, Len(c)) = Cells(c)
      BY <1>5, EndsAre
    <3> QED
      BY <2>1, <3>1, LineIs, GenesisAssumption
  <2>3. StartsGenesis(file')
    <3>1. /\ Len(file') = Cells(c) /\ Cells(c) <= Len(file)
          /\ \A k \in 1..Cells(c) : file'[k] = file[k]
      BY <1>1, <1>2, <1>5, <1>7, <2>2 DEF Starts
    <3>2. \A k \in 1..LineCells[Genesis] : k \in 1..Cells(c) /\ k <= Len(file)
      BY <1>2, <2>2, <3>1
    <3> QED
      BY <1>2, <3>1, <3>2 DEF StartsGenesis
  <2>4. ASSUME NEW n \in DOMAIN offsets', n > 1 PROVE offsets'[n] >= LineCells[Genesis]
    <3>1. n \in 1..Len(c) /\ n - 1 \in 1..Len(c)
      BY <1>5, <1>7, <2>4
    <3> QED
      BY <1>7, <2>1, <3>1
  <2> QED
    BY <1>1, <1>7, <2>2, <2>3, <2>4 DEF GenesisFirst, StartsGenesis
<1>11. StoreTypeOK'
  BY <1>1, <1>6, <1>7 DEF DiskInv, StoreTypeOK, Cell
<1>12. ModeInv'
  <2>1. offsets' # << >>
    BY <1>5, <1>7
  <2> QED
    BY <1>1, <1>2, <2>1 DEF ModeInv, locals
<1>13. ASSUME ~ damaged' PROVE Exact'
  <2>1. Exactly(l)
    <3>1. CASE ReplaysAll(blocks)
      BY <1>4, <3>1 DEF skip
    <3>2. CASE ~ ReplaysAll(blocks)
      <4>1. ~ damaged
        BY <1>1, <1>13, <3>2
      <4>2. Recoverable(file)
        BY <1>1, <4>1 DEF DiskInv, Exact
      <4>3. PICK bs \in Seq(Block) :
              Sound(bs) /\ Revalidates(bs) /\ Starts(file, bs) /\ NoLineAfter(file, Cells(bs))
        BY <4>2 DEF Recoverable
      <4>4. blocks = bs
        BY <1>2, <4>3, StoredOf DEF blocks
      <4> QED
        BY <1>4, <4>3, <4>4
    <3> QED
      BY <3>1, <3>2
  <2>2. /\ Sound(c) /\ Revalidates(c) /\ l.uTxOuts = Unspent(c) /\ UndoMatches(l.undo, c)
    BY <2>1 DEF Exactly, c
  <2>3. UndoMatches(undoLog', c)
    BY <1>1, <1>5, <2>2, UndoTrim
  <2>4. ChainInv'
    <3>1. StoreInv'
      BY <1>1, <1>5, <2>2, <2>3 DEF StoreInv, UTxOutsAreUnspent, UndoRestores
    <3> QED
      BY <1>1, <1>2, <1>9, <3>1 DEF ChainInv, RoughChain, locals
  <2>5. (Holds(file, offsets, fileSize, OnDisk))'
    <3>1. OnDisk' = c
      BY <1>1 DEF OnDisk
    <3> QED
      BY <1>6, <3>1 DEF Holds, Starts
  <2>6. BodiesRight'
    BY <1>1, <1>2 DEF BodiesRight
  <2> QED
    BY <1>1, <2>4, <2>5, <2>6 DEF Exact
<1> QED
  BY <1>1, <1>9, <1>10, <1>11, <1>12, <1>13 DEF DiskInv

(* The invariant holds with nothing on disk.                               *)
LEMMA StoreInitInv == StoreInit => DiskInv
<1> SUFFICES ASSUME StoreInit PROVE DiskInv
  OBVIOUS
<1>1. /\ Init /\ file = << >> /\ offsets = << >> /\ fileSize = 0 /\ snapshot = NoSnapshot
      /\ bodyCache = {} /\ mode = "down" /\ pending = << >> /\ damaged = FALSE
      /\ phase = "idle" /\ blockchain = <<Genesis>>
  BY DEF StoreInit, Init
<1>2. ChainInv
  BY <1>1, InitInv
<1>3. RoughChain
  BY <1>1, <1>2, ExactRough
<1>4. IsFiniteSet(bodyCache) /\ Cardinality(bodyCache) = 0
  BY <1>1, FS_EmptySet
<1>5. StoreTypeOK
  <2>1. file \in Seq(Block \X Nat) /\ offsets \in Seq(Nat) /\ pending \in Seq(Block)
    BY <1>1
  <2>2. bodyCache \subseteq (Nat \X Block) /\ Cardinality(bodyCache) <= BODY_CACHE_SIZE
    BY <1>1, <1>4, StoreAssumption
  <2> QED
    BY <1>1, <2>1, <2>2 DEF StoreTypeOK
<1>6. GenesisFirst /\ ModeInv
  BY <1>1 DEF GenesisFirst, StartsGenesis, ModeInv
<1>7. Recoverable(file)
  <2>1. << >> \in Seq(Block) /\ Sound(<< >>) /\ Revalidates(<< >>)
    BY GenesisGood DEF Exactly, NothingLoaded
  <2>2. Cells(<< >>) = 0
    BY <2>1, CellsOf
  <2>3. Starts(file, << >>) /\ NoLineAfter(file, Cells(<< >>))
    BY <1>1, <2>2 DEF Starts, NoLineAfter
  <2> QED
    BY <2>1, <2>3 DEF Recoverable
<1>8. Exact
  BY <1>1, <1>2, <1>7 DEF Exact, BodiesRight
<1> QED
  BY <1>3, <1>4, <1>5, <1>6, <1>8 DEF DiskInv

(* Nothing happens.                                                        *)
LEMMA StoreStutterInv ==
  ASSUME DiskInv, UNCHANGED storeVars
  PROVE  DiskInv'
<1>1. UNCHANGED <<vars, file, snapshot, offsets, fileSize, bodyCache, mode, pending, damaged>>
  BY DEF storeVars, disk, index
<1>2. /\ blockchain' = blockchain /\ chain' = chain /\ candidate' = candidate
      /\ common' = common /\ phase' = phase
  BY <1>1 DEF vars, store, locals
<1>3. RoughChain'
  BY <1>1, RoughStep DEF DiskInv
<1>4. StoreTypeOK' /\ GenesisFirst' /\ IsFiniteSet(bodyCache)'
  BY <1>1 DEF DiskInv, StoreTypeOK, GenesisFirst, StartsGenesis
<1>5. ModeInv'
  <2>1. Heavier' = Heavier
    BY <1>2 DEF Heavier
  <2> QED
    BY <1>1, <1>2, <2>1 DEF DiskInv, ModeInv
<1>6. ASSUME ~ damaged PROVE Exact'
  <2>1. Exact
    BY <1>6 DEF DiskInv
  <2>2. ChainInv'
    BY <1>1, <2>1, NextInv DEF Exact
  <2>3. OnDisk' = OnDisk
    BY <1>1, <1>2 DEF OnDisk
  <2>4. BodiesRight' /\ (mode' = "down" => Recoverable(file)')
    BY <1>1, <1>2, <2>1 DEF Exact, BodiesRight, Recoverable
  <2> QED
    BY <1>1, <1>2, <2>1, <2>2, <2>3, <2>4 DEF Exact
<1> QED
  BY <1>1, <1>3, <1>4, <1>5, <1>6 DEF DiskInv

(* Every step keeps it.                                                    *)
LEMMA DiskStep == DiskInv /\ [StoreNext]_storeVars => DiskInv'
<1> SUFFICES ASSUME DiskInv, [StoreNext]_storeVars PROVE DiskInv'
  OBVIOUS
<1>1. ASSUME NEW b \in Block, NEW now \in Clock, StoreAddBlock(b, now) PROVE DiskInv'
  BY <1>1, StoreAddInv
<1>2. ASSUME NEW height \in 0..(Len(blockchain) - 1), ReadBody(height) PROVE DiskInv'
  BY <1>2, ReadBodyInv
<1>3. ASSUME NEW now \in Clock, Restart(now) PROVE DiskInv'
  BY <1>3, RestartInv
<1>4. CASE AppendNewBlock
  BY <1>4, AppendNewInv
<1>5. CASE AppendFails
  BY <1>5, AppendFailsInv
<1>6. CASE PersistChainstate \/ SnapshotFails
  BY <1>6, PersistInv
<1>7. CASE StoreReplaceStep
  BY <1>7, StoreReplaceInv
<1>8. CASE BeginWrite
  BY <1>8, BeginWriteInv
<1>9. CASE AppendBranchBlock
  BY <1>9, AppendBranchInv
<1>10. CASE FinishWrite
  BY <1>10, FinishWriteInv
<1>11. CASE BranchWriteFails \/ Crash \/ Shutdown
  BY <1>11, EndsInv
<1>12. CASE StartEmpty
  BY <1>12, StartEmptyInv
<1>13. CASE UNCHANGED storeVars
  BY <1>13, StoreStutterInv
<1> QED
  BY <1>1, <1>2, <1>3, <1>4, <1>5, <1>6, <1>7, <1>8, <1>9, <1>10, <1>11, <1>12, <1>13 DEF StoreNext

-----------------------------------------------------------------------------
(* What it comes to. *)

(* The invariant holds in every state, whatever writes fail and wherever   *)
(* the process dies.                                                       *)
THEOREM DiskInvariant == StoreSpec => []DiskInv
BY StoreInitInv, DiskStep, PTL DEF StoreSpec

(* Unless a block was kept that could not be written, every block of the   *)
(* chain is valid after those before it: also of one that a start has read *)
(* back without validating it (initChain).                                 *)
THEOREM ReloadedValid == StoreSpec => []ReloadedChainValid
<1>1. DiskInv => ReloadedChainValid
  BY DEF DiskInv, Exact, ChainInv, StoreInv, ReloadedChainValid, ChainRevalidates
<1> QED
  BY <1>1, DiskInvariant, PTL

(* ... and its uTxOuts and undo data are exact.                            *)
THEOREM ReloadedExact == StoreSpec => []ReloadedStateExact
<1>1. DiskInv => ReloadedStateExact
  BY DEF DiskInv, Exact, ChainInv, StoreInv, ReloadedStateExact
<1> QED
  BY <1>1, DiskInvariant, PTL

(* Between writes the file holds the blocks of the chain and nothing else, *)
(* each where its offset says.                                             *)
THEOREM FileHoldsChain == StoreSpec => []DiskHoldsChain
<1>1. DiskInv => DiskHoldsChain
  <2> SUFFICES ASSUME DiskInv, ~ damaged, mode \in {"running", "snapshotting"}
               PROVE  /\ Stored(file) = blockchain /\ fileSize = Len(file)
                      /\ Len(offsets) = Len(blockchain)
                      /\ \A n \in 1..Len(blockchain) : ReadBlockAt(n - 1) = {blockchain[n]}
    BY DEF DiskHoldsChain
  <2>1. /\ file \in Seq(Cell) /\ blockchain \in Seq(Block)
        /\ Holds(file, offsets, fileSize, blockchain)
    BY DEF DiskInv, StoreTypeOK, Cell, RoughChain, TypeOK, Exact, OnDisk
  <2>2. /\ Starts(file, blockchain) /\ Len(file) = Cells(blockchain) /\ Cells(blockchain) \in Nat
        /\ offsets = OffsetsOf(blockchain) /\ fileSize = Cells(blockchain)
    BY <2>1, CellsOf DEF Holds
  <2>3. NoLineAfter(file, Cells(blockchain))
    BY <2>2 DEF NoLineAfter
  <2>4. Stored(file) = blockchain
    BY <2>1, <2>2, <2>3, StoredOf
  <2>5. Len(offsets) = Len(blockchain)
    BY <2>1, <2>2, OffsetsAre
  <2>6. \A n \in 1..Len(blockchain) : ReadBlockAt(n - 1) = {blockchain[n]}
    BY <2>1, HoldsRead
  <2> QED
    BY <2>2, <2>4, <2>5, <2>6
<1> QED
  BY <1>1, DiskInvariant, PTL

(* A cached body is that of the block the chain has at its height, and no  *)
(* more are kept than there is room for (bodyCache, cacheBody).            *)
THEOREM CachedBodiesRight == StoreSpec => []BodiesOfChain
<1>1. DiskInv => BodiesOfChain
  BY DEF DiskInv, Exact, BodiesRight, BodiesOfChain
<1> QED
  BY <1>1, DiskInvariant, PTL
=============================================================================
