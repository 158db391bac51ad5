----------------------------- MODULE SyncProofs -----------------------------
(***************************************************************************)
(* Proofs about header-first synchronisation, for every tree of blocks,    *)
(* any number of nodes and every size of batch: batches fit together, an   *)
(* undisturbed exchange costs the peer nothing, no node waits in vain, and *)
(* no node takes a lighter chain.                                          *)
(***************************************************************************)
EXTENDS Sync, FiniteSetTheorems, WellFoundedInduction, TLAPS

(* A nonempty set of numbers has a least one.                              *)
LEMMA LeastNumber ==
  ASSUME NEW T \in SUBSET Nat, T # {}
  PROVE  \E x \in T : \A y \in T : x <= y
<1>1. PICK x \in T : \A y \in T : ~ (<<y, x>> \in OpToRel(<, Nat))
  BY NatLessThanWellFounded, WFMin
<1>2. ASSUME NEW y \in T PROVE x <= y
  <2>1. ~ (y < x)
    BY <1>1 DEF OpToRel
  <2> QED
    BY <2>1
<1> QED
  BY <1>2

(* Min and Max of a finite set of numbers are in it and bound it.          *)
LEMMA MinIn ==
  ASSUME NEW n \in Nat, NEW T \in SUBSET (1..n), T # {}
  PROVE  Min(T) \in T /\ \A y \in T : Min(T) <= y
<1>1. \E x \in T : \A y \in T : x <= y
  BY LeastNumber
<1> QED
  BY <1>1 DEF Min

(* Max of a nonempty set of numbers up to a bound is its greatest.         *)
LEMMA MaxIn ==
  ASSUME NEW n \in Nat, NEW T \in SUBSET (1..n), T # {}
  PROVE  Max(T) \in T /\ \A y \in T : y <= Max(T)
<1> DEFINE D == {n - x : x \in T}
<1>1. D \in SUBSET Nat /\ D # {}
  <2>1. \A x \in T : x \in Nat /\ x <= n /\ n - x \in Nat
    OBVIOUS
  <2> QED BY <2>1
<1>2. PICK d \in D : \A e \in D : d <= e
  <2> HIDE DEF D
  <2> QED BY <1>1, LeastNumber
<1>3. PICK x \in T : d = n - x
  OBVIOUS
<1>4. ASSUME NEW y \in T PROVE y <= x
  <2>1. d <= n - y
    BY <1>2
  <2> QED
    BY <2>1, <1>3
<1> QED
  BY <1>4 DEF Max

-----------------------------------------------------------------------------
(* The tree of blocks. *)

(* A chain ends in its block and is its parent's chain before that.        *)
LEMMA ChainType ==
  ASSUME NEW b \in Block
  PROVE  /\ Chain[b] \in Seq(Block) /\ Len(Chain[b]) \in Nat /\ Len(Chain[b]) >= 1
         /\ DOMAIN Chain[b] = 1..Len(Chain[b])
         /\ Chain[b][Len(Chain[b])] = b
         /\ Height(b) \in Nat /\ Height(b) + 1 = Len(Chain[b])
         /\ b = Genesis => Chain[b] = <<Genesis>> /\ Len(Chain[b]) = 1
         /\ b # Genesis =>
              /\ Parent(b) \in Block /\ Len(Chain[b]) = Len(Chain[Parent(b)]) + 1
              /\ Len(Chain[b]) >= 2 /\ Work[b] > Work[Parent(b)]
              /\ Parent(b) = Chain[b][Len(Chain[b]) - 1]
              /\ \A i \in 1..Len(Chain[Parent(b)]) : Chain[b][i] = Chain[Parent(b)][i]
<1>1. Chain \in [Block -> Seq(Block)] /\ Chain[Genesis] = <<Genesis>> /\ Genesis \in Block
  BY SyncConstants
<1>2. \A x \in Block : Chain[x] \in Seq(Block) /\ Len(Chain[x]) \in Nat
                        /\ DOMAIN Chain[x] = 1..Len(Chain[x])
  BY <1>1
<1>3. CASE b = Genesis
  <2>1. Chain[b] = <<b>> /\ Len(Chain[b]) = 1 /\ Chain[b][1] = b
    <3>1. Chain[b] = <<b>>
      BY <1>1, <1>3
    <3>2. Len(<<b>>) = 1 /\ <<b>>[1] = b
      OBVIOUS
    <3> QED BY <3>1, <3>2
  <2>2. Height(b) = 0
    BY <2>1 DEF Height
  <2> QED
    BY <1>2, <1>3, <2>1, <2>2
<1>4. CASE b # Genesis
  <2>1. /\ Parent(b) \in Block /\ Chain[b] = Append(Chain[Parent(b)], b)
        /\ Work[b] > Work[Parent(b)]
    BY <1>4, SyncConstants
  <2>2. Parent(b) = Chain[b][Len(Chain[b]) - 1]
    BY DEF Parent
  <2> DEFINE p == Parent(b)
  <2> HIDE DEF p
  <2>3. p \in Block /\ Chain[b] = Append(Chain[p], b) /\ Chain[p] \in Seq(Block)
    BY <2>1, <1>2 DEF p
  <2>4. /\ Len(Chain[b]) = Len(Chain[p]) + 1 /\ Chain[b][Len(Chain[b])] = b
        /\ \A i \in 1..Len(Chain[p]) : Chain[b][i] = Chain[p][i]
    BY <2>3
  <2>5. Len(Chain[p]) # 0
    <3> SUFFICES ASSUME Len(Chain[p]) = 0 PROVE FALSE
      OBVIOUS
    <3>1. CASE p = Genesis
      BY <3>1, <1>1
    <3>2. CASE p # Genesis
      <4>1. Chain[p] = Append(Chain[Parent(p)], p) /\ Parent(p) \in Block
        BY <3>2, <2>3, SyncConstants
      <4>2. Chain[Parent(p)] \in Seq(Block)
        BY <4>1, <1>2
      <4>3. Len(Chain[p]) = Len(Chain[Parent(p)]) + 1 /\ Len(Chain[Parent(p)]) \in Nat
        BY <4>1, <4>2, <2>3
      <4> QED
        BY <4>3
    <3> QED
      BY <3>1, <3>2
  <2>6. Len(Chain[p]) \in Nat
    BY <2>3
  <2>7. Height(b) + 1 = Len(Chain[b]) /\ Height(b) \in Nat
    BY <1>2, <2>4, <2>6 DEF Height
  <2> QED
    <3>1. Len(Chain[b]) \in Nat /\ Len(Chain[b]) >= 2 /\ Len(Chain[b]) >= 1
      BY <2>4, <2>5, <2>6
    <3>2. b = Genesis => Chain[b] = <<Genesis>> /\ Len(Chain[b]) = 1
      BY <1>4
    <3>3. Len(Chain[b]) = Len(Chain[Parent(b)]) + 1
          /\ \A i \in 1..Len(Chain[Parent(b)]) : Chain[b][i] = Chain[Parent(b)][i]
      BY <2>4 DEF p
    <3> QED
      BY <1>2, <1>4, <2>1, <2>2, <2>4, <2>7, <3>1, <3>2, <3>3
<1> QED
  BY <1>3, <1>4

\* The first i blocks of b's chain are the chain of the i-th.
PrefixesAre(b) ==
  \A i \in DOMAIN Chain[b] :
    /\ Chain[b][i] \in Block /\ Len(Chain[Chain[b][i]]) = i
    /\ \A j \in 1..i : Chain[Chain[b][i]][j] = Chain[b][j]

(* Each block of a chain has the blocks before it as its own chain.        *)
LEMMA PrefixIsChain ==
  ASSUME NEW b \in Block PROVE PrefixesAre(b)
<1> DEFINE Bad == {n \in Nat : \E x \in Block : Len(Chain[x]) = n /\ ~ PrefixesAre(x)}
<1>1. Bad = {}
  <2> SUFFICES ASSUME Bad # {} PROVE FALSE
    OBVIOUS
  <2>1. PICK n \in Bad : \A m \in Bad : n <= m
    <3>1. Bad \in SUBSET Nat
      OBVIOUS
    <3> HIDE DEF Bad
    <3> QED
      BY <3>1, LeastNumber
  <2>2. PICK x \in Block : Len(Chain[x]) = n /\ ~ PrefixesAre(x)
    OBVIOUS
  <2>3. CASE x = Genesis
    <3>1. Len(Chain[x]) = 1 /\ DOMAIN Chain[x] = 1..Len(Chain[x]) /\ Chain[x][Len(Chain[x])] = x
      BY <2>3, ChainType
    <3>2. ASSUME NEW i \in DOMAIN Chain[x]
          PROVE  /\ Chain[x][i] \in Block /\ Len(Chain[Chain[x][i]]) = i
                 /\ \A j \in 1..i : Chain[Chain[x][i]][j] = Chain[x][j]
      <4>1. i = 1 /\ Chain[x][i] = x
        BY <3>1
      <4> QED BY <4>1, <3>1
    <3> QED
      BY <3>2, <2>2 DEF PrefixesAre
  <2>4. CASE x # Genesis
    <3> DEFINE p == Parent(x)
    <3>1. /\ p \in Block /\ Len(Chain[x]) = Len(Chain[p]) + 1 /\ Len(Chain[p]) \in Nat
          /\ \A i \in 1..Len(Chain[p]) : Chain[x][i] = Chain[p][i]
          /\ Chain[x][Len(Chain[x])] = x /\ Len(Chain[x]) \in Nat
          /\ DOMAIN Chain[x] = 1..Len(Chain[x]) /\ DOMAIN Chain[p] = 1..Len(Chain[p])
      BY <2>4, ChainType
    <3> HIDE DEF p
    <3>2. PrefixesAre(p)
      <4>1. Len(Chain[p]) \in Nat /\ ~ (n <= Len(Chain[p]))
        BY <3>1, <2>2
      <4>2. Len(Chain[p]) \notin Bad
        <5> HIDE DEF Bad
        <5> QED BY <4>1, <2>1
      <4> QED
        BY <4>1, <4>2, <3>1
    <3>3. ASSUME NEW i \in 1..Len(Chain[p])
          PROVE  /\ Chain[x][i] \in Block /\ Len(Chain[Chain[x][i]]) = i
                 /\ \A j \in 1..i : Chain[Chain[x][i]][j] = Chain[x][j]
      <4>1. /\ Chain[p][i] \in Block /\ Len(Chain[Chain[p][i]]) = i
            /\ \A j \in 1..i : Chain[Chain[p][i]][j] = Chain[p][j]
        BY <3>1, <3>2 DEF PrefixesAre
      <4>2. Chain[x][i] = Chain[p][i] /\ \A j \in 1..i : j \in 1..Len(Chain[p])
        BY <3>1
      <4> QED
        BY <4>1, <4>2, <3>1
    <3>4. ASSUME NEW i \in DOMAIN Chain[x]
          PROVE  /\ Chain[x][i] \in Block /\ Len(Chain[Chain[x][i]]) = i
                 /\ \A j \in 1..i : Chain[Chain[x][i]][j] = Chain[x][j]
      <4>1. CASE i = Len(Chain[x])
        BY <4>1, <3>1
      <4>2. CASE i # Len(Chain[x])
        <5>1. i \in 1..Len(Chain[p])
          BY <4>2, <3>1
        <5> QED BY <5>1, <3>3
      <4> QED BY <4>1, <4>2
    <3> QED
      BY <3>4, <2>2 DEF PrefixesAre
  <2> QED
    BY <2>3, <2>4
<1>2. Len(Chain[b]) \in Nat
  BY ChainType
<1> QED
  BY <1>1, <1>2

(* A block of a chain: its height is its place, its parent is before it.   *)
LEMMA OnChain ==
  ASSUME NEW q \in Block, NEW i \in DOMAIN Chain[q]
  PROVE  /\ i \in Nat /\ i >= 1 /\ i <= Len(Chain[q])
         /\ Chain[q][i] \in Block /\ Height(Chain[q][i]) = i - 1 /\ Len(Chain[Chain[q][i]]) = i
         /\ i = 1 => Chain[q][i] = Genesis
         /\ i > 1 => Chain[q][i] # Genesis /\ Parent(Chain[q][i]) = Chain[q][i - 1]
                      /\ i - 1 \in DOMAIN Chain[q]
<1> DEFINE x == Chain[q][i]
<1>1. /\ x \in Block /\ Len(Chain[x]) = i /\ \A j \in 1..i : Chain[x][j] = Chain[q][j]
  BY PrefixIsChain DEF PrefixesAre
<1>2. DOMAIN Chain[q] = 1..Len(Chain[q]) /\ Len(Chain[q]) \in Nat
  BY ChainType
<1> HIDE DEF x
<1>3. /\ Height(x) + 1 = Len(Chain[x]) /\ Height(x) \in Nat
      /\ x = Genesis => Len(Chain[x]) = 1
      /\ x # Genesis => Len(Chain[x]) >= 2 /\ Parent(x) = Chain[x][Len(Chain[x]) - 1]
  BY <1>1, ChainType
<1>4. i > 1 => i - 1 \in 1..i /\ Chain[x][i - 1] = Chain[q][i - 1]
  BY <1>1, <1>2
<1>5. i = 1 => x = Genesis
  BY <1>1, <1>3
<1>6. i \in Nat /\ i >= 1 /\ i <= Len(Chain[q]) /\ Height(x) = i - 1
  BY <1>1, <1>2, <1>3
<1>7. i > 1 => x # Genesis /\ Parent(x) = Chain[q][i - 1] /\ i - 1 \in DOMAIN Chain[q]
  BY <1>1, <1>2, <1>3, <1>4
<1> QED
  BY <1>1, <1>5, <1>6, <1>7 DEF x

(* A block is on a chain when it is at its own height there.               *)
LEMMA HasAt ==
  ASSUME NEW t \in Block, NEW b \in Block
  PROVE  Has(t, b) <=> Height(b) + 1 \in DOMAIN Chain[t] /\ Chain[t][Height(b) + 1] = b
<1>1. DOMAIN Chain[t] = 1..Len(Chain[t]) /\ Len(Chain[t]) \in Nat
  BY ChainType
<1>2. ASSUME NEW i \in 1..Len(Chain[t]), Chain[t][i] = b
      PROVE  Height(b) + 1 = i
  BY <1>1, <1>2, OnChain
<1> QED
  BY <1>1, <1>2 DEF Has, Contains

(* A tip that has the old tip in its chain keeps all that was below it.    *)
LEMMA ExtensionKeeps ==
  ASSUME NEW t \in Block, NEW b \in Block, Has(t, b)
  PROVE  /\ Len(Chain[b]) <= Len(Chain[t])
         /\ \A i \in DOMAIN Chain[b] : i \in DOMAIN Chain[t] /\ Chain[t][i] = Chain[b][i]
<1>1. Height(b) + 1 \in DOMAIN Chain[t] /\ Chain[t][Height(b) + 1] = b
  BY HasAt
<1>2. /\ DOMAIN Chain[t] = 1..Len(Chain[t]) /\ Len(Chain[t]) \in Nat
      /\ DOMAIN Chain[b] = 1..Len(Chain[b]) /\ Len(Chain[b]) \in Nat /\ Height(b) + 1 = Len(Chain[b])
  BY ChainType
<1>3. \A j \in 1..Height(b) + 1 : Chain[b][j] = Chain[t][j]
  BY <1>1, PrefixIsChain DEF PrefixesAre
<1> QED
  BY <1>1, <1>2, <1>3

-----------------------------------------------------------------------------
(* Locators and batches. *)

(* What follows place a of the chain of q, up to some place of it.         *)
PieceAt(bs, q, a) ==
  /\ a \in DOMAIN Chain[q] /\ bs \in Seq(Block) /\ a + Len(bs) \in DOMAIN Chain[q]
  /\ \A i \in 1..Len(bs) : bs[i] = Chain[q][a + i]

\* A sequence of blocks each of which is the parent of the next.
Joined(bs) ==
  /\ bs \in Seq(Block)
  /\ \A i \in 1..Len(bs) : bs[i] # Genesis
  /\ \A i \in 2..Len(bs) : Parent(bs[i]) = bs[i - 1]

(* A piece of a chain is joined, starts after its place and ends at its    *)
(* height.                                                                 *)
LEMMA PieceFacts ==
  ASSUME NEW q \in Block, NEW bs, NEW a, PieceAt(bs, q, a)
  PROVE  /\ a \in Nat /\ a >= 1 /\ a <= Len(Chain[q]) /\ Len(bs) \in Nat
         /\ a + Len(bs) <= Len(Chain[q])
         /\ Joined(bs)
         /\ bs # << >> =>
              /\ Len(bs) >= 1 /\ bs[1] \in Block /\ bs[1] # Genesis /\ Parent(bs[1]) = Chain[q][a]
              /\ Last(bs) = Chain[q][a + Len(bs)] /\ Last(bs) \in Block
              /\ Height(Last(bs)) = a + Len(bs) - 1
<1>1. /\ a \in DOMAIN Chain[q] /\ bs \in Seq(Block) /\ a + Len(bs) \in DOMAIN Chain[q]
      /\ \A i \in 1..Len(bs) : bs[i] = Chain[q][a + i]
  BY DEF PieceAt
<1>2. DOMAIN Chain[q] = 1..Len(Chain[q]) /\ Len(Chain[q]) \in Nat /\ Len(bs) \in Nat
  BY <1>1, ChainType
<1>3. ASSUME NEW i \in 1..Len(bs)
      PROVE  a + i \in DOMAIN Chain[q] /\ bs[i] \in Block /\ bs[i] # Genesis
             /\ Parent(bs[i]) = Chain[q][a + i - 1] /\ bs[i] = Chain[q][a + i]
             /\ Height(bs[i]) = a + i - 1
  <2>1. a + i \in DOMAIN Chain[q] /\ a + i > 1 /\ bs[i] = Chain[q][a + i]
    BY <1>1, <1>2
  <2> DEFINE k == a + i
  <2>2. /\ Chain[q][k] \in Block /\ Chain[q][k] # Genesis /\ Height(Chain[q][k]) = k - 1
        /\ Parent(Chain[q][k]) = Chain[q][k - 1]
    <3> HIDE DEF k
    <3>1. k \in DOMAIN Chain[q] /\ k > 1
      BY <2>1 DEF k
    <3> QED BY <3>1, OnChain
  <2>3. bs[i] = Chain[q][k]
    BY <2>1
  <2>4. /\ bs[i] \in Block /\ bs[i] # Genesis /\ Parent(bs[i]) = Chain[q][k - 1]
        /\ Height(bs[i]) = k - 1
    <3> HIDE DEF k
    <3> QED BY <2>2, <2>3
  <2>5. a \in Nat /\ i \in Nat
    BY <1>1, <1>2
  <2>6. k - 1 = a + i - 1
    BY <2>5
  <2> QED
    BY <2>1, <2>4, <2>6
<1>4. Joined(bs)
  <2>1. ASSUME NEW i \in 2..Len(bs) PROVE Parent(bs[i]) = bs[i - 1]
    <3>1. i \in 1..Len(bs) /\ i - 1 \in 1..Len(bs) /\ a + (i - 1) = a + i - 1
      BY <1>2
    <3> QED BY <3>1, <1>3
  <2> QED
    BY <1>1, <1>3, <2>1 DEF Joined
<1>5. ASSUME bs # << >>
      PROVE  /\ Len(bs) >= 1 /\ bs[1] \in Block /\ bs[1] # Genesis /\ Parent(bs[1]) = Chain[q][a]
             /\ Last(bs) = Chain[q][a + Len(bs)] /\ Last(bs) \in Block
             /\ Height(Last(bs)) = a + Len(bs) - 1
  <2>1. Len(bs) >= 1 /\ Len(bs) \in 1..Len(bs) /\ 1 \in 1..Len(bs) /\ a + 1 - 1 = a
    BY <1>1, <1>2, <1>5
  <2> QED
    BY <2>1, <1>3 DEF Last
<1> QED
  BY <1>1, <1>2, <1>4, <1>5

(* Two pieces that meet are one.                                           *)
LEMMA PiecesMeet ==
  ASSUME NEW q \in Block, NEW x, NEW y, NEW a, PieceAt(x, q, a), PieceAt(y, q, a + Len(x))
  PROVE  PieceAt(x \o y, q, a) /\ Len(x \o y) = Len(x) + Len(y)
<1>1. /\ x \in Seq(Block) /\ y \in Seq(Block) /\ a \in DOMAIN Chain[q]
      /\ a + Len(x) + Len(y) \in DOMAIN Chain[q]
      /\ \A i \in 1..Len(x) : x[i] = Chain[q][a + i]
      /\ \A i \in 1..Len(y) : y[i] = Chain[q][a + Len(x) + i]
  BY DEF PieceAt
<1>2. a \in Nat /\ Len(x) \in Nat /\ Len(y) \in Nat
  BY <1>1, ChainType
<1>3. x \o y \in Seq(Block) /\ Len(x \o y) = Len(x) + Len(y)
  BY <1>1
<1>4. ASSUME NEW i \in 1..Len(x \o y) PROVE (x \o y)[i] = Chain[q][a + i]
  <2>1. CASE i <= Len(x)
    BY <1>1, <1>2, <1>3, <2>1
  <2>2. CASE i > Len(x)
    <3>1. i - Len(x) \in 1..Len(y) /\ a + Len(x) + (i - Len(x)) = a + i
      BY <1>2, <1>3, <2>2
    <3>2. (x \o y)[i] = y[i - Len(x)]
      BY <1>1, <1>2, <1>3, <2>2
    <3> QED BY <3>1, <3>2, <1>1
  <2> QED BY <1>2, <1>3, <2>1, <2>2
<1>5. a + Len(x \o y) = a + Len(x) + Len(y)
  BY <1>2, <1>3
<1> QED
  BY <1>1, <1>3, <1>4, <1>5 DEF PieceAt

(* What a batch takes of a piece is a piece, and not nothing.              *)
LEMMA FrontOfPiece ==
  ASSUME NEW q \in Block, NEW bs, NEW a, PieceAt(bs, q, a), NEW n \in 1..Len(bs)
  PROVE  PieceAt(SubSeq(bs, 1, n), q, a) /\ SubSeq(bs, 1, n) # << >>
<1>1. /\ bs \in Seq(Block) /\ a \in DOMAIN Chain[q] /\ a + Len(bs) \in DOMAIN Chain[q]
      /\ \A i \in 1..Len(bs) : bs[i] = Chain[q][a + i]
  BY DEF PieceAt
<1>2. DOMAIN Chain[q] = 1..Len(Chain[q]) /\ Len(Chain[q]) \in Nat /\ Len(bs) \in Nat
  BY <1>1, ChainType
<1>3. /\ SubSeq(bs, 1, n) \in Seq(Block) /\ Len(SubSeq(bs, 1, n)) = n
      /\ \A i \in 1..n : SubSeq(bs, 1, n)[i] = bs[i]
  BY <1>1, <1>2
<1>4. a + n \in DOMAIN Chain[q] /\ n # 0 /\ \A i \in 1..n : i \in 1..Len(bs)
  BY <1>1, <1>2
<1> QED
  BY <1>1, <1>3, <1>4 DEF PieceAt

(* What headersFor and blocksFor cut off a piece of a chain is one at the  *)
(* same place, and nothing only when the piece is nothing.                 *)
LEMMA UptoPiece ==
  ASSUME NEW q \in Block, NEW bs, NEW a, PieceAt(bs, q, a), NEW n \in Nat \ {0}
  PROVE  PieceAt(Upto(bs, n), q, a) /\ (Upto(bs, n) = << >> => bs = << >>)
<1>1. bs \in Seq(Block) /\ Len(bs) \in Nat
  BY DEF PieceAt
<1>2. CASE bs = << >>
  <2>1. Upto(bs, n) = << >>
    BY <1>2 DEF Upto
  <2> QED BY <2>1, <1>2
<1>3. CASE bs # << >>
  <2> DEFINE k == IF n < Len(bs) THEN n ELSE Len(bs)
  <2>1. k \in 1..Len(bs)
    BY <1>1, <1>3
  <2>2. Upto(bs, n) = SubSeq(bs, 1, k)
    BY DEF Upto
  <2> HIDE DEF k
  <2> QED BY <2>1, <2>2, FrontOfPiece
<1> QED
  BY <1>2, <1>3

\* What a locator looks like to the node that reads it.
IsLocator(L) ==
  /\ Len(L) \in Nat /\ Len(L) >= 1 /\ DOMAIN L = 1..Len(L)
  /\ L[Len(L)] = Genesis

(* A locator ends in the genesis block and begins with its head.           *)
LEMMA LocatorEnds ==
  ASSUME NEW s, NEW t \in Block,
         LocatorHead(s, t) # << >> => \E x : LocatorHead(s, t) = <<x>>
  PROVE  /\ IsLocator(BuildLocator(s, t))
         /\ LocatorHead(s, t) # << >> => BuildLocator(s, t)[1] = LocatorHead(s, t)[1]
<1> DEFINE head == LocatorHead(s, t)
           dense == DENSE - Len(head)
           back(k) == IF k <= dense THEN k - 1 ELSE dense - 3 + 2 ^ (k - dense + 1)
           places == {k \in 1..Height(t) : back(k) < Height(t)}
           e(k) == Chain[t][Height(t) - back(k) + 1]
           c == Cardinality(places)
           mid == [k \in 1..c |-> e(k)]
<1>1. BuildLocator(s, t) = head \o mid \o <<Genesis>>
  BY DEF BuildLocator
<1>2. c \in Nat
  <2>1. Height(t) \in Nat /\ 1 \in Int
    BY ChainType
  <2>2. IsFiniteSet(1..Height(t))
    BY <2>1, FS_Interval
  <2>3. places \in SUBSET (1..Height(t))
    OBVIOUS
  <2> HIDE DEF places
  <2> QED
    BY <2>2, <2>3, FS_Subset, FS_CardinalityType
<1> DEFINE S == {e(k) : k \in 1..c} \cup {head[1], Genesis}
<1>3. mid \in Seq(S)
  <2> HIDE DEF c, e
  <2> QED
    BY <1>2
<1>4. head = << >> \/ head = <<head[1]>>
  <2>1. CASE head # << >>
    <3>1. PICK x : head = <<x>>
      BY <2>1
    <3>2. <<x>>[1] = x
      OBVIOUS
    <3> QED BY <3>1, <3>2
  <2> QED BY <2>1
<1> HIDE DEF mid, head
<1>5. head \in Seq(S) /\ <<Genesis>> \in Seq(S)
  <2>1. head[1] \in S /\ Genesis \in S
    OBVIOUS
  <2> HIDE DEF S
  <2>2. <<head[1]>> \in Seq(S) /\ <<Genesis>> \in Seq(S) /\ << >> \in Seq(S)
    BY <2>1
  <2> QED BY <1>4, <2>2
<1> HIDE DEF S
<1>6. head \o mid \in Seq(S) /\ Len(head \o mid) \in Nat
  BY <1>3, <1>5
<1> DEFINE L == head \o mid \o <<Genesis>>
<1>7. L \in Seq(S) /\ Len(L) = Len(head \o mid) + 1 /\ L[Len(L)] = Genesis
  BY <1>5, <1>6
<1>8. ASSUME head # << >> PROVE L[1] = head[1]
  <2>1. Len(head) = 1
    BY <1>4, <1>8
  <2>2. Len(head \o mid) >= 1 /\ (head \o mid)[1] = head[1]
    <3>1. Len(mid) \in Nat /\ Len(head \o mid) = Len(head) + Len(mid)
      BY <1>3, <1>5
    <3>2. 1 \in 1..Len(head)
      BY <2>1
    <3> QED BY <1>3, <1>5, <2>1, <3>1, <3>2
  <2> QED
    BY <2>2, <1>5, <1>6
<1> QED
  BY <1>1, <1>6, <1>7, <1>8 DEF IsLocator, head

(* A node answers from a place of its own chain, from that of the first    *)
(* hash if it has it.                                                      *)
LEMMA StartPlace ==
  ASSUME NEW L, IsLocator(L), NEW q \in Block
  PROVE  /\ StartAfterLocator(L, q) \in DOMAIN Chain[q]
         /\ \A a \in DOMAIN Chain[q] : L[1] = Chain[q][a] => StartAfterLocator(L, q) = a
<1> DEFINE known == {k \in DOMAIN L : Has(q, L[k])}
<1>1. Len(L) \in Nat /\ Len(L) >= 1 /\ DOMAIN L = 1..Len(L) /\ L[Len(L)] = Genesis
  BY DEF IsLocator
<1>2. DOMAIN Chain[q] = 1..Len(Chain[q]) /\ Len(Chain[q]) \in Nat /\ Len(Chain[q]) >= 1
  BY ChainType
<1>3. Has(q, Genesis)
  <2>1. 1 \in DOMAIN Chain[q]
    BY <1>2
  <2>2. Chain[q][1] = Genesis
    BY <2>1, OnChain
  <2> QED
    BY <1>2, <2>1, <2>2 DEF Has, Contains
<1>4. known \in SUBSET (1..Len(L)) /\ known # {} /\ Len(L) \in known
  BY <1>1, <1>3
<1>5. StartAfterLocator(L, q) = Height(L[Min(known)]) + 1
  BY <1>4 DEF StartAfterLocator
<1>6. Min(known) \in known /\ \A k \in known : Min(known) <= k
  <2> HIDE DEF known
  <2> QED
    BY <1>1, <1>4, MinIn
<1>7. ASSUME NEW x, Has(q, x) PROVE Height(x) + 1 \in DOMAIN Chain[q] /\ Chain[q][Height(x) + 1] = x
  <2>1. PICK i \in 1..Len(Chain[q]) : Chain[q][i] = x
    BY <1>7 DEF Has, Contains
  <2>2. Height(x) = i - 1 /\ i \in Nat
    BY <2>1, <1>2, OnChain
  <2> QED BY <2>1, <2>2, <1>2
<1>8. StartAfterLocator(L, q) \in DOMAIN Chain[q]
  BY <1>5, <1>6, <1>7
<1>9. ASSUME NEW a \in DOMAIN Chain[q], L[1] = Chain[q][a] PROVE StartAfterLocator(L, q) = a
  <2>1. 1 \in known
    BY <1>1, <1>2, <1>9 DEF Has, Contains
  <2>2. Min(known) = 1
    <3>1. Min(known) \in 1..Len(L) /\ Min(known) <= 1
      BY <1>4, <1>6, <2>1
    <3> QED BY <3>1, <1>1
  <2>3. Height(L[1]) = a - 1 /\ a \in Nat
    BY <1>9, OnChain
  <2> QED BY <1>5, <2>2, <2>3
<1> QED
  BY <1>8, <1>9

(* What a node has after a locator is the end of its chain from there.     *)
LEMMA AfterPiece ==
  ASSUME NEW L, NEW q \in Block, NEW a \in DOMAIN Chain[q], StartAfterLocator(L, q) = a
  PROVE  PieceAt(After(L, q), q, a) /\ a + Len(After(L, q)) = Len(Chain[q])
<1>1. /\ DOMAIN Chain[q] = 1..Len(Chain[q]) /\ Len(Chain[q]) \in Nat /\ Chain[q] \in Seq(Block)
      /\ Height(q) + 1 = Len(Chain[q])
  BY ChainType
<1>2. After(L, q) = SubSeq(Chain[q], a + 1, Len(Chain[q]))
  BY <1>1 DEF After
<1> DEFINE c == Chain[q]
           r == SubSeq(c, a + 1, Len(c))
<1> HIDE DEF c
<1>3. /\ r \in Seq(Block) /\ Len(r) = Len(c) - a
      /\ \A i \in 1..Len(r) : r[i] = c[a + i]
  <2>1. c \in Seq(Block) /\ a \in 1..Len(c) /\ Len(c) \in Nat
    BY <1>1 DEF c
  <2>2. Len(r) = Len(c) - a /\ r \in Seq(Block)
    BY <2>1
  <2>3. ASSUME NEW i \in 1..Len(r) PROVE r[i] = c[a + i]
    BY <2>1, <2>2
  <2> QED BY <2>2, <2>3
<1>4. a + Len(r) = Len(c) /\ Len(c) \in DOMAIN Chain[q]
  <2>1. a \in Nat /\ Len(c) \in Nat /\ Len(c) \in DOMAIN Chain[q]
    BY <1>1 DEF c
  <2> QED BY <2>1, <1>3
<1> QED
  BY <1>2, <1>3, <1>4 DEF c, PieceAt

\* The answer to a request that starts at a place of q's chain.
AnswersFrom(m, q, a) ==
  /\ m.height = Height(q) /\ PieceAt(m.blocks, q, a)
  /\ m.blocks = << >> => a = Len(Chain[q])

(* Both answers are pieces from the start on, and empty only at the end.   *)
LEMMA ResponsePieces ==
  ASSUME NEW L, NEW q \in Block, NEW a \in DOMAIN Chain[q], StartAfterLocator(L, q) = a
  PROVE  /\ AnswersFrom(ResponseHeaders(L, q), q, a)
         /\ AnswersFrom(ResponseBlocks(L, q), q, a)
         /\ ResponseHeaders(L, q).type = "HEADERS_RESPONSE"
         /\ ResponseBlocks(L, q).type = "BLOCKS_RESPONSE"
<1>1. PieceAt(After(L, q), q, a) /\ a + Len(After(L, q)) = Len(Chain[q])
  BY AfterPiece
<1>2. MAX_HEADERS_PER_BATCH \in Nat \ {0} /\ MAX_BLOCKS_PER_BATCH \in Nat \ {0}
  BY SyncConstants
<1>3. a \in Nat
  BY ChainType
<1> DEFINE hs == Upto(After(L, q), MAX_HEADERS_PER_BATCH)
           all == Upto(After(L, q), MAX_BLOCKS_PER_BATCH)
           fits == {k \in 1..Len(all) :
                      k = 1 \/ Size[all[k]] - Size[Parent(all[1])] <= MAX_BATCH_BYTES}
           bs == IF fits = {} THEN << >> ELSE SubSeq(all, 1, Max(fits))
<1>4. PieceAt(hs, q, a) /\ (hs = << >> => After(L, q) = << >>)
  BY <1>1, <1>2, UptoPiece
<1>5. PieceAt(all, q, a) /\ (all = << >> => After(L, q) = << >>)
  BY <1>1, <1>2, UptoPiece
<1>6. After(L, q) = << >> => a = Len(Chain[q])
  BY <1>1, <1>3
<1>7. PieceAt(bs, q, a) /\ (bs = << >> => all = << >>)
  <2> HIDE DEF all
  <2>1. all \in Seq(Block) /\ Len(all) \in Nat
    BY <1>5 DEF PieceAt
  <2>2. CASE all = << >>
    <3>1. fits = {}
      BY <2>2
    <3> QED BY <3>1, <2>2, <1>5
  <2>3. CASE all # << >>
    <3>1. Len(all) >= 1
      BY <2>1, <2>3
    <3>2. 1 \in fits /\ fits \in SUBSET (1..Len(all))
      BY <2>1, <3>1
    <3> HIDE DEF fits
    <3>3. Max(fits) \in 1..Len(all) /\ fits # {}
      BY <2>1, <3>2, MaxIn
    <3> QED BY <3>3, <1>5, FrontOfPiece
  <2> QED BY <2>2, <2>3
<1>8. /\ ResponseHeaders(L, q) = [type |-> "HEADERS_RESPONSE", blocks |-> hs, height |-> Height(q)]
      /\ ResponseBlocks(L, q) = [type |-> "BLOCKS_RESPONSE", blocks |-> bs, height |-> Height(q)]
  BY DEF ResponseHeaders, ResponseBlocks, Headers, Blocks
<1> HIDE DEF hs, bs, all
<1> QED
  BY <1>4, <1>5, <1>6, <1>7, <1>8 DEF AnswersFrom

-----------------------------------------------------------------------------
(* The states of an exchange, the messages, and the types of everything.   *)
Requests == {"GET_HEADERS", "GET_BLOCKS"}
Responses == {"HEADERS_RESPONSE", "BLOCKS_RESPONSE"}

States ==
  [phase : {"null", "headers", "blocks"}, inFlight : BOOLEAN, late : BOOLEAN,
   headers : Seq(Block), forkParent : Nat \cup {-1}, expected : SUBSET Block,
   buffer : Seq(Block), progressed : BOOLEAN, astray : BOOLEAN]

StateRight(s) == s \in States /\ Joined(s.headers) /\ Joined(s.buffer)

Locators == {BuildLocator(s, t) : s \in States, t \in Block}

Messages ==
  [type : {"GET_LATEST"}] \cup [type : {"BLOCKCHAIN_RESPONSE"}, tip : Block]
    \cup [type : Requests, locator : Locators]
    \cup [type : Responses, blocks : {bs \in Seq(Block) : Joined(bs)}, height : Nat]

SyncTypes ==
  /\ tip \in [Node -> Block]
  /\ links \subseteq Pairs /\ banned \subseteq Pairs /\ disturbed \subseteq Pairs
  /\ score \in [Pairs -> Nat] /\ net \in [Pairs -> Seq(Messages)] /\ sync \in [Pairs -> States]
  /\ \A l \in Pairs : StateRight(sync[l])
  /\ \A l \in Pairs : l \in links <=> Other(l) \in links
  /\ \A l \in Pairs : l \notin links => sync[l] = FreshSync /\ net[l] = << >>

(* A link has two ends.                                                    *)
LEMMA TwoEnds ==
  ASSUME NEW l \in Pairs
  PROVE  /\ Other(l) \in Pairs /\ Other(Other(l)) = l /\ Other(l) # l
         /\ l[1] \in Node /\ l[2] \in Node /\ l[1] # l[2] /\ l = <<l[1], l[2]>>
         /\ Other(l)[1] = l[2] /\ Other(l)[2] = l[1]
BY DEF Pairs, Other

(* Two links of the same ends are one.                                     *)
LEMMA SameEnds ==
  ASSUME NEW l \in Pairs, NEW m \in Pairs, l[1] = m[1], l[2] = m[2]
  PROVE  l = m
BY TwoEnds

(* The state of a new exchange.                                            *)
LEMMA FreshRight ==
  /\ StateRight(FreshSync) /\ FreshSync.phase = "null" /\ FreshSync.inFlight = FALSE
  /\ FreshSync.late = FALSE /\ FreshSync.astray = FALSE /\ FreshSync.headers = << >>
  /\ FreshSync.buffer = << >> /\ FreshSync.expected = {} /\ FreshSync.forkParent = -1
<1>1. << >> \in Seq(Block) /\ Len(<< >>) = 0
  OBVIOUS
<1>2. Joined(<< >>)
  BY <1>1 DEF Joined
<1> QED
  BY <1>1, <1>2 DEF FreshSync, StateRight, States

(* What the head of a locator is: nothing or one hash.                     *)
LEMMA HeadShape ==
  ASSUME NEW s, NEW t
  PROVE  LocatorHead(s, t) # << >> => \E x : LocatorHead(s, t) = <<x>>
BY DEF LocatorHead

(* What a message of each type carries.                                    *)
LEMMA MessageFacts ==
  ASSUME NEW m \in Messages
  PROVE  /\ m.type \in {"GET_LATEST", "BLOCKCHAIN_RESPONSE"} \cup Requests \cup Responses
         /\ m.type = "BLOCKCHAIN_RESPONSE" => m.tip \in Block
         /\ m.type \in Requests => IsLocator(m.locator)
         /\ m.type \in Responses => Joined(m.blocks) /\ m.height \in Nat
<1>1. ASSUME NEW L \in Locators PROVE IsLocator(L)
  BY HeadShape, LocatorEnds DEF Locators
<1>2. CASE m \in [type : {"GET_LATEST"}]
  BY <1>2 DEF Requests, Responses
<1>3. CASE m \in [type : {"BLOCKCHAIN_RESPONSE"}, tip : Block]
  BY <1>3 DEF Requests, Responses
<1>4. CASE m \in [type : Requests, locator : Locators]
  <2>1. m.type \in Requests /\ m.locator \in Locators
    BY <1>4
  <2> QED BY <2>1, <1>1 DEF Requests, Responses
<1>5. CASE m \in [type : Responses, blocks : {bs \in Seq(Block) : Joined(bs)}, height : Nat]
  <2>1. m.type \in Responses /\ Joined(m.blocks) /\ m.height \in Nat
    BY <1>5
  <2> QED BY <2>1 DEF Requests, Responses
<1> QED
  BY <1>2, <1>3, <1>4, <1>5 DEF Messages

(* What is sent is a message.                                              *)
LEMMA SentAreMessages ==
  ASSUME NEW s \in States, NEW t \in Block, NEW L, IsLocator(L)
  PROVE  /\ GetLatest \in Messages /\ Latest(t) \in Messages
         /\ GetHeaders(s, t) \in Messages /\ GetBlocks(s, t) \in Messages
         /\ ResponseHeaders(L, t) \in Messages /\ ResponseBlocks(L, t) \in Messages
<1>1. GetLatest \in Messages /\ Latest(t) \in Messages
  BY DEF GetLatest, Latest, Messages
<1>2. BuildLocator(s, t) \in Locators
  BY DEF Locators
<1>3. GetHeaders(s, t) \in Messages /\ GetBlocks(s, t) \in Messages
  BY <1>2 DEF GetHeaders, GetBlocks, Messages, Requests
<1> DEFINE a == StartAfterLocator(L, t)
<1>4. a \in DOMAIN Chain[t]
  BY StartPlace
<1>5. AnswersFrom(ResponseHeaders(L, t), t, a) /\ AnswersFrom(ResponseBlocks(L, t), t, a)
  BY <1>4, ResponsePieces
<1>6. /\ Joined(ResponseHeaders(L, t).blocks) /\ Joined(ResponseBlocks(L, t).blocks)
      /\ Height(t) \in Nat
  BY <1>5, PieceFacts, ChainType DEF AnswersFrom
<1>7. ASSUME NEW bs, Joined(bs)
      PROVE  /\ [type |-> "HEADERS_RESPONSE", blocks |-> bs, height |-> Height(t)] \in Messages
             /\ [type |-> "BLOCKS_RESPONSE", blocks |-> bs, height |-> Height(t)] \in Messages
  <2>1. bs \in {x \in Seq(Block) : Joined(x)}
    BY <1>7 DEF Joined
  <2> QED BY <2>1, <1>6 DEF Messages, Responses
<1>8. ResponseHeaders(L, t)
        = [type |-> "HEADERS_RESPONSE", blocks |-> ResponseHeaders(L, t).blocks, height |-> Height(t)]
  BY DEF ResponseHeaders, Headers
<1>9. ResponseBlocks(L, t)
        = [type |-> "BLOCKS_RESPONSE", blocks |-> ResponseBlocks(L, t).blocks, height |-> Height(t)]
  BY DEF ResponseBlocks, Blocks
<1>10. ResponseHeaders(L, t) \in Messages /\ ResponseBlocks(L, t) \in Messages
  BY <1>6, <1>7, <1>8, <1>9
<1> QED
  BY <1>1, <1>3, <1>10

-----------------------------------------------------------------------------
(* Queues. *)

\* A queue holds no message of some types; exactly one.
Without(Q, types) == \A k \in DOMAIN Q : Q[k].type \notin types
OnlyAt(Q, types, k) ==
  /\ k \in DOMAIN Q /\ Q[k].type \in types
  /\ \A j \in DOMAIN Q : Q[j].type \in types => j = k
Holds(Q, type) == \E k \in DOMAIN Q : Q[k].type = type

\* Nothing of some types entered or left between two states of a queue.
Keeps(Q, R, types) ==
  /\ Without(Q, types) => Without(R, types)
  /\ \A k : OnlyAt(Q, types, k) => \E j \in DOMAIN R : OnlyAt(R, types, j) /\ R[j] = Q[k]
  /\ \A type \in types : Holds(Q, type) => Holds(R, type)

(* A queue that stays as it is keeps every type.                           *)
LEMMA KeepsSame ==
  ASSUME NEW Q, NEW types PROVE Keeps(Q, Q, types)
BY DEF Keeps, OnlyAt

(* What two steps of a queue keep, both together keep.                     *)
LEMMA KeepsBoth ==
  ASSUME NEW Q, NEW R, NEW S, NEW types, Keeps(Q, R, types), Keeps(R, S, types)
  PROVE  Keeps(Q, S, types)
BY DEF Keeps

(* A message of another type comes in at the end.                          *)
LEMMA KeepsAppend ==
  ASSUME NEW Q \in Seq(Messages), NEW m \in Messages, NEW types, m.type \notin types
  PROVE  Keeps(Q, Append(Q, m), types)
<1> DEFINE R == Append(Q, m)
<1>1. /\ Len(Q) \in Nat /\ DOMAIN Q = 1..Len(Q) /\ DOMAIN R = 1..(Len(Q) + 1)
      /\ \A k \in 1..Len(Q) : R[k] = Q[k]
      /\ R[Len(Q) + 1] = m
  OBVIOUS
<1> HIDE DEF R
<1>2. \A k \in DOMAIN R : (k \in DOMAIN Q /\ R[k] = Q[k]) \/ R[k] = m
  BY <1>1
<1>3. \A k \in DOMAIN Q : k \in DOMAIN R /\ R[k] = Q[k]
  BY <1>1
<1> QED
  BY <1>2, <1>3 DEF Keeps, Without, OnlyAt, Holds, R

(* A message of another type is read.                                      *)
LEMMA KeepsTail ==
  ASSUME NEW Q \in Seq(Messages), Q # << >>, NEW types, Head(Q).type \notin types
  PROVE  Keeps(Q, Tail(Q), types)
<1> DEFINE R == Tail(Q)
<1>1. /\ Len(Q) \in Nat /\ Len(Q) >= 1 /\ DOMAIN Q = 1..Len(Q) /\ DOMAIN R = 1..(Len(Q) - 1)
      /\ \A k \in 1..(Len(Q) - 1) : R[k] = Q[k + 1]
      /\ Head(Q) = Q[1]
  OBVIOUS
<1> HIDE DEF R
<1>2. \A k \in DOMAIN R : k + 1 \in DOMAIN Q /\ R[k] = Q[k + 1]
  BY <1>1
<1>3. \A k \in DOMAIN Q : Q[k].type \in types => k - 1 \in DOMAIN R /\ R[k - 1] = Q[k]
  <2> SUFFICES ASSUME NEW k \in DOMAIN Q, Q[k].type \in types
               PROVE  k - 1 \in DOMAIN R /\ R[k - 1] = Q[k]
    OBVIOUS
  <2>1. k # 1
    BY <1>1
  <2>2. k - 1 \in 1..(Len(Q) - 1) /\ (k - 1) + 1 = k
    BY <1>1, <2>1
  <2> QED BY <1>1, <2>2
<1>4. Without(Q, types) => Without(R, types)
  BY <1>2 DEF Without
<1>5. ASSUME NEW k, OnlyAt(Q, types, k)
      PROVE  \E j \in DOMAIN R : OnlyAt(R, types, j) /\ R[j] = Q[k]
  <2>1. k - 1 \in DOMAIN R /\ R[k - 1] = Q[k] /\ Q[k].type \in types /\ k \in DOMAIN Q
    BY <1>3, <1>5 DEF OnlyAt
  <2>2. ASSUME NEW j \in DOMAIN R, R[j].type \in types PROVE j = k - 1
    <3>1. j + 1 \in DOMAIN Q /\ Q[j + 1].type \in types
      BY <1>2, <2>2
    <3>2. j + 1 = k
      BY <3>1, <1>5 DEF OnlyAt
    <3> QED BY <3>2, <1>1
  <2>3. OnlyAt(R, types, k - 1)
    BY <2>1, <2>2 DEF OnlyAt
  <2> QED BY <2>1, <2>3
<1>6. \A type \in types : Holds(Q, type) => Holds(R, type)
  BY <1>3 DEF Holds
<1> QED
  BY <1>4, <1>5, <1>6 DEF Keeps, R

(* The only message of its types is read; one is sent where there is none. *)
LEMMA ReadOnly ==
  ASSUME NEW Q \in Seq(Messages), Q # << >>, NEW types, Head(Q).type \in types,
         NEW k, OnlyAt(Q, types, k)
  PROVE  k = 1 /\ Without(Tail(Q), types) /\ Q[k] = Head(Q)
<1> DEFINE R == Tail(Q)
<1>1. /\ Len(Q) \in Nat /\ Len(Q) >= 1 /\ DOMAIN Q = 1..Len(Q) /\ DOMAIN R = 1..(Len(Q) - 1)
      /\ \A j \in 1..(Len(Q) - 1) : R[j] = Q[j + 1]
      /\ Head(Q) = Q[1]
  OBVIOUS
<1>2. 1 \in DOMAIN Q
  BY <1>1
<1>3. k = 1
  BY <1>1, <1>2 DEF OnlyAt
<1> HIDE DEF R
<1>4. \A j \in DOMAIN R : j + 1 \in DOMAIN Q /\ R[j] = Q[j + 1] /\ j + 1 # 1
  BY <1>1
<1>5. Without(R, types)
  BY <1>3, <1>4 DEF OnlyAt, Without
<1> QED
  BY <1>1, <1>3, <1>5 DEF R

(* A message of some types joins a queue without any: it is the only one.  *)
LEMMA SendOnly ==
  ASSUME NEW Q \in Seq(Messages), NEW m \in Messages, NEW types, m.type \in types, Without(Q, types)
  PROVE  \E k \in DOMAIN Append(Q, m) : OnlyAt(Append(Q, m), types, k) /\ Append(Q, m)[k] = m
<1> DEFINE R == Append(Q, m)
<1>1. /\ Len(Q) \in Nat /\ DOMAIN Q = 1..Len(Q) /\ DOMAIN R = 1..(Len(Q) + 1)
      /\ \A k \in 1..Len(Q) : R[k] = Q[k]
      /\ R[Len(Q) + 1] = m
  OBVIOUS
<1> HIDE DEF R
<1>2. \A k \in DOMAIN R : (k \in DOMAIN Q /\ R[k] = Q[k]) \/ k = Len(Q) + 1
  BY <1>1
<1>3. OnlyAt(R, types, Len(Q) + 1) /\ Len(Q) + 1 \in DOMAIN R
  BY <1>1, <1>2 DEF OnlyAt, Without
<1> QED
  BY <1>1, <1>3 DEF R

-----------------------------------------------------------------------------
(* Exchanges nothing has come between. *)

(* Two chains are the same up to a height.                                 *)
MeetAt(f, t, q) ==
  f \in Nat /\ f + 1 \in DOMAIN Chain[t] /\ f + 1 \in DOMAIN Chain[q]
  /\ Chain[t][f + 1] = Chain[q][f + 1]

(* What a node with tip t has of the chain of q.                           *)
HeadersRight(s, t, q) ==
  /\ s.buffer = << >>
  /\ s.headers # << >> => MeetAt(s.forkParent, t, q) /\ PieceAt(s.headers, q, s.forkParent + 1)

BlocksRight(s, t, q) ==
  /\ MeetAt(s.forkParent, t, q)
  /\ \A i \in s.forkParent + 2..Len(Chain[q]) : Chain[q][i] \in s.expected
  /\ s.buffer # << >> =>
       \E a \in s.forkParent + 1..Len(Chain[q]) : PieceAt(s.buffer, q, a)

(* The place in the chain of q the next piece has to follow.               *)
GoesOnFrom(s, q, a) ==
  /\ a \in DOMAIN Chain[q]
  /\ s.phase = "headers" /\ s.headers # << >> => a = s.forkParent + 1 + Len(s.headers)
  /\ s.phase = "blocks" =>
       IF s.buffer = << >> THEN a = s.forkParent + 1
       ELSE a > s.forkParent /\ Chain[q][a] = Last(s.buffer)

GoodRequest(s, q, m) ==
  m.type = Request(s.phase) /\ GoesOnFrom(s, q, StartAfterLocator(m.locator, q))

GoodResponse(s, q, m) ==
  /\ m.type = Response(s.phase) /\ m.height = Height(q)
  /\ \E a \in DOMAIN Chain[q] :
       /\ GoesOnFrom(s, q, a) /\ PieceAt(m.blocks, q, a)
       /\ m.blocks = << >> => a = Len(Chain[q])

(* An exchange nothing has come between: n's state s and tip t, the tip q  *)
(* of the peer, and the messages to and from it.                           *)
Undisturbed(s, t, q, out, in) ==
  /\ ~ s.late /\ ~ s.astray
  /\ s.phase = "null" => s = FreshSync /\ Without(out, Requests) /\ Without(in, Responses)
  /\ s.phase # "null" =>
       /\ s.inFlight
       /\ s.phase = "headers" => HeadersRight(s, t, q)
       /\ s.phase = "blocks" => BlocksRight(s, t, q)
       /\ \/ \E k \in DOMAIN out : OnlyAt(out, Requests, k) /\ GoodRequest(s, q, out[k])
                                   /\ Without(in, Responses)
          \/ \E k \in DOMAIN in : OnlyAt(in, Responses, k) /\ GoodResponse(s, q, in[k])
                                   /\ Without(out, Requests)

\* After an exchange has gone on: what it has, and what it asks for, fit.
GoesOn(s, t, q) ==
  /\ s.phase = "headers" => HeadersRight(s, t, q)
  /\ s.phase = "blocks" => BlocksRight(s, t, q)
  /\ GoesOnFrom(s, q, StartAfterLocator(BuildLocator(s, t), q))

(* A request that names a block of q's chain first is answered from there. *)
LEMMA AskedFrom ==
  ASSUME NEW s, NEW t \in Block, NEW q \in Block, NEW a \in DOMAIN Chain[q],
         LocatorHead(s, t) = <<Chain[q][a]>>
  PROVE  StartAfterLocator(BuildLocator(s, t), q) = a
<1>1. LocatorHead(s, t) # << >> /\ LocatorHead(s, t)[1] = Chain[q][a]
  <2>1. <<Chain[q][a]>> # << >> /\ <<Chain[q][a]>>[1] = Chain[q][a]
    OBVIOUS
  <2> QED BY <2>1
<1>2. IsLocator(BuildLocator(s, t)) /\ BuildLocator(s, t)[1] = Chain[q][a]
  BY <1>1, HeadShape, LocatorEnds
<1> QED
  BY <1>2, StartPlace

(* Any request is answered from some place.                                *)
LEMMA AskedSomewhere ==
  ASSUME NEW s, NEW t \in Block, NEW q \in Block
  PROVE  StartAfterLocator(BuildLocator(s, t), q) \in DOMAIN Chain[q]
BY HeadShape, LocatorEnds, StartPlace

(* The next headers are asked for after the last one.                      *)
LEMMA HeadersGoOn ==
  ASSUME NEW s \in States, NEW t \in Block, NEW q \in Block,
         s.phase = "headers", HeadersRight(s, t, q)
  PROVE  GoesOn(s, t, q)
<1> DEFINE a == StartAfterLocator(BuildLocator(s, t), q)
<1>1. a \in DOMAIN Chain[q]
  BY AskedSomewhere
<1>2. CASE s.headers = << >>
  BY <1>1, <1>2 DEF GoesOn, GoesOnFrom
<1>3. CASE s.headers # << >>
  <2> DEFINE b == s.forkParent + 1 + Len(s.headers)
  <2>1. PieceAt(s.headers, q, s.forkParent + 1) /\ s.buffer = << >>
    BY <1>3 DEF HeadersRight
  <2>2. Last(s.headers) = Chain[q][b] /\ b \in DOMAIN Chain[q]
    BY <2>1, <1>3, PieceFacts DEF PieceAt
  <2>3. LocatorHead(s, t) = <<Chain[q][b]>>
    BY <2>1, <2>2, <1>3 DEF LocatorHead
  <2> HIDE DEF b
  <2>4. a = b
    BY <2>2, <2>3, AskedFrom
  <2> QED BY <1>1, <2>4 DEF GoesOn, GoesOnFrom, b
<1> QED
  BY <1>2, <1>3

\* The state with a batch of headers, of blocks, taken in.
WithHeaders(s, hs) ==
  [s EXCEPT !.headers = @ \o hs,
            !.forkParent = IF s.headers = << >> THEN Height(Parent(hs[1])) ELSE @]
WithBlocks(s, bs) == [s EXCEPT !.buffer = @ \o bs]

(* A batch of headers from the right place does not break off, and what    *)
(* has been received with it is right.                                     *)
LEMMA HeadersTaken ==
  ASSUME NEW s \in States, NEW t \in Block, NEW q \in Block, NEW hs, NEW a, hs # << >>,
         s.phase = "headers", HeadersRight(s, t, q), GoesOnFrom(s, q, a), PieceAt(hs, q, a),
         s.headers = << >> => Has(t, Parent(hs[1])),
         NEW got, got = WithHeaders(s, hs)
  PROVE  /\ ~ BreaksOff(s.headers, Parent(hs[1]))
         /\ got.phase = "headers" /\ got.headers # << >> /\ HeadersRight(got, t, q)
         /\ got.forkParent + 1 + Len(got.headers) = a + Len(hs)
<1>1. /\ Parent(hs[1]) = Chain[q][a] /\ a \in DOMAIN Chain[q] /\ a \in Nat /\ a >= 1
      /\ Len(hs) \in Nat /\ Len(hs) >= 1 /\ hs \in Seq(Block)
  BY PieceFacts DEF PieceAt
<1>2. /\ got.phase = "headers" /\ got.headers = s.headers \o hs /\ got.buffer = s.buffer
      /\ got.forkParent = IF s.headers = << >> THEN Height(Parent(hs[1])) ELSE s.forkParent
  BY DEF States, WithHeaders
<1>3. s.buffer = << >>
  BY DEF HeadersRight
<1>4. CASE s.headers = << >>
  <2>1. Height(Parent(hs[1])) = a - 1 /\ Chain[q][a] \in Block
    BY <1>1, OnChain
  <2>2. a \in DOMAIN Chain[t] /\ Chain[t][a] = Chain[q][a]
    <3>1. Has(t, Chain[q][a]) /\ Height(Chain[q][a]) + 1 = a
      BY <1>1, <1>4, <2>1
    <3> QED BY <3>1, <2>1, HasAt
  <2>3. got.forkParent = a - 1 /\ (a - 1) + 1 = a /\ a - 1 \in Nat
    BY <1>1, <1>2, <1>4, <2>1
  <2>4. MeetAt(got.forkParent, t, q)
    BY <1>1, <2>2, <2>3 DEF MeetAt
  <2>5. got.headers = hs
    BY <1>1, <1>2, <1>4
  <2>6. PieceAt(got.headers, q, got.forkParent + 1)
    BY <2>3, <2>5
  <2> QED
    BY <1>1, <1>2, <1>3, <1>4, <2>3, <2>4, <2>5, <2>6 DEF HeadersRight, BreaksOff
<1>5. CASE s.headers # << >>
  <2>1. /\ MeetAt(s.forkParent, t, q) /\ PieceAt(s.headers, q, s.forkParent + 1)
        /\ a = s.forkParent + 1 + Len(s.headers) /\ s.forkParent \in Nat
    BY <1>5 DEF HeadersRight, GoesOnFrom, MeetAt
  <2>2. Last(s.headers) = Chain[q][a] /\ s.headers \in Seq(Block) /\ Len(s.headers) \in Nat
    <3>1. Last(s.headers) = Chain[q][s.forkParent + 1 + Len(s.headers)] /\ Len(s.headers) \in Nat
      <4> DEFINE g == s.forkParent + 1
                 hd == s.headers
      <4>1. PieceAt(hd, q, g) /\ hd # << >>
        BY <1>5, <2>1
      <4>2. Last(hd) = Chain[q][g + Len(hd)] /\ Len(hd) \in Nat
        <5> HIDE DEF g, hd
        <5> QED BY <4>1, PieceFacts
      <4> QED BY <4>2
    <3>2. s.headers \in Seq(Block)
      BY <2>1 DEF PieceAt
    <3> QED BY <3>1, <3>2, <2>1
  <2>3. got.forkParent = s.forkParent
    BY <1>2, <1>5
  <2>4. PieceAt(hs, q, s.forkParent + 1 + Len(s.headers))
    BY <2>1
  <2>5. /\ PieceAt(got.headers, q, got.forkParent + 1)
        /\ Len(got.headers) = Len(s.headers) + Len(hs)
    BY <1>2, <2>1, <2>3, <2>4, PiecesMeet
  <2>6. got.headers # << >>
    BY <1>1, <2>2, <2>5
  <2>7. got.forkParent + 1 + Len(got.headers) = a + Len(hs)
    BY <1>1, <2>1, <2>2, <2>3, <2>5
  <2> QED
    BY <1>1, <1>2, <1>3, <1>5, <2>1, <2>2, <2>3, <2>5, <2>6, <2>7 DEF HeadersRight, BreaksOff
<1> QED
  BY <1>4, <1>5

(* With the headers up to q, the blocks asked for are the blocks q has.    *)
LEMMA BlocksStart ==
  ASSUME NEW s \in States, NEW t \in Block, NEW q \in Block,
         HeadersRight(s, t, q), s.headers # << >>,
         s.forkParent + 1 + Len(s.headers) = Len(Chain[q]),
         NEW r, r = BlocksAsked([s EXCEPT !.expected = ToSet(s.headers), !.headers = << >>])
  PROVE  ~ LocatorThrows(r, t) /\ r.phase = "blocks" /\ GoesOn(r, t, q)
<1>1. /\ r.phase = "blocks" /\ r.expected = ToSet(s.headers) /\ r.buffer = s.buffer
      /\ r.forkParent = s.forkParent
  BY DEF States, BlocksAsked
<1>2. /\ s.buffer = << >> /\ MeetAt(s.forkParent, t, q) /\ PieceAt(s.headers, q, s.forkParent + 1)
  BY DEF HeadersRight
<1> DEFINE f == s.forkParent
<1>3. /\ f \in Nat /\ f + 1 \in DOMAIN Chain[t] /\ f + 1 \in DOMAIN Chain[q]
      /\ Chain[t][f + 1] = Chain[q][f + 1]
  BY <1>2 DEF MeetAt
<1>4. /\ Len(s.headers) \in Nat /\ \A i \in 1..Len(s.headers) : s.headers[i] = Chain[q][f + 1 + i]
      /\ DOMAIN s.headers = 1..Len(s.headers)
  BY <1>2 DEF PieceAt
<1>5. /\ DOMAIN Chain[t] = 1..Len(Chain[t]) /\ Len(Chain[t]) \in Nat /\ Height(t) + 1 = Len(Chain[t])
      /\ Height(t) \in Nat /\ DOMAIN Chain[q] = 1..Len(Chain[q]) /\ Len(Chain[q]) \in Nat
  BY ChainType
<1>6. ~ LocatorThrows(r, t)
  BY <1>1, <1>3, <1>5 DEF LocatorThrows
<1>7. ASSUME NEW i \in f + 2..Len(Chain[q]) PROVE Chain[q][i] \in r.expected
  <2> DEFINE k == i - f - 1
  <2>1. k \in 1..Len(s.headers) /\ f + 1 + k = i
    <3>1. f \in Nat /\ Len(s.headers) \in Nat /\ f + 1 + Len(s.headers) = Len(Chain[q])
      BY <1>3, <1>4
    <3> HIDE DEF f
    <3> QED BY <3>1
  <2>2. s.headers[k] = Chain[q][i] /\ k \in DOMAIN s.headers
    BY <2>1, <1>4
  <2> QED BY <2>2, <1>1 DEF ToSet
<1>8. BlocksRight(r, t, q)
  BY <1>1, <1>2, <1>7 DEF BlocksRight
<1>9. LocatorHead(r, t) = <<Chain[q][f + 1]>>
  BY <1>1, <1>2, <1>3 DEF LocatorHead
<1>10. StartAfterLocator(BuildLocator(r, t), q) = f + 1
  BY <1>9, <1>3, AskedFrom
<1> QED
  BY <1>1, <1>2, <1>3, <1>6, <1>8, <1>10 DEF GoesOn, GoesOnFrom

(* The blocks of a batch from the right place are those expected.          *)
LEMMA BlocksExpected ==
  ASSUME NEW s \in States, NEW t \in Block, NEW q \in Block, NEW bs, NEW a,
         s.phase = "blocks", BlocksRight(s, t, q), GoesOnFrom(s, q, a), PieceAt(bs, q, a)
  PROVE  ToSet(bs) \subseteq s.expected
<1>1. s.forkParent \in Nat /\ a \in Nat /\ a >= s.forkParent + 1
  BY ChainType DEF BlocksRight, MeetAt, GoesOnFrom
<1>2. /\ bs \in Seq(Block) /\ a + Len(bs) \in DOMAIN Chain[q]
      /\ \A i \in 1..Len(bs) : bs[i] = Chain[q][a + i]
  BY DEF PieceAt
<1>3. DOMAIN Chain[q] = 1..Len(Chain[q]) /\ Len(Chain[q]) \in Nat /\ Len(bs) \in Nat
  BY <1>2, ChainType
<1>4. ASSUME NEW i \in DOMAIN bs PROVE bs[i] \in s.expected
  <2>1. i \in 1..Len(bs) /\ a + i \in s.forkParent + 2..Len(Chain[q])
    BY <1>1, <1>2, <1>3
  <2> QED BY <2>1, <1>2 DEF BlocksRight
<1> QED
  BY <1>4 DEF ToSet

(* Blocks that continue the chain: the exchange goes on from the new tip.  *)
LEMMA BlocksAppended ==
  ASSUME NEW s \in States, NEW t \in Block, NEW q \in Block, NEW bs, NEW a, bs # << >>,
         s.phase = "blocks", BlocksRight(s, t, q), GoesOnFrom(s, q, a), PieceAt(bs, q, a),
         s.buffer = << >>, Parent(bs[1]) = t,
         NEW r, r = BlocksAsked([s EXCEPT !.progressed = TRUE])
  PROVE  ~ LocatorThrows(r, Last(bs)) /\ r.phase = "blocks" /\ GoesOn(r, Last(bs), q)
<1> DEFINE f == s.forkParent
           b == Last(bs)
<1>1. /\ r.phase = "blocks" /\ r.expected = s.expected /\ r.buffer = << >> /\ r.forkParent = f
  BY DEF States, BlocksAsked
<1>2. /\ f \in Nat /\ f + 1 \in DOMAIN Chain[t] /\ f + 1 \in DOMAIN Chain[q]
      /\ Chain[t][f + 1] = Chain[q][f + 1]
      /\ \A i \in f + 2..Len(Chain[q]) : Chain[q][i] \in s.expected
  BY DEF BlocksRight, MeetAt
<1>3. a = f + 1 /\ a \in Nat
  BY <1>2 DEF GoesOnFrom
<1>4. /\ b = Chain[q][a + Len(bs)] /\ b \in Block /\ Len(bs) \in Nat /\ Len(bs) >= 1
      /\ a + Len(bs) \in DOMAIN Chain[q]
  BY PieceFacts DEF PieceAt
<1>5. /\ Len(Chain[b]) = a + Len(bs) /\ DOMAIN Chain[b] = 1..Len(Chain[b])
      /\ Height(b) + 1 = Len(Chain[b]) /\ Height(b) \in Nat
  BY <1>4, OnChain, ChainType
<1>6. f + 1 \in 1..a + Len(bs)
  BY <1>2, <1>3, <1>4
<1>7. Chain[b][f + 1] = Chain[q][f + 1]
  <2>1. \A j \in 1..a + Len(bs) : Chain[Chain[q][a + Len(bs)]][j] = Chain[q][j]
    BY <1>4, PrefixIsChain DEF PrefixesAre
  <2> QED BY <2>1, <1>4, <1>6
<1>8. MeetAt(f, b, q)
  BY <1>2, <1>5, <1>6, <1>7 DEF MeetAt
<1>9. BlocksRight(r, b, q)
  BY <1>1, <1>2, <1>8 DEF BlocksRight
<1>10. ~ LocatorThrows(r, b)
  BY <1>1, <1>2, <1>3, <1>4, <1>5 DEF LocatorThrows
<1>11. LocatorHead(r, b) = <<Chain[q][f + 1]>>
  <2>1. r.forkParent # -1 /\ r.forkParent + 1 = f + 1
    BY <1>1, <1>2
  <2> HIDE DEF b, f
  <2> QED BY <1>1, <1>7, <2>1 DEF LocatorHead
<1>12. StartAfterLocator(BuildLocator(r, b), q) = f + 1
  BY <1>2, <1>4, <1>11, AskedFrom
<1> QED
  BY <1>1, <1>2, <1>9, <1>10, <1>12 DEF GoesOn, GoesOnFrom

(* Blocks of another branch: they join the buffer, and the exchange goes   *)
(* on after them.                                                          *)
LEMMA BlocksBuffered ==
  ASSUME NEW s \in States, NEW t \in Block, NEW q \in Block, NEW bs, NEW a, bs # << >>,
         s.phase = "blocks", BlocksRight(s, t, q), GoesOnFrom(s, q, a), PieceAt(bs, q, a),
         NEW r, r = BlocksAsked(WithBlocks(s, bs))
  PROVE  /\ ~ BreaksOff(s.buffer, Parent(bs[1]))
         /\ ~ LocatorThrows(r, t) /\ r.phase = "blocks" /\ GoesOn(r, t, q)
<1> DEFINE f == s.forkParent
<1>1. /\ r.phase = "blocks" /\ r.expected = s.expected /\ r.buffer = s.buffer \o bs
      /\ r.forkParent = f
  BY DEF States, BlocksAsked, WithBlocks
<1>2. /\ MeetAt(f, t, q) /\ f \in Nat
      /\ \A i \in f + 2..Len(Chain[q]) : Chain[q][i] \in s.expected
  BY DEF BlocksRight, MeetAt
<1>3. /\ Parent(bs[1]) = Chain[q][a] /\ a \in DOMAIN Chain[q] /\ a \in Nat
      /\ Len(bs) \in Nat /\ Len(bs) >= 1 /\ bs \in Seq(Block)
      /\ Last(bs) = Chain[q][a + Len(bs)] /\ a + Len(bs) \in DOMAIN Chain[q]
      /\ Height(Chain[q][a]) = a - 1 /\ a <= Len(Chain[q])
  BY PieceFacts, OnChain DEF PieceAt
<1>4. \E b \in f + 1..Len(Chain[q]) :
        PieceAt(r.buffer, q, b) /\ b + Len(r.buffer) = a + Len(bs)
        /\ ~ BreaksOff(s.buffer, Parent(bs[1]))
  <2>1. CASE s.buffer = << >>
    <3>1. a = f + 1 /\ r.buffer = bs
      BY <1>1, <1>3, <2>1 DEF GoesOnFrom
    <3>2. a \in f + 1..Len(Chain[q])
      BY <3>1, <1>2, <1>3, ChainType
    <3> QED BY <3>1, <3>2, <2>1 DEF BreaksOff
  <2>2. CASE s.buffer # << >>
    <3>1. PICK b \in f + 1..Len(Chain[q]) : PieceAt(s.buffer, q, b)
      BY <2>2 DEF BlocksRight
    <3>2. /\ Last(s.buffer) = Chain[q][b + Len(s.buffer)] /\ b + Len(s.buffer) \in DOMAIN Chain[q]
          /\ b \in Nat /\ Len(s.buffer) \in Nat /\ Height(Last(s.buffer)) = b + Len(s.buffer) - 1
      <4>1. b + Len(s.buffer) \in DOMAIN Chain[q]
        BY <3>1 DEF PieceAt
      <4> DEFINE x == s.buffer
      <4>2. PieceAt(x, q, b) /\ x # << >>
        BY <3>1, <2>2
      <4>3. /\ Last(x) = Chain[q][b + Len(x)] /\ b \in Nat /\ Len(x) \in Nat
            /\ Height(Last(x)) = b + Len(x) - 1
        <5> HIDE DEF x
        <5> QED BY <4>2, PieceFacts
      <4> QED BY <4>1, <4>3
    <3>3. Last(s.buffer) = Chain[q][a]
      BY <2>2 DEF GoesOnFrom
    <3>4. a = b + Len(s.buffer)
      BY <3>2, <3>3, <1>3
    <3>5. PieceAt(r.buffer, q, b) /\ Len(r.buffer) = Len(s.buffer) + Len(bs)
      <4>1. PieceAt(bs, q, b + Len(s.buffer))
        BY <3>4
      <4> DEFINE x == s.buffer
      <4>2. PieceAt(x, q, b) /\ PieceAt(bs, q, b + Len(x)) /\ r.buffer = x \o bs
        BY <1>1, <3>1, <4>1
      <4>3. PieceAt(x \o bs, q, b) /\ Len(x \o bs) = Len(x) + Len(bs)
        <5> HIDE DEF x
        <5> QED BY <4>2, PiecesMeet
      <4> QED BY <4>2, <4>3
    <3>6. b + Len(r.buffer) = a + Len(bs)
      BY <3>2, <3>4, <3>5, <1>3
    <3> QED BY <3>1, <3>3, <3>5, <3>6, <1>3 DEF BreaksOff
  <2> QED BY <2>1, <2>2
<1>5. r.buffer # << >>
  <2>1. s.buffer \in Seq(Block)
    BY DEF States
  <2>2. Len(r.buffer) = Len(s.buffer) + Len(bs) /\ Len(s.buffer) \in Nat
    <3>1. bs \in Seq(Block) /\ r.buffer = s.buffer \o bs
      BY <1>1, <1>3
    <3>2. Len(s.buffer \o bs) = Len(s.buffer) + Len(bs) /\ Len(s.buffer) \in Nat
      BY <2>1, <3>1
    <3> QED BY <3>1, <3>2
  <2>3. Len(r.buffer) # 0
    BY <2>2, <1>3
  <2> QED BY <2>3
<1>6. PICK b \in f + 1..Len(Chain[q]) : PieceAt(r.buffer, q, b) /\ b + Len(r.buffer) = a + Len(bs)
  BY <1>4
<1>7. Last(r.buffer) = Chain[q][a + Len(bs)]
  BY <1>5, <1>6, PieceFacts
<1>8. BlocksRight(r, t, q)
  BY <1>1, <1>2, <1>6 DEF BlocksRight
<1>9. ~ LocatorThrows(r, t)
  BY <1>5 DEF LocatorThrows
<1>10. LocatorHead(r, t) = <<Chain[q][a + Len(bs)]>>
  BY <1>5, <1>7 DEF LocatorHead
<1>11. StartAfterLocator(BuildLocator(r, t), q) = a + Len(bs)
  BY <1>3, <1>10, AskedFrom
<1>12. a > f
  BY <1>2, <1>3 DEF GoesOnFrom
<1>13. a + Len(bs) > f
  BY <1>2, <1>3, <1>12
<1> QED
  BY <1>1, <1>3, <1>4, <1>5, <1>7, <1>8, <1>9, <1>11, <1>13 DEF GoesOn, GoesOnFrom

-----------------------------------------------------------------------------
(* States of an exchange, and what becomes of them. *)

(* The last of joined blocks is heavier than what they follow.             *)
LEMMA WorkGrows ==
  ASSUME NEW bs, Joined(bs), bs # << >>
  PROVE  /\ Parent(bs[1]) \in Block /\ Last(bs) \in Block
         /\ Work[Last(bs)] > Work[Parent(bs[1])]
<1>1. /\ bs \in Seq(Block) /\ Len(bs) \in Nat /\ Len(bs) >= 1 /\ \A i \in 1..Len(bs) : bs[i] \in Block
      /\ \A i \in 1..Len(bs) : bs[i] # Genesis
      /\ \A i \in 2..Len(bs) : Parent(bs[i]) = bs[i - 1]
  BY DEF Joined
<1> DEFINE p == Parent(bs[1])
<1>2. ASSUME NEW i \in 1..Len(bs)
      PROVE  Parent(bs[i]) \in Block /\ Work[bs[i]] > Work[Parent(bs[i])]
  BY <1>1, ChainType
<1>3. \A b \in Block : Work[b] \in Nat
  BY SyncConstants
<1>4. 1 \in 1..Len(bs) /\ p \in Block
  BY <1>1, <1>2
<1> DEFINE Bad == {i \in 1..Len(bs) : ~ (Work[bs[i]] > Work[p])}
<1>5. Bad = {}
  <2> SUFFICES ASSUME Bad # {} PROVE FALSE
    OBVIOUS
  <2>1. Bad \in SUBSET Nat
    BY <1>1
  <2>2. PICK i \in Bad : \A j \in Bad : i <= j
    <3> HIDE DEF Bad
    <3> QED BY <2>1, LeastNumber
  <2>3. i \in 1..Len(bs) /\ ~ (Work[bs[i]] > Work[p])
    OBVIOUS
  <2>4. i # 1
    BY <2>3, <1>2
  <2>5. i - 1 \in 1..Len(bs) /\ i \in 2..Len(bs) /\ ~ (i <= i - 1)
    BY <2>3, <2>4, <1>1
  <2>6. i - 1 \notin Bad
    <3> HIDE DEF Bad
    <3> QED BY <2>2, <2>5
  <2>7. Work[bs[i - 1]] > Work[p] /\ Parent(bs[i]) = bs[i - 1]
    BY <2>5, <2>6, <1>1
  <2>8. Work[bs[i]] > Work[bs[i - 1]] /\ bs[i] \in Block /\ bs[i - 1] \in Block
    BY <2>3, <2>5, <2>7, <1>1, <1>2
  <2>9. Work[bs[i]] \in Nat /\ Work[bs[i - 1]] \in Nat /\ Work[p] \in Nat
    BY <2>8, <1>3, <1>4
  <2> HIDE DEF p, Bad
  <2> QED BY <2>3, <2>7, <2>8, <2>9
<1>6. Len(bs) \in 1..Len(bs)
  BY <1>1
<1>7. Work[bs[Len(bs)]] > Work[p]
  BY <1>5, <1>6
<1> QED
  BY <1>1, <1>4, <1>6, <1>7 DEF Last

(* Joined blocks that follow each other are joined.                        *)
LEMMA JoinedMeet ==
  ASSUME NEW x, NEW y, Joined(x), Joined(y), y # << >>, x # << >> => Parent(y[1]) = Last(x)
  PROVE  Joined(x \o y)
<1>1. /\ x \in Seq(Block) /\ y \in Seq(Block) /\ Len(x) \in Nat /\ Len(y) \in Nat /\ Len(y) >= 1
      /\ \A i \in 1..Len(x) : x[i] # Genesis
      /\ \A i \in 1..Len(y) : y[i] # Genesis
      /\ \A i \in 2..Len(x) : Parent(x[i]) = x[i - 1]
      /\ \A i \in 2..Len(y) : Parent(y[i]) = y[i - 1]
  BY DEF Joined
<1> DEFINE z == x \o y
<1>2. /\ z \in Seq(Block) /\ Len(z) = Len(x) + Len(y)
      /\ \A i \in 1..Len(z) : z[i] = IF i <= Len(x) THEN x[i] ELSE y[i - Len(x)]
  BY <1>1
<1> HIDE DEF z
<1>3. ASSUME NEW i \in 1..Len(z) PROVE z[i] # Genesis
  <2>1. i <= Len(x) => i \in 1..Len(x)
    BY <1>1, <1>2
  <2>2. ~ (i <= Len(x)) => i - Len(x) \in 1..Len(y)
    BY <1>1, <1>2
  <2> QED BY <2>1, <2>2, <1>1, <1>2
<1>4. ASSUME NEW i \in 2..Len(z) PROVE Parent(z[i]) = z[i - 1]
  <2>0. i \in 1..Len(z) /\ i - 1 \in 1..Len(z)
    BY <1>1, <1>2
  <2>1. CASE i <= Len(x)
    <3>1. i \in 2..Len(x) /\ i - 1 <= Len(x)
      BY <2>1, <1>1
    <3>2. z[i] = x[i] /\ z[i - 1] = x[i - 1]
      BY <3>1, <2>0, <2>1, <1>2
    <3> QED BY <3>1, <3>2, <1>1
  <2>2. CASE i = Len(x) + 1
    <3>1. ~ (i <= Len(x)) /\ i - 1 <= Len(x) /\ i - Len(x) = 1 /\ i - 1 = Len(x) /\ Len(x) # 0
      BY <2>0, <2>2, <1>1
    <3>2. z[i] = y[1] /\ z[i - 1] = x[Len(x)]
      BY <3>1, <2>0, <1>2
    <3>3. x # << >>
      BY <3>1
    <3> QED BY <3>2, <3>3 DEF Last
  <2>3. CASE i > Len(x) + 1
    <3>1. ~ (i <= Len(x)) /\ ~ (i - 1 <= Len(x)) /\ i - Len(x) \in 2..Len(y)
          /\ (i - 1) - Len(x) = (i - Len(x)) - 1
      BY <2>0, <2>3, <1>1, <1>2
    <3>2. z[i] = y[i - Len(x)] /\ z[i - 1] = y[(i - Len(x)) - 1]
      BY <3>1, <2>0, <1>2
    <3> DEFINE k == i - Len(x)
    <3>3. k \in 2..Len(y) /\ z[i] = y[k] /\ z[i - 1] = y[k - 1]
      BY <3>1, <3>2
    <3> HIDE DEF k
    <3> QED BY <3>3, <1>1
  <2> QED BY <2>0, <2>1, <2>2, <2>3, <1>1
<1> QED
  BY <1>2, <1>3, <1>4 DEF Joined, z

(* A chain has its own tip.                                                *)
LEMMA HasTip ==
  ASSUME NEW t \in Block PROVE Has(t, t)
<1>1. Len(Chain[t]) \in 1..Len(Chain[t]) /\ Chain[t][Len(Chain[t])] = t
  BY ChainType
<1> QED
  BY <1>1 DEF Has, Contains

(* An answer that comes to an undisturbed exchange is the right one.       *)
LEMMA CalmAnswer ==
  ASSUME NEW s, NEW t, NEW q, NEW out, NEW in \in Seq(Messages), Undisturbed(s, t, q, out, in),
         in # << >>, Head(in).type \in Responses
  PROVE  /\ s.phase # "null" /\ GoodResponse(s, q, Head(in))
         /\ Without(out, Requests) /\ Without(Tail(in), Responses)
         /\ s.phase = "headers" => HeadersRight(s, t, q)
         /\ s.phase = "blocks" => BlocksRight(s, t, q)
<1>1. ~ Without(in, Responses)
  <2>1. 1 \in DOMAIN in /\ Head(in) = in[1]
    OBVIOUS
  <2> QED BY <2>1 DEF Without
<1>2. PICK k \in DOMAIN in : OnlyAt(in, Responses, k) /\ GoodResponse(s, q, in[k]) /\ Without(out, Requests)
  BY <1>1 DEF Undisturbed
<1>3. in[k] = Head(in) /\ Without(Tail(in), Responses)
  BY <1>2, ReadOnly
<1>4. s.phase # "null"
  BY <1>1 DEF Undisturbed
<1> QED
  BY <1>2, <1>3, <1>4 DEF Undisturbed

(* A request that comes to the peer is the right one.                      *)
LEMMA CalmRequest ==
  ASSUME NEW s, NEW t, NEW q, NEW out \in Seq(Messages), NEW in, Undisturbed(s, t, q, out, in),
         out # << >>, Head(out).type \in Requests
  PROVE  /\ s.phase # "null" /\ GoodRequest(s, q, Head(out))
         /\ Without(in, Responses) /\ Without(Tail(out), Requests)
<1>1. ~ Without(out, Requests)
  <2>1. 1 \in DOMAIN out /\ Head(out) = out[1]
    OBVIOUS
  <2> QED BY <2>1 DEF Without
<1>2. PICK k \in DOMAIN out : OnlyAt(out, Requests, k) /\ GoodRequest(s, q, out[k]) /\ Without(in, Responses)
  BY <1>1 DEF Undisturbed
<1>3. out[k] = Head(out) /\ Without(Tail(out), Requests)
  BY <1>2, ReadOnly
<1>4. s.phase # "null"
  BY <1>1 DEF Undisturbed
<1> QED
  BY <1>2, <1>3, <1>4 DEF Undisturbed

(* News on a link, and a longer chain of our own, disturb no exchange.     *)
LEMMA StaysUndisturbed ==
  ASSUME NEW s, NEW t \in Block, NEW q, NEW out, NEW in, Undisturbed(s, t, q, out, in),
         NEW t2 \in Block, NEW q2, NEW out2, NEW in2,
         Keeps(out, out2, Requests), Keeps(in, in2, Responses),
         s.phase = "null" \/ (q2 = q /\ Has(t2, t))
  PROVE  Undisturbed(s, t2, q2, out2, in2)
<1>1. CASE s.phase = "null"
  BY <1>1 DEF Undisturbed, Keeps
<1>2. CASE s.phase # "null"
  <2>1. q2 = q /\ Has(t2, t)
    BY <1>2
  <2>2. ASSUME NEW f, MeetAt(f, t, q) PROVE MeetAt(f, t2, q)
    BY <2>1, <2>2, ExtensionKeeps DEF MeetAt
  <2>3. /\ s.phase = "headers" => HeadersRight(s, t2, q)
        /\ s.phase = "blocks" => BlocksRight(s, t2, q)
    BY <1>2, <2>2 DEF Undisturbed, HeadersRight, BlocksRight
  <2>4. \/ \E k \in DOMAIN out2 : OnlyAt(out2, Requests, k) /\ GoodRequest(s, q, out2[k])
                                   /\ Without(in2, Responses)
        \/ \E k \in DOMAIN in2 : OnlyAt(in2, Responses, k) /\ GoodResponse(s, q, in2[k])
                                   /\ Without(out2, Requests)
    <3>1. CASE \E k \in DOMAIN out : OnlyAt(out, Requests, k) /\ GoodRequest(s, q, out[k])
                                     /\ Without(in, Responses)
      <4>1. PICK k \in DOMAIN out : OnlyAt(out, Requests, k) /\ GoodRequest(s, q, out[k])
        BY <3>1
      <4>2. PICK j \in DOMAIN out2 : OnlyAt(out2, Requests, j) /\ out2[j] = out[k]
        BY <4>1 DEF Keeps
      <4> QED BY <3>1, <4>1, <4>2 DEF Keeps
    <3>2. CASE \E k \in DOMAIN in : OnlyAt(in, Responses, k) /\ GoodResponse(s, q, in[k])
                                     /\ Without(out, Requests)
      <4>1. PICK k \in DOMAIN in : OnlyAt(in, Responses, k) /\ GoodResponse(s, q, in[k])
        BY <3>2
      <4>2. PICK j \in DOMAIN in2 : OnlyAt(in2, Responses, j) /\ in2[j] = in[k]
        BY <4>1 DEF Keeps
      <4> QED BY <3>2, <4>1, <4>2 DEF Keeps
    <3> QED BY <1>2, <3>1, <3>2 DEF Undisturbed
  <2> QED
    BY <1>2, <2>1, <2>3, <2>4 DEF Undisturbed
<1> QED
  BY <1>1, <1>2

-----------------------------------------------------------------------------
(* The invariants. *)

UndisturbedRight ==
  \A l \in Pairs : l \notin disturbed =>
    score[l] = 0 /\ Undisturbed(sync[l], tip[l[1]], tip[l[2]], net[l], net[Other(l)])

\* The request of the phase, or an answer to it, is on the way.
Pending(s, out, in) ==
  s.phase # "null" =>
    s.inFlight /\ (s.astray \/ Holds(out, Request(s.phase)) \/ Holds(in, Response(s.phase)))

Waits == \A l \in Pairs : Pending(sync[l], net[l], net[Other(l)])

SyncInv == SyncTypes /\ UndisturbedRight /\ Waits

-----------------------------------------------------------------------------
(* What a message does. *)

\* The queues once l[1] has read a message on l and sent m to some peers.
Delivered(l, to, m) ==
  [k \in Pairs |-> IF k = Other(l) THEN Tail(net[k])
                   ELSE IF k \in to THEN Append(net[k], m) ELSE net[k]]

\* The links a node's news goes out on.
PeersOf(n) == {k \in links : k[1] = n}

\* The tip stays, or it moves to a heavier one.
Gains(l, t) ==
  t \in Block /\ MoveTip(l[1], t) /\ (t = tip[l[1]] \/ Work[t] > Work[tip[l[1]]])

\* A message on l is read: the exchange is in state s, the tip is t, and m
\* has been sent to some peers.
Took(l, s, t, to, m) ==
  /\ Gains(l, t) /\ StateRight(s)
  /\ to \subseteq links \ {Other(l)} /\ m \in Messages
  /\ sync' = [sync EXCEPT ![l] = s] /\ net' = Delivered(l, to, m)
  /\ UNCHANGED <<links, banned>>
  /\ score' \in [Pairs -> Nat]
  /\ \A k \in Pairs : (k # l \/ l \notin disturbed) => score'[k] = score[k]

News(m) == m.type \notin Requests \cup Responses

\* What the exchange makes of it: nothing, a reply, an end, a request that
\* throws, or the next request.
Passes(l, s, m) ==
  /\ s = sync[l] /\ News(m) /\ Message(l).type \notin Requests
  /\ Message(l).type \in Responses => l \in disturbed /\ Message(l).type # Response(s.phase)
Replies(l, s, to, m) ==
  /\ s = sync[l] /\ to = {l} /\ Message(l).type \in Requests
  /\ m.type = IF Message(l).type = "GET_HEADERS" THEN "HEADERS_RESPONSE" ELSE "BLOCKS_RESPONSE"
  /\ AnswersFrom(m, tip[l[1]], StartAfterLocator(Message(l).locator, tip[l[1]]))
Ends(l, s, m) == s = FreshSync /\ News(m) /\ Message(l).type \in Responses
Throws(l, s, m) ==
  /\ s.phase = "blocks" /\ s.inFlight /\ s.astray /\ News(m)
  /\ l \in disturbed /\ Message(l).type \in Responses
Asks(l, s, t, to, m) ==
  /\ to = {l} /\ m.type = Request(s.phase) /\ m.locator = BuildLocator(s, t)
  /\ s.phase # "null" /\ s.inFlight /\ ~ s.late /\ ~ s.astray
  /\ Message(l).type \notin Requests
  /\ l \notin disturbed =>
       GoesOn(s, t, tip[l[2]]) /\ (sync[l].phase = "null" \/ Message(l).type \in Responses)

\* The peer is banned and cut off.
Cuts(l, t) ==
  /\ Gains(l, t) /\ l \in disturbed
  /\ banned' = banned \cup {l} /\ Close(l)
  /\ sync' = [sync EXCEPT ![l] = FreshSync, ![Other(l)] = FreshSync]
  /\ score' \in [Pairs -> Nat] /\ \A k \in Pairs \ {l} : score'[k] \in {0, score[k]}

Does(l, s, t, to, m) ==
  \/ Passes(l, s, m) \/ Replies(l, s, to, m) \/ Ends(l, s, m)
  \/ Throws(l, s, m) \/ Asks(l, s, t, to, m)

Outcome(l) ==
  \/ \E t : Cuts(l, t)
  \/ \E s, t, to, m : Took(l, s, t, to, m) /\ Does(l, s, t, to, m)

Ready(l) == SyncInv /\ l \in Pairs /\ net[Other(l)] # << >>

(* What is known of the reader of a message.                               *)
LEMMA ReadyFacts ==
  ASSUME NEW l, Ready(l)
  PROVE  /\ SyncTypes /\ l \in Pairs /\ Other(l) \in Pairs /\ l \in links /\ Other(l) # l
         /\ Message(l) \in Messages /\ net[Other(l)] \in Seq(Messages) /\ net[l] \in Seq(Messages)
         /\ sync[l] \in States /\ StateRight(sync[l])
         /\ tip[l[1]] \in Block /\ tip[l[2]] \in Block
         /\ Pending(sync[l], net[l], net[Other(l)])
         /\ l \notin disturbed => Undisturbed(sync[l], tip[l[1]], tip[l[2]], net[l], net[Other(l)])
<1>1. SyncTypes /\ UndisturbedRight /\ Waits /\ l \in Pairs /\ net[Other(l)] # << >>
  BY DEF Ready, SyncInv
<1>2. Other(l) \in Pairs /\ l[1] \in Node /\ l[2] \in Node /\ Other(l) # l
  BY <1>1, TwoEnds
<1>3. net[Other(l)] \in Seq(Messages) /\ net[l] \in Seq(Messages)
  BY <1>1, <1>2 DEF SyncTypes
<1>4. Message(l) \in Messages
  BY <1>1, <1>3 DEF Message
<1>5. l \in links
  BY <1>1, <1>2 DEF SyncTypes
<1>6. /\ sync[l] \in States /\ StateRight(sync[l]) /\ tip[l[1]] \in Block /\ tip[l[2]] \in Block
  BY <1>1, <1>2 DEF SyncTypes
<1>7. Pending(sync[l], net[l], net[Other(l)])
  BY <1>1 DEF Waits
<1>8. l \notin disturbed => Undisturbed(sync[l], tip[l[1]], tip[l[2]], net[l], net[Other(l)])
  BY <1>1 DEF UndisturbedRight
<1> QED
  BY <1>1, <1>2, <1>3, <1>4, <1>5, <1>6, <1>7, <1>8

(* The ways to read and send, as deliveries.                               *)
LEMMA Deliveries ==
  ASSUME NEW l, Ready(l), NEW m, NEW t
  PROVE  /\ Sent(Read(l), l, << >>) = Delivered(l, {}, m)
         /\ Sent(Read(l), l, <<m>>) = Delivered(l, {l}, m)
         /\ Read(l) = Delivered(l, {}, m)
         /\ Broadcast(Read(l), l[1], t) = Delivered(l, PeersOf(l[1]), Latest(t))
         /\ Other(l) \notin PeersOf(l[1])
         /\ PeersOf(l[1]) \subseteq links \ {Other(l)}
         /\ {l} \subseteq links \ {Other(l)}
<1>1. /\ l \in Pairs /\ Other(l) \in Pairs /\ Other(l) # l /\ net[l] \in Seq(Messages) /\ l \in links
      /\ SyncTypes
  BY ReadyFacts
<1>2. DOMAIN net = Pairs /\ net = [k \in Pairs |-> net[k]] /\ links \subseteq Pairs
  BY <1>1 DEF SyncTypes
<1>3. net[l] \o << >> = net[l] /\ net[l] \o <<m>> = Append(net[l], m)
  BY <1>1
<1>4. Read(l) = [k \in Pairs |-> IF k = Other(l) THEN Tail(net[k]) ELSE net[k]]
  BY <1>1, <1>2 DEF Read
<1>5. Read(l) = Delivered(l, {}, m)
  BY <1>4 DEF Delivered
<1>6. ASSUME NEW x, NEW messages, net[l] \o messages = x
      PROVE  Sent(Read(l), l, messages)
               = [k \in Pairs |-> IF k = Other(l) THEN Tail(net[k]) ELSE IF k = l THEN x ELSE net[k]]
  <2> DEFINE q == Read(l)
  <2>1. q = [k \in Pairs |-> IF k = Other(l) THEN Tail(net[k]) ELSE net[k]]
    BY <1>4
  <2>2. DOMAIN q = Pairs /\ q[l] = net[l] /\ \A k \in Pairs \ {Other(l)} : q[k] = net[k]
    BY <2>1, <1>1
  <2>3. q[Other(l)] = Tail(net[Other(l)])
    BY <2>1, <1>1
  <2> HIDE DEF q
  <2>4. [q EXCEPT ![l] = @ \o messages]
          = [k \in Pairs |-> IF k = Other(l) THEN Tail(net[k]) ELSE IF k = l THEN x ELSE net[k]]
    BY <2>2, <2>3, <1>6, <1>1
  <2> QED
    BY <2>4 DEF Sent, q
<1>7. Sent(Read(l), l, << >>) = Delivered(l, {}, m)
  <2>1. Sent(Read(l), l, << >>)
          = [k \in Pairs |-> IF k = Other(l) THEN Tail(net[k]) ELSE IF k = l THEN net[l] ELSE net[k]]
    BY <1>3, <1>6
  <2> QED BY <2>1 DEF Delivered
<1>8. Sent(Read(l), l, <<m>>) = Delivered(l, {l}, m)
  <2>1. Sent(Read(l), l, <<m>>)
          = [k \in Pairs |-> IF k = Other(l) THEN Tail(net[k]) ELSE IF k = l THEN Append(net[l], m) ELSE net[k]]
    BY <1>3, <1>6
  <2> QED BY <2>1 DEF Delivered
<1>9. Other(l)[1] # l[1]
  BY <1>1, TwoEnds
<1>10. Broadcast(Read(l), l[1], t) = Delivered(l, PeersOf(l[1]), Latest(t))
  BY <1>2, <1>4, <1>9 DEF Broadcast, Delivered, PeersOf
<1>11. Other(l) \notin PeersOf(l[1]) /\ PeersOf(l[1]) \subseteq links
  BY <1>9 DEF PeersOf
<1> QED
  BY <1>1, <1>5, <1>7, <1>8, <1>10, <1>11

(* The state and score after a step that blames nobody.                    *)
LEMMA TookCalmly ==
  ASSUME NEW l, Ready(l), NEW s, StateRight(s), NEW t, Gains(l, t), NEW m \in Messages, NEW to,
         to \subseteq links \ {Other(l)}, sync' = [sync EXCEPT ![l] = s],
         net' = Delivered(l, to, m), Linked
  PROVE  Took(l, s, t, to, m)
<1>1. score \in [Pairs -> Nat]
  BY ReadyFacts DEF SyncTypes
<1> QED
  BY <1>1 DEF Took, Linked

\* A message is read and nothing is sent for it.
Quietly(l, s) == Answer(l, s, << >>) \/ \E b : Ignore(l, s, b)

(* Reading a message without further ado, or ending the exchange.          *)
LEMMA NothingSent ==
  ASSUME NEW l, Ready(l), NEW s, StateRight(s), NEW t, Gains(l, t), Quietly(l, s),
         Passes(l, s, GetLatest) \/ Ends(l, s, GetLatest)
  PROVE  Outcome(l)
<1>1. GetLatest \in Messages
  BY DEF GetLatest, Messages
<1>2. sync' = [sync EXCEPT ![l] = s] /\ net' = Delivered(l, {}, GetLatest) /\ Linked
  BY Deliveries DEF Quietly, Answer, Ignore
<1>3. Took(l, s, t, {}, GetLatest)
  BY <1>1, <1>2, TookCalmly
<1> QED
  BY <1>3 DEF Outcome, Does

(* One message is sent back.                                               *)
LEMMA OneSent ==
  ASSUME NEW l, Ready(l), NEW s, StateRight(s), NEW t, Gains(l, t), NEW m \in Messages,
         Answer(l, s, <<m>>),
         Passes(l, s, m) \/ Replies(l, s, {l}, m) \/ Asks(l, s, t, {l}, m)
  PROVE  Outcome(l)
<1>2. /\ sync' = [sync EXCEPT ![l] = s] /\ net' = Delivered(l, {l}, m) /\ Linked
      /\ {l} \subseteq links \ {Other(l)}
  BY Deliveries DEF Answer
<1>3. Took(l, s, t, {l}, m)
  BY <1>2, TookCalmly
<1> QED
  BY <1>3 DEF Outcome, Does

(* A peer is blamed only in an exchange something has come between.        *)
LEMMA Blamed ==
  ASSUME NEW l, Ready(l), NEW s, StateRight(s), NEW t, Gains(l, t), NEW points \in Nat,
         l \in disturbed, Misbehaving(l, points, [sync EXCEPT ![l] = s]), Message(l).type \in Responses,
         s = FreshSync \/ (s.phase = "blocks" /\ s.inFlight /\ s.astray)
  PROVE  Outcome(l)
<1>1. GetLatest \in Messages /\ News(GetLatest)
  BY DEF GetLatest, Messages, News, Requests, Responses
<1>2. score \in [Pairs -> Nat] /\ l \in Pairs /\ Other(l) \in Pairs /\ Other(l) # l
  BY ReadyFacts DEF SyncTypes
<1>3. CASE score[l] + points < BAN_THRESHOLD
  <2>1. /\ score' = [score EXCEPT ![l] = @ + points] /\ sync' = [sync EXCEPT ![l] = s]
        /\ net' = Read(l) /\ UNCHANGED <<links, banned>>
    BY <1>3 DEF Misbehaving
  <2>2. net' = Delivered(l, {}, GetLatest)
    BY <2>1, Deliveries
  <2>3. score' \in [Pairs -> Nat] /\ \A k \in Pairs : k # l => score'[k] = score[k]
    BY <2>1, <1>2
  <2>4. Took(l, s, t, {}, GetLatest)
    BY <2>1, <2>2, <2>3, <1>1 DEF Took
  <2>5. Ends(l, s, GetLatest) \/ Throws(l, s, GetLatest)
    BY <1>1 DEF Ends, Throws
  <2> QED
    BY <2>4, <2>5 DEF Outcome, Does
<1>4. CASE ~ (score[l] + points < BAN_THRESHOLD)
  <2>1. /\ banned' = banned \cup {l} /\ Close(l)
        /\ score' = [score EXCEPT ![l] = @ + points, ![Other(l)] = 0]
        /\ sync' = [sync EXCEPT ![l] = FreshSync, ![Other(l)] = FreshSync]
    BY <1>4 DEF Misbehaving
  <2>2. score' \in [Pairs -> Nat] /\ \A k \in Pairs \ {l} : score'[k] \in {0, score[k]}
    BY <2>1, <1>2
  <2>3. Cuts(l, t)
    BY <2>1, <2>2 DEF Cuts
  <2> QED
    BY <2>3 DEF Outcome
<1> QED
  BY <1>3, <1>4

-----------------------------------------------------------------------------
(* The handlers. *)

(* A tip that stays is a tip that does not get lighter.                    *)
LEMMA StaysPut ==
  ASSUME NEW l, Ready(l), StayPut
  PROVE  Gains(l, tip[l[1]])
<1>1. tip \in [Node -> Block] /\ tip[l[1]] \in Block
  BY ReadyFacts DEF SyncTypes
<1> DEFINE t == tip[l[1]]
<1>2. tip' = [tip EXCEPT ![l[1]] = t]
  BY <1>1 DEF StayPut
<1>3. {k \in Pairs : /\ t # tip[l[1]] /\ sync[k].phase # "null"
                     /\ k[2] = l[1] \/ (k[1] = l[1] /\ ~ Has(t, tip[l[1]]))} = {}
  OBVIOUS
<1>4. MoveTip(l[1], t)
  BY <1>2, <1>3 DEF MoveTip, StayPut
<1> QED
  BY <1>1, <1>4 DEF Gains

(* Setting the flags of an exchange leaves its headers and blocks alone.   *)
LEMMA FlagsOnly ==
  ASSUME NEW s, StateRight(s), NEW r,
         \/ r = [s EXCEPT !.inFlight = FALSE] \/ r = HeadersAsked(s) \/ r = BlocksAsked(s)
         \/ r = [BlocksAsked(s) EXCEPT !.astray = TRUE] \/ r = [s EXCEPT !.progressed = TRUE]
  PROVE  /\ StateRight(r) /\ s \in States /\ r \in States
         /\ r.headers = s.headers /\ r.buffer = s.buffer
         /\ r.forkParent = s.forkParent /\ r.expected = s.expected
         /\ r = [s EXCEPT !.inFlight = FALSE] => r.phase = s.phase /\ ~ r.inFlight
         /\ r = HeadersAsked(s) => r.phase = "headers" /\ r.inFlight /\ ~ r.late /\ ~ r.astray
         /\ r = BlocksAsked(s) => r.phase = "blocks" /\ r.inFlight /\ ~ r.late /\ ~ r.astray
         /\ r = [BlocksAsked(s) EXCEPT !.astray = TRUE] => r.phase = "blocks" /\ r.inFlight /\ r.astray
         /\ r = [s EXCEPT !.progressed = TRUE] => r.phase = s.phase
<1>1. s \in States /\ Joined(s.headers) /\ Joined(s.buffer)
  BY DEF StateRight
<1>2. ASSUME r = [s EXCEPT !.inFlight = FALSE]
      PROVE  /\ r \in States /\ r.headers = s.headers /\ r.buffer = s.buffer
             /\ r.forkParent = s.forkParent /\ r.expected = s.expected /\ r.phase = s.phase /\ ~ r.inFlight
  BY <1>1, <1>2 DEF States
<1>3. ASSUME r = HeadersAsked(s)
      PROVE  /\ r \in States /\ r.headers = s.headers /\ r.buffer = s.buffer
             /\ r.forkParent = s.forkParent /\ r.expected = s.expected /\ r.phase = "headers"
             /\ r.inFlight /\ ~ r.late /\ ~ r.astray
  BY <1>1, <1>3 DEF States, HeadersAsked
<1>4. ASSUME r = BlocksAsked(s)
      PROVE  /\ r \in States /\ r.headers = s.headers /\ r.buffer = s.buffer
             /\ r.forkParent = s.forkParent /\ r.expected = s.expected /\ r.phase = "blocks"
             /\ r.inFlight /\ ~ r.late /\ ~ r.astray
  BY <1>1, <1>4 DEF States, BlocksAsked
<1>5. ASSUME r = [BlocksAsked(s) EXCEPT !.astray = TRUE]
      PROVE  /\ r \in States /\ r.headers = s.headers /\ r.buffer = s.buffer
             /\ r.forkParent = s.forkParent /\ r.expected = s.expected /\ r.phase = "blocks"
             /\ r.inFlight /\ r.astray
  BY <1>1, <1>5 DEF States, BlocksAsked
<1>6. ASSUME r = [s EXCEPT !.progressed = TRUE]
      PROVE  /\ r \in States /\ r.headers = s.headers /\ r.buffer = s.buffer
             /\ r.forkParent = s.forkParent /\ r.expected = s.expected /\ r.phase = s.phase
  BY <1>1, <1>6 DEF States
<1> QED
  BY <1>1, <1>2, <1>3, <1>4, <1>5, <1>6 DEF StateRight

(* Requests are messages.                                                  *)
LEMMA RequestsAreMessages ==
  ASSUME NEW s \in States, NEW t \in Block
  PROVE  /\ GetHeaders(s, t) \in Messages /\ GetBlocks(s, t) \in Messages
         /\ GetHeaders(s, t).type = "GET_HEADERS" /\ GetBlocks(s, t).type = "GET_BLOCKS"
         /\ GetHeaders(s, t).locator = BuildLocator(s, t)
         /\ GetBlocks(s, t).locator = BuildLocator(s, t)
<1>1. IsLocator(BuildLocator(s, t))
  BY HeadShape, LocatorEnds
<1> QED
  BY <1>1, SentAreMessages DEF GetHeaders, GetBlocks

(* Blocks are asked for, or the request throws, not in a calm exchange.    *)
LEMMA BlocksRequested ==
  ASSUME NEW l, Ready(l), NEW s, StateRight(s), NEW t, Gains(l, t), RequestBlocks(l, s, t),
         Message(l).type \in Responses,
         l \notin disturbed =>
           ~ LocatorThrows(BlocksAsked(s), t) /\ GoesOn(BlocksAsked(s), t, tip[l[2]])
  PROVE  Outcome(l)
<1> DEFINE r == BlocksAsked(s)
<1>1. StateRight(r) /\ r \in States /\ r.phase = "blocks" /\ r.inFlight /\ ~ r.late /\ ~ r.astray
  BY FlagsOnly
<1>2. t \in Block
  BY DEF Gains
<1>3. CASE LocatorThrows(r, t)
  <2> DEFINE u == [r EXCEPT !.astray = TRUE]
  <2>1. StateRight(u) /\ u.phase = "blocks" /\ u.inFlight /\ u.astray
    BY FlagsOnly
  <2>2. Misbehaving(l, MALFORMED, [sync EXCEPT ![l] = u]) /\ MALFORMED \in Nat
    BY <1>3, SyncConstants DEF RequestBlocks
  <2>3. l \in disturbed
    BY <1>3
  <2> HIDE DEF u, r
  <2> QED
    BY <2>1, <2>2, <2>3, Blamed
<1>4. CASE ~ LocatorThrows(r, t)
  <2> DEFINE m == GetBlocks(r, t)
  <2>1. Answer(l, r, <<m>>)
    BY <1>4 DEF RequestBlocks
  <2>2. m \in Messages /\ m.type = Request(r.phase) /\ m.locator = BuildLocator(r, t)
    BY <1>1, <1>2, RequestsAreMessages DEF Request
  <2>3. Asks(l, r, t, {l}, m)
    <3>1. Message(l).type \notin Requests
      BY DEF Requests, Responses
    <3>2. l \notin disturbed => GoesOn(r, t, tip[l[2]])
      OBVIOUS
    <3> HIDE DEF m, r
    <3> QED BY <1>1, <2>2, <3>1, <3>2 DEF Asks
  <2> HIDE DEF m, r
  <2> QED
    BY <1>1, <2>1, <2>2, <2>3, OneSent
<1> QED
  BY <1>3, <1>4

(* Headers are asked for.                                                  *)
LEMMA HeadersRequested ==
  ASSUME NEW l, Ready(l), NEW s, StateRight(s), NEW t, Gains(l, t),
         Answer(l, HeadersAsked(s), <<GetHeaders(HeadersAsked(s), t)>>),
         Message(l).type \notin Requests,
         l \notin disturbed =>
           HeadersRight(s, t, tip[l[2]]) /\ (sync[l].phase = "null" \/ Message(l).type \in Responses)
  PROVE  Outcome(l)
<1> DEFINE r == HeadersAsked(s)
           m == GetHeaders(r, t)
<1>1. /\ StateRight(r) /\ r \in States /\ r.phase = "headers" /\ r.inFlight /\ ~ r.late /\ ~ r.astray
      /\ r.headers = s.headers /\ r.buffer = s.buffer /\ r.forkParent = s.forkParent
  BY FlagsOnly
<1>2. t \in Block /\ tip[l[2]] \in Block
  BY ReadyFacts DEF Gains
<1>3. m \in Messages /\ m.type = Request(r.phase) /\ m.locator = BuildLocator(r, t)
  BY <1>1, <1>2, RequestsAreMessages DEF Request
<1>4. ASSUME l \notin disturbed PROVE GoesOn(r, t, tip[l[2]])
  <2>1. HeadersRight(r, t, tip[l[2]])
    BY <1>1, <1>4 DEF HeadersRight
  <2> HIDE DEF r
  <2> QED BY <1>1, <1>2, <2>1, HeadersGoOn
<1>5. Answer(l, r, <<m>>)
  OBVIOUS
<1> HIDE DEF m, r
<1>6. Asks(l, r, t, {l}, m)
  BY <1>1, <1>3, <1>4 DEF Asks
<1> QED
  BY <1>1, <1>3, <1>5, <1>6, OneSent

(* All headers are in: the exchange ends, or blocks are asked for.         *)
LEMMA HeadersFinished ==
  ASSUME NEW l, Ready(l), StayPut, NEW s, StateRight(s), FinishHeaders(l, s, tip[l[1]]),
         Message(l).type \in Responses,
         l \notin disturbed /\ s.headers # << >> =>
           /\ HeadersRight(s, tip[l[1]], tip[l[2]])
           /\ s.forkParent + 1 + Len(s.headers) = Len(Chain[tip[l[2]]])
  PROVE  Outcome(l)
<1> DEFINE t == tip[l[1]]
           e == [s EXCEPT !.expected = ToSet(s.headers), !.headers = << >>]
<1>1. Gains(l, t) /\ t \in Block /\ tip[l[2]] \in Block
  BY StaysPut, ReadyFacts
<1>2. CASE s.headers = << >> \/ Work[Last(s.headers)] <= Work[t]
  <2>1. Quietly(l, FreshSync)
    BY <1>2 DEF FinishHeaders, Quietly
  <2>2. Ends(l, FreshSync, GetLatest)
    BY DEF Ends, News, GetLatest, Requests, Responses
  <2> QED
    BY <1>1, <2>1, <2>2, FreshRight, NothingSent
<1>3. CASE ~ (s.headers = << >> \/ Work[Last(s.headers)] <= Work[t])
  <2>1. RequestBlocks(l, e, t) /\ s.headers # << >>
    BY <1>3 DEF FinishHeaders
  <2>2. s \in States /\ Joined(s.headers) /\ Joined(s.buffer)
    BY DEF StateRight
  <2>3. ToSet(s.headers) \in SUBSET Block
    BY <2>2 DEF ToSet, Joined
  <2>4. e \in States /\ e.headers = << >> /\ e.buffer = s.buffer
    <3> DEFINE X == ToSet(s.headers)
               d == [s EXCEPT !.expected = X]
    <3>1. d \in States /\ d.buffer = s.buffer
      <4> HIDE DEF X
      <4> QED BY <2>2, <2>3 DEF X, States
    <3>2. e = [d EXCEPT !.headers = << >>] /\ << >> \in Seq(Block)
      OBVIOUS
    <3> HIDE DEF d, e
    <3> QED BY <3>1, <3>2 DEF States
  <2>5. StateRight(e)
    BY <2>2, <2>4, FreshRight DEF StateRight
  <2>6. ASSUME l \notin disturbed
        PROVE  ~ LocatorThrows(BlocksAsked(e), t) /\ GoesOn(BlocksAsked(e), t, tip[l[2]])
    <3>1. HeadersRight(s, t, tip[l[2]]) /\ s.forkParent + 1 + Len(s.headers) = Len(Chain[tip[l[2]]])
      BY <2>1, <2>6
    <3> DEFINE q == tip[l[2]]
               r == BlocksAsked(e)
    <3>2. r = BlocksAsked([s EXCEPT !.expected = ToSet(s.headers), !.headers = << >>])
      OBVIOUS
    <3>3. HeadersRight(s, t, q) /\ s.forkParent + 1 + Len(s.headers) = Len(Chain[q]) /\ q \in Block
      BY <1>1, <3>1
    <3> HIDE DEF q, r, t
    <3>4. ~ LocatorThrows(r, t) /\ GoesOn(r, t, q)
      BY <1>1, <2>1, <2>2, <3>2, <3>3, BlocksStart
    <3> QED BY <3>4 DEF q, r
  <2> HIDE DEF e, t
  <2> QED
    BY <1>1, <2>1, <2>5, <2>6, BlocksRequested
<1> QED
  BY <1>2, <1>3

(* The exchange is given up.                                               *)
LEMMA GivenUp ==
  ASSUME NEW l, Ready(l), Message(l).type \in Responses,
         ResetSync(l) \/ (ResetBlaming(l) /\ l \in disturbed)
  PROVE  Outcome(l)
<1>1. Gains(l, tip[l[1]])
  BY StaysPut DEF ResetSync, ResetBlaming
<1>2. CASE ResetSync(l)
  <2>1. Ends(l, FreshSync, GetLatest)
    BY DEF Ends, News, GetLatest, Requests, Responses
  <2> QED
    BY <1>1, <1>2, <2>1, FreshRight, NothingSent DEF ResetSync, Quietly
<1>3. CASE ResetBlaming(l) /\ l \in disturbed
  <2>1. BAD_BLOCK \in Nat
    BY SyncConstants
  <2> QED
    BY <1>1, <1>3, <2>1, FreshRight, Blamed DEF ResetBlaming
<1> QED
  BY <1>2, <1>3

(* Headers arrive.                                                         *)
LEMMA HeadersHandled ==
  ASSUME NEW l, Ready(l), HandleHeadersResponse(l)
  PROVE  Outcome(l)
<1> DEFINE t == tip[l[1]]
           q == tip[l[2]]
           s == [sync[l] EXCEPT !.inFlight = FALSE]
           hs == Message(l).blocks
           fork == Parent(hs[1])
           got == [s EXCEPT !.headers = @ \o hs,
                            !.forkParent = IF s.headers = << >> THEN Height(fork) ELSE @]
           room == MAX_HEADER_BUFFER - Len(s.headers)
<1>1. /\ Message(l).type = "HEADERS_RESPONSE"
      /\ IF sync[l].phase # "headers" THEN StayPut /\ Ignore(l, sync[l], tip[l[2]])
         ELSE IF hs = << >> THEN StayPut /\ FinishHeaders(l, s, t)
         ELSE IF s.headers = << >> /\ ~ Has(t, fork) THEN ResetSync(l)
         ELSE IF BreaksOff(s.headers, fork) /\ room > 0 THEN ResetBlaming(l)
         ELSE IF Len(hs) > room THEN ResetSync(l)
         ELSE IF Height(Last(hs)) >= Message(l).height THEN StayPut /\ FinishHeaders(l, got, t)
         ELSE StayPut /\ RequestHeaders(l, got, t)
  BY DEF HandleHeadersResponse, Incoming, Message
<1>2. /\ Message(l).type \in Responses /\ Joined(hs) /\ Message(l).height \in Nat
      /\ Message(l).type \notin Requests
  BY <1>1, ReadyFacts, MessageFacts DEF Requests, Responses
<1>3. /\ sync[l] \in States /\ StateRight(sync[l]) /\ t \in Block /\ q \in Block
      /\ net[Other(l)] \in Seq(Messages) /\ net[Other(l)] # << >>
      /\ l \notin disturbed => Undisturbed(sync[l], t, q, net[l], net[Other(l)])
  BY ReadyFacts DEF Ready
<1>4. /\ StateRight(s) /\ s \in States /\ s.phase = sync[l].phase /\ ~ s.inFlight
      /\ s.headers = sync[l].headers /\ s.buffer = sync[l].buffer /\ s.forkParent = sync[l].forkParent
  BY <1>3, FlagsOnly
<1>5. ASSUME l \notin disturbed
      PROVE  /\ s.phase = "headers" /\ HeadersRight(s, t, q) /\ Message(l).height = Height(q)
             /\ \E a \in DOMAIN Chain[q] :
                  /\ GoesOnFrom(s, q, a) /\ PieceAt(hs, q, a)
                  /\ hs = << >> => a = Len(Chain[q])
  <2>1. /\ sync[l].phase # "null" /\ GoodResponse(sync[l], q, Message(l))
        /\ sync[l].phase = "headers" => HeadersRight(sync[l], t, q)
    <3> HIDE DEF t, q
    <3> QED BY <1>2, <1>3, <1>5, CalmAnswer DEF Message
  <2>2. sync[l].phase = "headers"
    BY <1>1, <1>3, <2>1 DEF GoodResponse, Response, States
  <2> HIDE DEF s, t, q, hs
  <2>3. HeadersRight(s, t, q)
    BY <1>4, <2>1, <2>2 DEF HeadersRight
  <2>4. PICK a \in DOMAIN Chain[q] :
          /\ GoesOnFrom(sync[l], q, a) /\ PieceAt(hs, q, a)
          /\ hs = << >> => a = Len(Chain[q])
    BY <2>1 DEF GoodResponse, hs
  <2>5. GoesOnFrom(s, q, a)
    BY <1>4, <2>4 DEF GoesOnFrom
  <2> QED
    BY <1>4, <2>1, <2>2, <2>3, <2>4, <2>5 DEF GoodResponse
<1>6. CASE sync[l].phase # "headers"
  <2>1. l \in disturbed
    BY <1>4, <1>5, <1>6
  <2>2. Passes(l, sync[l], GetLatest)
    BY <1>1, <1>2, <1>6, <2>1 DEF Passes, News, GetLatest, Requests, Responses, Response
  <2>3. Quietly(l, sync[l]) /\ Gains(l, t)
    BY <1>1, <1>6, StaysPut DEF Quietly
  <2> HIDE DEF t
  <2> QED
    BY <1>3, <2>2, <2>3, NothingSent
<1>7. CASE sync[l].phase = "headers" /\ hs = << >>
  <2>1. StayPut /\ FinishHeaders(l, s, t)
    BY <1>1, <1>7
  <2>2. ASSUME l \notin disturbed, s.headers # << >>
        PROVE  HeadersRight(s, t, q) /\ s.forkParent + 1 + Len(s.headers) = Len(Chain[q])
    <3> HIDE DEF s, t, q, hs
    <3>1. PICK a \in DOMAIN Chain[q] : GoesOnFrom(s, q, a) /\ a = Len(Chain[q])
      BY <1>5, <1>7, <2>2
    <3>2. a = s.forkParent + 1 + Len(s.headers)
      BY <3>1, <1>4, <1>7, <2>2 DEF GoesOnFrom
    <3> QED BY <3>1, <3>2, <1>5, <2>2
  <2> HIDE DEF s
  <2> QED
    BY <1>2, <1>4, <2>1, <2>2, HeadersFinished
<1>8. CASE sync[l].phase = "headers" /\ hs # << >>
  <2>1. fork \in Block /\ Len(hs) \in Nat /\ Len(hs) >= 1 /\ Height(fork) \in Nat /\ hs \in Seq(Block)
    <3>1. hs \in Seq(Block) /\ Len(hs) \in Nat /\ Len(hs) >= 1
      BY <1>2, <1>8 DEF Joined
    <3>2. fork \in Block
      <4> HIDE DEF hs
      <4> QED BY <1>2, <1>8, WorkGrows
    <3> QED BY <3>1, <3>2, ChainType
  <2>2. CASE s.headers = << >> /\ ~ Has(t, fork)
    <3>1. ResetSync(l)
      BY <1>1, <1>8, <2>2
    <3> QED BY <3>1, <1>2, GivenUp
  <2>3. CASE ~ (s.headers = << >> /\ ~ Has(t, fork)) /\ BreaksOff(s.headers, fork) /\ room > 0
    <3>1. ResetBlaming(l)
      BY <1>1, <1>8, <2>3
    <3>2. ASSUME l \notin disturbed PROVE FALSE
      <4> HIDE DEF s, t, q, hs, room
      <4>1. PICK a \in DOMAIN Chain[q] : GoesOnFrom(s, q, a) /\ PieceAt(hs, q, a)
        BY <1>5, <3>2
      <4>2. s.phase = "headers" /\ HeadersRight(s, t, q)
        BY <1>5, <3>2
      <4>3. ~ BreaksOff(s.headers, Parent(hs[1]))
        BY <1>3, <1>4, <1>8, <2>3, <4>1, <4>2, HeadersTaken
      <4> QED BY <4>3, <2>3
    <3> QED BY <3>1, <3>2, <1>2, GivenUp
  <2>4. CASE /\ ~ (s.headers = << >> /\ ~ Has(t, fork)) /\ ~ (BreaksOff(s.headers, fork) /\ room > 0)
             /\ Len(hs) > room
    <3>1. ResetSync(l)
      BY <1>1, <1>8, <2>4
    <3> QED BY <3>1, <1>2, GivenUp
  <2>5. CASE /\ ~ (s.headers = << >> /\ ~ Has(t, fork)) /\ ~ (BreaksOff(s.headers, fork) /\ room > 0)
             /\ ~ (Len(hs) > room)
    <3>1. ~ BreaksOff(s.headers, fork)
      <4>1. Len(s.headers) \in Nat /\ MAX_HEADER_BUFFER \in Nat
        BY <1>4, SyncConstants DEF States
      <4>2. room > 0
        <5> HIDE DEF s, hs
        <5> QED BY <4>1, <2>1, <2>5 DEF room
      <4> QED BY <4>2, <2>5
    <3>2. /\ got \in States /\ got.phase = s.phase /\ got.headers = s.headers \o hs
          /\ got.buffer = s.buffer /\ ~ got.inFlight
      <4> DEFINE f == IF s.headers = << >> THEN Height(fork) ELSE s.forkParent
                 hd == s.headers \o hs
      <4>1. f \in Nat \cup {-1} /\ hd \in Seq(Block)
        <5> HIDE DEF hs
        <5> QED BY <1>4, <2>1 DEF States
      <4>2. got = [s EXCEPT !.headers = hd, !.forkParent = f]
        OBVIOUS
      <4> HIDE DEF s, f, hd, got
      <4>3. /\ got \in States /\ got.phase = s.phase /\ got.headers = hd /\ got.buffer = s.buffer
            /\ ~ got.inFlight
        BY <1>4, <4>1, <4>2 DEF States
      <4> QED BY <4>3 DEF hd
    <3>3. StateRight(got)
      <4> HIDE DEF s, hs, got
      <4>1. s.headers # << >> => Parent(hs[1]) = Last(s.headers)
        BY <3>1 DEF BreaksOff
      <4>2. Joined(s.headers) /\ Joined(hs) /\ Joined(s.buffer)
        BY <1>2, <1>4 DEF StateRight
      <4>3. Joined(s.headers \o hs)
        BY <4>1, <4>2, <1>8, JoinedMeet
      <4> QED BY <3>2, <4>2, <4>3 DEF StateRight
    <3>4. ASSUME l \notin disturbed
          PROVE  /\ HeadersRight(got, t, q) /\ got.headers # << >>
                 /\ Height(Last(hs)) >= Message(l).height =>
                      got.forkParent + 1 + Len(got.headers) = Len(Chain[q])
      <4>0. got = WithHeaders(s, hs)
        BY DEF WithHeaders
      <4> HIDE DEF s, t, q, hs, got, room
      <4>1. PICK a \in DOMAIN Chain[q] : GoesOnFrom(s, q, a) /\ PieceAt(hs, q, a)
        BY <1>5, <3>4
      <4>2. s.phase = "headers" /\ HeadersRight(s, t, q) /\ Message(l).height = Height(q)
        BY <1>5, <3>4
      <4>3. s.headers = << >> => Has(t, Parent(hs[1]))
        BY <2>5
      <4>4. /\ got.headers # << >> /\ HeadersRight(got, t, q)
            /\ got.forkParent + 1 + Len(got.headers) = a + Len(hs)
        BY <4>0, <1>3, <1>4, <1>8, <4>1, <4>2, <4>3, HeadersTaken
      <4>5. ASSUME Height(Last(hs)) >= Message(l).height PROVE a + Len(hs) = Len(Chain[q])
        <5>1. /\ Height(Last(hs)) = a + Len(hs) - 1 /\ a \in Nat /\ Len(hs) \in Nat
              /\ a + Len(hs) <= Len(Chain[q])
          BY <1>3, <1>8, <4>1, PieceFacts
        <5>2. Height(q) + 1 = Len(Chain[q]) /\ Height(q) \in Nat
          BY <1>3, ChainType
        <5> QED BY <5>1, <5>2, <4>2, <4>5
      <4> QED BY <4>4, <4>5
    <3>5. CASE Height(Last(hs)) >= Message(l).height
      <4>1. StayPut /\ FinishHeaders(l, got, t)
        BY <1>1, <1>8, <2>5, <3>5
      <4>2. l \notin disturbed /\ got.headers # << >> =>
              HeadersRight(got, t, q) /\ got.forkParent + 1 + Len(got.headers) = Len(Chain[q])
        BY <3>4, <3>5
      <4> HIDE DEF got
      <4> QED BY <1>2, <3>3, <4>1, <4>2, HeadersFinished
    <3>6. CASE ~ (Height(Last(hs)) >= Message(l).height)
      <4>1. StayPut /\ RequestHeaders(l, got, t)
        BY <1>1, <1>8, <2>5, <3>6
      <4>2. Gains(l, t)
        BY <4>1, StaysPut
      <4>3. got.phase = "headers" /\ ~ got.inFlight
        BY <3>2, <1>4, <1>8
      <4> HIDE DEF got, t
      <4>4. Answer(l, HeadersAsked(got), <<GetHeaders(HeadersAsked(got), t)>>)
        BY <4>1, <4>3 DEF RequestHeaders, IsStale
      <4>5. l \notin disturbed => HeadersRight(got, t, tip[l[2]])
        BY <3>4
      <4> QED BY <1>2, <3>3, <4>2, <4>4, <4>5, HeadersRequested
    <3> QED BY <3>5, <3>6
  <2> QED BY <2>2, <2>3, <2>4, <2>5
<1> QED
  BY <1>6, <1>7, <1>8

(* The blocks are in: the tip moves only to a heavier branch.              *)
LEMMA SyncFinished ==
  ASSUME NEW l, Ready(l), NEW s, StateRight(s), NEW t \in Block,
         t = tip[l[1]], FinishSync(l, s, t), Message(l).type \in Responses
  PROVE  Outcome(l)
<1> DEFINE wins == s.buffer # << >> /\ Has(t, Parent(s.buffer[1])) /\ Work[Last(s.buffer)] > Work[t]
           best == IF wins THEN Last(s.buffer) ELSE t
           to == PeersOf(l[1])
<1>1. /\ MoveTip(l[1], best) /\ sync' = [sync EXCEPT ![l] = FreshSync] /\ Linked
      /\ net' = Broadcast(Read(l), l[1], best) \/ net' = Read(l)
  BY DEF FinishSync
<1>2. best \in Block /\ (best = t \/ Work[best] > Work[t])
  <2>1. Joined(s.buffer)
    BY DEF StateRight
  <2>2. CASE wins
    BY <2>1, <2>2, WorkGrows
  <2>3. CASE ~ wins
    BY <2>3
  <2> QED BY <2>2, <2>3
<1> HIDE DEF wins, best
<1>3. Gains(l, best)
  BY <1>1, <1>2 DEF Gains
<1>4. Latest(best) \in Messages /\ News(Latest(best)) /\ GetLatest \in Messages /\ News(GetLatest)
  BY <1>2 DEF Latest, GetLatest, Messages, News, Requests, Responses
<1>5. CASE net' = Broadcast(Read(l), l[1], best)
  <2>1. net' = Delivered(l, to, Latest(best)) /\ to \subseteq links \ {Other(l)}
    BY <1>5, Deliveries
  <2>2. Took(l, FreshSync, best, to, Latest(best))
    BY <1>1, <1>3, <1>4, <2>1, FreshRight, TookCalmly
  <2>3. Ends(l, FreshSync, Latest(best))
    BY <1>4 DEF Ends
  <2> QED
    BY <2>2, <2>3 DEF Outcome, Does
<1>6. CASE net' = Read(l)
  <2>1. net' = Delivered(l, {}, GetLatest)
    BY <1>6, Deliveries
  <2>2. Took(l, FreshSync, best, {}, GetLatest)
    BY <1>1, <1>3, <1>4, <2>1, FreshRight, TookCalmly
  <2>3. Ends(l, FreshSync, GetLatest)
    BY <1>4 DEF Ends
  <2> QED
    BY <2>2, <2>3 DEF Outcome, Does
<1> QED
  BY <1>1, <1>5, <1>6

(* Blocks arrive.                                                          *)
LEMMA BlocksHandled ==
  ASSUME NEW l, Ready(l), HandleBlocksResponse(l)
  PROVE  Outcome(l)
<1> DEFINE t == tip[l[1]]
           q == tip[l[2]]
           s == [sync[l] EXCEPT !.inFlight = FALSE]
           bs == Message(l).blocks
           fork == Parent(bs[1])
           gone == [s EXCEPT !.progressed = TRUE]
           more == [s EXCEPT !.buffer = @ \o bs]
<1>1. /\ Message(l).type = "BLOCKS_RESPONSE"
      /\ IF bs = << >> THEN FinishSync(l, s, t)
         ELSE IF s.expected # {} /\ ~ (ToSet(bs) \subseteq s.expected) THEN ResetBlaming(l)
         ELSE IF s.buffer = << >> /\ fork = t THEN AfterBatch(l, gone, Last(bs), bs)
         ELSE IF s.buffer = << >> /\ ~ Has(t, fork) THEN ResetSync(l)
         ELSE IF BreaksOff(s.buffer, fork) THEN ResetBlaming(l)
         ELSE IF Len(s.buffer) + Len(bs) > MAX_SYNC_BUFFER THEN ResetSync(l)
         ELSE AfterBatch(l, more, t, bs)
  BY DEF HandleBlocksResponse, Incoming, Message
<1>2. /\ Message(l).type \in Responses /\ Joined(bs) /\ Message(l).height \in Nat
      /\ Message(l).type \notin Requests
  BY <1>1, ReadyFacts, MessageFacts DEF Requests, Responses
<1>3. /\ sync[l] \in States /\ StateRight(sync[l]) /\ t \in Block /\ q \in Block
      /\ net[Other(l)] \in Seq(Messages) /\ net[Other(l)] # << >>
      /\ l \notin disturbed => Undisturbed(sync[l], t, q, net[l], net[Other(l)])
  BY ReadyFacts DEF Ready
<1>4. /\ StateRight(s) /\ s \in States /\ s.phase = sync[l].phase /\ ~ s.inFlight
      /\ s.headers = sync[l].headers /\ s.buffer = sync[l].buffer /\ s.forkParent = sync[l].forkParent
      /\ s.expected = sync[l].expected
  BY <1>3, FlagsOnly
<1>5. ASSUME l \notin disturbed
      PROVE  /\ s.phase = "blocks" /\ BlocksRight(s, t, q)
             /\ \E a \in DOMAIN Chain[q] : GoesOnFrom(s, q, a) /\ PieceAt(bs, q, a)
  <2>1. /\ sync[l].phase # "null" /\ GoodResponse(sync[l], q, Message(l))
        /\ sync[l].phase = "blocks" => BlocksRight(sync[l], t, q)
    <3> HIDE DEF t, q
    <3> QED BY <1>2, <1>3, <1>5, CalmAnswer DEF Message
  <2>2. sync[l].phase = "blocks"
    BY <1>1, <1>3, <2>1 DEF GoodResponse, Response, States
  <2> HIDE DEF s, t, q, bs
  <2>3. BlocksRight(s, t, q)
    BY <1>4, <2>1, <2>2 DEF BlocksRight
  <2>4. PICK a \in DOMAIN Chain[q] : GoesOnFrom(sync[l], q, a) /\ PieceAt(bs, q, a)
    BY <2>1 DEF GoodResponse, bs
  <2>5. GoesOnFrom(s, q, a)
    BY <1>4, <2>4 DEF GoesOnFrom
  <2> QED
    BY <1>4, <2>2, <2>3, <2>4, <2>5
<1>6. CASE bs = << >>
  <2>1. FinishSync(l, s, t)
    BY <1>1, <1>6
  <2>2. t = tip[l[1]]
    OBVIOUS
  <2> HIDE DEF s, t
  <2> QED BY <1>2, <1>3, <1>4, <2>1, <2>2, SyncFinished
<1>7. CASE bs # << >> /\ s.expected # {} /\ ~ (ToSet(bs) \subseteq s.expected)
  <2>1. ResetBlaming(l)
    BY <1>1, <1>7
  <2>2. ASSUME l \notin disturbed PROVE FALSE
    <3> HIDE DEF s, t, q, bs
    <3>1. PICK a \in DOMAIN Chain[q] : GoesOnFrom(s, q, a) /\ PieceAt(bs, q, a)
      BY <1>5, <2>2
    <3>2. ToSet(bs) \subseteq s.expected
      BY <1>3, <1>4, <1>5, <2>2, <3>1, BlocksExpected
    <3> QED BY <3>2, <1>7
  <2> QED BY <2>1, <2>2, <1>2, GivenUp
<1> DEFINE fine == bs # << >> /\ ~ (s.expected # {} /\ ~ (ToSet(bs) \subseteq s.expected))
<1>8. CASE fine /\ s.buffer = << >> /\ fork = t
  <2>1. AfterBatch(l, gone, Last(bs), bs)
    BY <1>1, <1>8
  <2>2. bs # << >> /\ Last(bs) \in Block /\ Work[Last(bs)] > Work[t]
    <3>1. bs # << >> /\ Parent(bs[1]) = t
      BY <1>8
    <3> HIDE DEF bs, t
    <3> QED BY <1>2, <3>1, WorkGrows
  <2>3. /\ StateRight(gone) /\ gone.buffer = s.buffer
    <3> HIDE DEF s
    <3> QED BY <1>4, FlagsOnly
  <2>4. CASE Height(Last(bs)) >= Message(l).height
    <3>1. FinishSync(l, gone, Last(bs))
      BY <2>1, <2>4 DEF AfterBatch
    <3> DEFINE b == Last(bs)
               to == PeersOf(l[1])
    <3>2. gone.buffer = << >>
      BY <2>3, <1>8
    <3>3. /\ MoveTip(l[1], b) /\ sync' = [sync EXCEPT ![l] = FreshSync] /\ Linked
          /\ net' = Broadcast(Read(l), l[1], b) \/ net' = Read(l)
      <4> HIDE DEF gone, b
      <4>1. FinishSync(l, gone, b)
        BY <3>1 DEF b
      <4> QED BY <3>2, <4>1 DEF FinishSync
    <3>4. Gains(l, b) /\ b \in Block
      BY <2>2, <3>3 DEF Gains
    <3> HIDE DEF b, gone, s, t, bs
    <3>5. Latest(b) \in Messages /\ News(Latest(b)) /\ GetLatest \in Messages /\ News(GetLatest)
      BY <3>4 DEF Latest, GetLatest, Messages, News, Requests, Responses
    <3>6. CASE net' = Broadcast(Read(l), l[1], b)
      <4>1. net' = Delivered(l, to, Latest(b)) /\ to \subseteq links \ {Other(l)}
        BY <3>6, Deliveries
      <4>2. Took(l, FreshSync, b, to, Latest(b))
        BY <3>3, <3>4, <3>5, <4>1, FreshRight, TookCalmly
      <4>3. Ends(l, FreshSync, Latest(b))
        BY <3>5, <1>2 DEF Ends
      <4> QED BY <4>2, <4>3 DEF Outcome, Does
    <3>7. CASE net' = Read(l)
      <4>1. net' = Delivered(l, {}, GetLatest)
        BY <3>7, Deliveries
      <4>2. Took(l, FreshSync, b, {}, GetLatest)
        BY <3>3, <3>4, <3>5, <4>1, FreshRight, TookCalmly
      <4>3. Ends(l, FreshSync, GetLatest)
        BY <3>5, <1>2 DEF Ends
      <4> QED BY <4>2, <4>3 DEF Outcome, Does
    <3> QED BY <3>3, <3>6, <3>7
  <2>5. CASE ~ (Height(Last(bs)) >= Message(l).height)
    <3> DEFINE b == Last(bs)
    <3>1. MoveTip(l[1], b) /\ RequestBlocks(l, gone, b)
      BY <2>1, <2>5 DEF AfterBatch
    <3>2. Gains(l, b)
      BY <2>2, <3>1 DEF Gains
    <3>3. ASSUME l \notin disturbed
          PROVE  ~ LocatorThrows(BlocksAsked(gone), b) /\ GoesOn(BlocksAsked(gone), b, q)
      <4>1. PICK a \in DOMAIN Chain[q] : GoesOnFrom(s, q, a) /\ PieceAt(bs, q, a)
        BY <1>5, <3>3
      <4>2. bs # << >> /\ s.buffer = << >> /\ Parent(bs[1]) = t
            /\ gone = [s EXCEPT !.progressed = TRUE] /\ b = Last(bs)
        BY <1>8
      <4>3. s.phase = "blocks" /\ BlocksRight(s, t, q)
        BY <1>5, <3>3
      <4> HIDE DEF s, t, q, bs, gone, b
      <4> QED BY <1>3, <1>4, <4>1, <4>2, <4>3, BlocksAppended
    <3> HIDE DEF gone, b
    <3> QED BY <1>2, <2>3, <3>1, <3>2, <3>3, BlocksRequested
  <2> QED BY <2>4, <2>5
<1>9. CASE fine /\ ~ (s.buffer = << >> /\ fork = t)
  <2>1. bs # << >> /\ fork \in Block /\ bs \in Seq(Block)
    <3>1. bs # << >>
      BY <1>9
    <3> HIDE DEF bs
    <3> QED BY <1>2, <3>1, WorkGrows DEF Joined
  <2>2. CASE s.buffer = << >> /\ ~ Has(t, fork)
    <3>1. ResetSync(l)
      BY <1>1, <1>9, <2>2
    <3> QED BY <3>1, <1>2, GivenUp
  <2>3. ASSUME l \notin disturbed
        PROVE  /\ ~ BreaksOff(s.buffer, fork) /\ ~ LocatorThrows(BlocksAsked(more), t)
               /\ GoesOn(BlocksAsked(more), t, q)
    <3>1. PICK a \in DOMAIN Chain[q] : GoesOnFrom(s, q, a) /\ PieceAt(bs, q, a)
      BY <1>5, <2>3
    <3>2. more = WithBlocks(s, bs)
      BY DEF WithBlocks
    <3>3. s.phase = "blocks" /\ BlocksRight(s, t, q)
      BY <1>5, <2>3
    <3> HIDE DEF s, t, q, bs, more
    <3> QED BY <1>3, <1>4, <2>1, <3>1, <3>2, <3>3, BlocksBuffered
  <2>4. CASE ~ (s.buffer = << >> /\ ~ Has(t, fork)) /\ BreaksOff(s.buffer, fork)
    <3>1. ResetBlaming(l)
      BY <1>1, <1>9, <2>4
    <3> QED BY <2>3, <2>4, <3>1, <1>2, GivenUp
  <2>5. CASE /\ ~ (s.buffer = << >> /\ ~ Has(t, fork)) /\ ~ BreaksOff(s.buffer, fork)
             /\ Len(s.buffer) + Len(bs) > MAX_SYNC_BUFFER
    <3>1. ResetSync(l)
      BY <1>1, <1>9, <2>5
    <3> QED BY <3>1, <1>2, GivenUp
  <2>6. CASE /\ ~ (s.buffer = << >> /\ ~ Has(t, fork)) /\ ~ BreaksOff(s.buffer, fork)
             /\ ~ (Len(s.buffer) + Len(bs) > MAX_SYNC_BUFFER)
    <3>1. AfterBatch(l, more, t, bs)
      BY <1>1, <1>9, <2>6
    <3>2. /\ more \in States /\ more.headers = s.headers /\ more.buffer = s.buffer \o bs
      <4> DEFINE x == s.buffer \o bs
      <4>1. x \in Seq(Block)
        <5> HIDE DEF bs, s
        <5> QED BY <1>4, <2>1 DEF States
      <4>2. more = [s EXCEPT !.buffer = x]
        OBVIOUS
      <4> HIDE DEF s, x, more
      <4>3. more \in States /\ more.headers = s.headers /\ more.buffer = x
        BY <1>4, <4>1, <4>2 DEF States
      <4> QED BY <4>3 DEF x
    <3>3. StateRight(more)
      <4>1. s.buffer # << >> => Parent(bs[1]) = Last(s.buffer)
        BY <2>6 DEF BreaksOff
      <4> HIDE DEF s, bs, more
      <4>2. Joined(s.headers) /\ Joined(bs) /\ Joined(s.buffer)
        BY <1>2, <1>4 DEF StateRight
      <4>3. Joined(s.buffer \o bs)
        BY <4>1, <4>2, <2>1, JoinedMeet
      <4> QED BY <3>2, <4>2, <4>3 DEF StateRight
    <3>4. CASE Height(Last(bs)) >= Message(l).height
      <4>1. FinishSync(l, more, t) /\ t = tip[l[1]]
        BY <3>1, <3>4 DEF AfterBatch
      <4> HIDE DEF more, t
      <4> QED BY <1>2, <1>3, <3>3, <4>1, SyncFinished
    <3>5. CASE ~ (Height(Last(bs)) >= Message(l).height)
      <4>1. MoveTip(l[1], t) /\ RequestBlocks(l, more, t)
        BY <3>1, <3>5 DEF AfterBatch
      <4>2. Gains(l, t)
        BY <1>3, <4>1 DEF Gains
      <4>3. l \notin disturbed =>
              ~ LocatorThrows(BlocksAsked(more), t) /\ GoesOn(BlocksAsked(more), t, tip[l[2]])
        BY <2>3
      <4> HIDE DEF more, t
      <4> QED BY <1>2, <3>3, <4>1, <4>2, <4>3, BlocksRequested
    <3> QED BY <3>4, <3>5
  <2> QED BY <2>2, <2>4, <2>5, <2>6
<1> QED
  BY <1>6, <1>7, <1>8, <1>9

(* News of a tip arrives.                                                  *)
LEMMA BlockchainHandled ==
  ASSUME NEW l, Ready(l), HandleBlockchainResponse(l)
  PROVE  Outcome(l)
<1> DEFINE n == l[1]
           b == Message(l).tip
           s == sync[l]
<1>1. /\ Message(l).type = "BLOCKCHAIN_RESPONSE"
      /\ IF b # Genesis /\ Parent(b) = tip[n]
         THEN /\ MoveTip(n, b)
              /\ net' = Broadcast(Read(l), n, b)
              /\ UNCHANGED sync /\ Linked /\ Misses({})
         ELSE /\ StayPut
              /\ IF Work[b] > Work[tip[n]]
                 THEN RequestHeaders(l, sync[l], tip[n])
                 ELSE Answer(l, sync[l], << >>)
  BY DEF HandleBlockchainResponse, Incoming, Message
<1>2. Message(l).type \notin Requests /\ Message(l).type \notin Responses /\ b \in Block
  BY <1>1, ReadyFacts, MessageFacts DEF Requests, Responses
<1>3. /\ s \in States /\ StateRight(s) /\ tip[n] \in Block /\ tip[l[2]] \in Block
      /\ l \notin disturbed => Undisturbed(s, tip[n], tip[l[2]], net[l], net[Other(l)])
  BY ReadyFacts
<1>4. GetLatest \in Messages /\ News(GetLatest) /\ Latest(b) \in Messages /\ News(Latest(b))
  BY <1>2 DEF Latest, GetLatest, Messages, News, Requests, Responses
<1>5. CASE b # Genesis /\ Parent(b) = tip[n]
  <2>1. Work[b] > Work[tip[n]]
    BY <1>2, <1>5, ChainType
  <2>2. Gains(l, b)
    BY <1>1, <1>2, <1>5, <2>1 DEF Gains
  <2>3. net' = Delivered(l, PeersOf(l[1]), Latest(b)) /\ PeersOf(l[1]) \subseteq links \ {Other(l)}
        /\ Linked
    BY <1>1, <1>5, Deliveries
  <2>4. sync' = [sync EXCEPT ![l] = sync[l]]
    <3>1. sync \in [Pairs -> States]
      BY ReadyFacts DEF SyncTypes
    <3> QED BY <1>1, <1>5, <3>1
  <2> HIDE DEF b
  <2>5. Took(l, s, b, PeersOf(l[1]), Latest(b))
    BY <1>3, <1>4, <2>2, <2>3, <2>4, TookCalmly
  <2>6. Passes(l, s, Latest(b))
    BY <1>2, <1>4 DEF Passes
  <2> QED BY <2>5, <2>6 DEF Outcome, Does
<1>6. CASE ~ (b # Genesis /\ Parent(b) = tip[n])
  <2>1. StayPut /\ (Quietly(l, s) \/ RequestHeaders(l, s, tip[n]))
    BY <1>1, <1>6 DEF Quietly
  <2>2. Gains(l, tip[n])
    BY <2>1, StaysPut
  <2>3. CASE Quietly(l, s)
    <3>1. Passes(l, s, GetLatest)
      BY <1>2, <1>4 DEF Passes
    <3> HIDE DEF s, n
    <3> QED BY <1>3, <2>2, <2>3, <3>1, NothingSent
  <2>4. CASE RequestHeaders(l, s, tip[n]) /\ ~ Quietly(l, s)
    <3> DEFINE r == IF IsStale(s) THEN FreshSync ELSE s
    <3>1. ~ r.inFlight /\ Answer(l, HeadersAsked(r), <<GetHeaders(HeadersAsked(r), tip[n])>>)
      BY <2>4 DEF RequestHeaders, Quietly
    <3>2. StateRight(r)
      BY <1>3, FreshRight
    <3>3. ASSUME l \notin disturbed
          PROVE  HeadersRight(r, tip[n], tip[l[2]]) /\ s.phase = "null"
      <4>1. ~ s.late /\ (s.phase = "null" => s = FreshSync) /\ (s.phase # "null" => s.inFlight)
        BY <1>3, <3>3 DEF Undisturbed
      <4>2. r = s
        BY <4>1 DEF IsStale
      <4>3. s.phase = "null" /\ s = FreshSync
        BY <3>1, <4>1, <4>2
      <4> QED BY <4>2, <4>3, FreshRight DEF HeadersRight
    <3> HIDE DEF r, n
    <3> QED BY <1>2, <2>2, <3>1, <3>2, <3>3, HeadersRequested
  <2> QED BY <2>1, <2>3, <2>4
<1> QED
  BY <1>5, <1>6

(* A question arrives and is answered.                                     *)
LEMMA QuestionsAnswered ==
  ASSUME NEW l, Ready(l), AnswerLatest(l) \/ AnswerHeaders(l) \/ AnswerBlocks(l)
  PROVE  Outcome(l)
<1> DEFINE t == tip[l[1]]
<1>1. /\ StateRight(sync[l]) /\ sync[l] \in States /\ t \in Block /\ Message(l) \in Messages
  BY ReadyFacts
<1>2. Gains(l, t)
  BY StaysPut DEF AnswerLatest, AnswerHeaders, AnswerBlocks
<1> HIDE DEF t
<1>3. CASE AnswerLatest(l)
  <2>1. Message(l).type = "GET_LATEST" /\ Answer(l, sync[l], <<Latest(t)>>)
    BY <1>3 DEF AnswerLatest, Incoming, Message, t
  <2>2. Latest(t) \in Messages /\ News(Latest(t))
    BY <1>1 DEF Latest, Messages, News, Requests, Responses
  <2>3. Passes(l, sync[l], Latest(t))
    BY <2>1, <2>2 DEF Passes, Requests, Responses
  <2> QED BY <1>1, <1>2, <2>1, <2>2, <2>3, OneSent
<1> DEFINE L == Message(l).locator
           a == StartAfterLocator(L, t)
<1>4. ASSUME Message(l).type \in Requests
      PROVE  /\ AnswersFrom(ResponseHeaders(L, t), t, a) /\ AnswersFrom(ResponseBlocks(L, t), t, a)
             /\ ResponseHeaders(L, t).type = "HEADERS_RESPONSE"
             /\ ResponseBlocks(L, t).type = "BLOCKS_RESPONSE"
             /\ ResponseHeaders(L, t) \in Messages /\ ResponseBlocks(L, t) \in Messages
  <2>1. IsLocator(L)
    BY <1>1, <1>4, MessageFacts
  <2> HIDE DEF L
  <2>2. a \in DOMAIN Chain[t]
    BY <1>1, <2>1, StartPlace
  <2> QED
    BY <1>1, <2>1, <2>2, ResponsePieces, SentAreMessages
<1>5. CASE AnswerHeaders(l)
  <2> DEFINE m == ResponseHeaders(L, t)
  <2>1. Message(l).type = "GET_HEADERS" /\ Answer(l, sync[l], <<m>>)
    BY <1>5 DEF AnswerHeaders, Incoming, Message, t
  <2>2. Message(l).type \in Requests
    BY <2>1 DEF Requests
  <2>3. m \in Messages /\ Replies(l, sync[l], {l}, m)
    BY <1>4, <2>1, <2>2 DEF Replies, t
  <2> HIDE DEF m
  <2> QED BY <1>1, <1>2, <2>1, <2>3, OneSent
<1>6. CASE AnswerBlocks(l)
  <2> DEFINE m == ResponseBlocks(L, t)
  <2>1. Message(l).type = "GET_BLOCKS" /\ Answer(l, sync[l], <<m>>)
    BY <1>6 DEF AnswerBlocks, Incoming, Message, t
  <2>2. Message(l).type \in Requests
    BY <2>1 DEF Requests
  <2>3. m \in Messages /\ Replies(l, sync[l], {l}, m)
    BY <1>4, <2>1, <2>2 DEF Replies, t
  <2> HIDE DEF m
  <2> QED BY <1>1, <1>2, <2>1, <2>3, OneSent
<1> QED
  BY <1>3, <1>5, <1>6

(* Every message has one of these outcomes.                                *)
LEMMA Received ==
  ASSUME SyncInv, NEW l \in Pairs, Receive(l)
  PROVE  Ready(l) /\ Outcome(l)
<1>1. net[Other(l)] # << >>
  BY DEF Receive, AnswerLatest, AnswerHeaders, AnswerBlocks, HandleBlockchainResponse,
         HandleHeadersResponse, HandleBlocksResponse, Incoming
<1>2. Ready(l)
  BY <1>1 DEF Ready
<1> QED
  BY <1>2, QuestionsAnswered, BlockchainHandled, HeadersHandled, BlocksHandled DEF Receive

-----------------------------------------------------------------------------
(* The invariants hold on each link. *)

LinkRight(k) ==
  /\ k \notin disturbed =>
       score[k] = 0 /\ Undisturbed(sync[k], tip[k[1]], tip[k[2]], net[k], net[Other(k)])
  /\ Pending(sync[k], net[k], net[Other(k)])

\* What the moves of tips mean for an exchange that is still undisturbed.
TipsRight(k) ==
  k \notin disturbed' =>
    k \notin disturbed
    /\ (sync[k].phase = "null" \/ (tip'[k[2]] = tip[k[2]] /\ Has(tip'[k[1]], tip[k[1]])))

(* Link by link, the invariants are these.                                 *)
LEMMA LinkByLink ==
  UndisturbedRight /\ Waits <=> \A k \in Pairs : LinkRight(k)
BY DEF UndisturbedRight, Waits, LinkRight

(* A tip that moves marks the exchanges it disturbs.                       *)
LEMMA TipMoves ==
  ASSUME SyncTypes, NEW n \in Node, NEW t \in Block, MoveTip(n, t)
  PROVE  /\ tip' \in [Node -> Block] /\ tip'[n] = t /\ \A p \in Node \ {n} : tip'[p] = tip[p]
         /\ disturbed' \subseteq Pairs /\ disturbed \subseteq disturbed'
         /\ \A k \in Pairs : TipsRight(k)
<1>1. tip \in [Node -> Block] /\ disturbed \subseteq Pairs
  BY DEF SyncTypes
<1>2. tip' = [tip EXCEPT ![n] = t]
  BY DEF MoveTip
<1>3. tip' \in [Node -> Block] /\ tip'[n] = t /\ \A p \in Node \ {n} : tip'[p] = tip[p]
  BY <1>1, <1>2
<1>4. disturbed' \subseteq Pairs /\ disturbed \subseteq disturbed'
  BY <1>1 DEF MoveTip
<1>5. ASSUME NEW k \in Pairs, k \notin disturbed', sync[k].phase # "null"
      PROVE  tip'[k[2]] = tip[k[2]] /\ Has(tip'[k[1]], tip[k[1]])
  <2>1. k[1] \in Node /\ k[2] \in Node /\ k[1] # k[2] /\ tip[k[1]] \in Block
    BY <1>1, TwoEnds
  <2>2. CASE t = tip[n]
    <3>1. \A p \in Node : tip'[p] = tip[p]
      BY <1>3, <2>2
    <3> QED BY <2>1, <3>1, HasTip
  <2>3. CASE t # tip[n]
    <3>1. ~ (k[2] = n \/ (k[1] = n /\ ~ Has(t, tip[n])))
      BY <1>5, <2>3 DEF MoveTip
    <3>2. tip'[k[2]] = tip[k[2]]
      BY <1>3, <2>1, <3>1
    <3>3. CASE k[1] = n
      BY <1>3, <3>1, <3>2, <3>3
    <3>4. CASE k[1] # n
      <4>1. tip'[k[1]] = tip[k[1]]
        BY <1>3, <2>1, <3>4
      <4> QED BY <2>1, <3>2, <4>1, HasTip
    <3> QED BY <3>3, <3>4
  <2> QED BY <2>2, <2>3
<1> QED
  BY <1>3, <1>4, <1>5 DEF TipsRight

(* An exchange whose state stays and whose messages are kept stays right.  *)
LEMMA KeptLink ==
  ASSUME SyncTypes, NEW k \in Pairs, LinkRight(k), TipsRight(k), tip' \in [Node -> Block],
         sync'[k] = sync[k], score'[k] \in {0, score[k]},
         Keeps(net[k], net'[k], Requests), Keeps(net[Other(k)], net'[Other(k)], Responses)
  PROVE  LinkRight(k)'
<1>1. k[1] \in Node /\ k[2] \in Node
  BY TwoEnds
<1>2. tip[k[1]] \in Block /\ tip'[k[1]] \in Block
  BY <1>1 DEF SyncTypes
<1>3. ASSUME k \notin disturbed'
      PROVE  /\ score'[k] = 0
             /\ Undisturbed(sync'[k], tip'[k[1]], tip'[k[2]], net'[k], net'[Other(k)])
  <2>1. /\ k \notin disturbed /\ score[k] = 0
        /\ Undisturbed(sync[k], tip[k[1]], tip[k[2]], net[k], net[Other(k)])
        /\ sync[k].phase = "null" \/ (tip'[k[2]] = tip[k[2]] /\ Has(tip'[k[1]], tip[k[1]]))
    BY <1>3 DEF LinkRight, TipsRight
  <2>2. Undisturbed(sync[k], tip'[k[1]], tip'[k[2]], net'[k], net'[Other(k)])
    BY <1>2, <2>1, StaysUndisturbed
  <2> QED BY <2>1, <2>2
<1>4. Pending(sync'[k], net'[k], net'[Other(k)])
  <2>1. Request(sync[k].phase) \in Requests /\ Response(sync[k].phase) \in Responses
    BY DEF Request, Response, Requests, Responses
  <2> QED BY <2>1 DEF LinkRight, Pending, Keeps
<1> QED
  BY <1>3, <1>4 DEF LinkRight

(* A new exchange is right when no exchange's message is under way.        *)
LEMMA FreshLink ==
  ASSUME NEW k \in Pairs, sync'[k] = FreshSync, k \notin disturbed' => score'[k] = 0,
         k \notin disturbed' => Without(net'[k], Requests) /\ Without(net'[Other(k)], Responses)
  PROVE  LinkRight(k)'
BY FreshRight DEF LinkRight, Undisturbed, Pending

(* The queues after a delivery.                                            *)
LEMMA DeliveredQueues ==
  ASSUME NEW l, Ready(l), NEW to, to \subseteq links \ {Other(l)}, NEW m \in Messages,
         NEW D, D = Delivered(l, to, m)
  PROVE  /\ D \in [Pairs -> Seq(Messages)]
         /\ D[Other(l)] = Tail(net[Other(l)])
         /\ \A k \in Pairs \ {Other(l)} : D[k] = IF k \in to THEN Append(net[k], m) ELSE net[k]
         /\ \A k \in Pairs : k \notin links => D[k] = << >>
<1>1. /\ SyncTypes /\ Other(l) \in Pairs /\ net \in [Pairs -> Seq(Messages)] /\ l \in links /\ l \in Pairs
      /\ net[Other(l)] # << >> /\ net[Other(l)] \in Seq(Messages)
  BY ReadyFacts DEF SyncTypes, Ready
<1>2. Tail(net[Other(l)]) \in Seq(Messages)
  BY <1>1
<1>3. \A k \in Pairs : net[k] \in Seq(Messages) /\ Append(net[k], m) \in Seq(Messages)
  BY <1>1
<1>4. \A k \in Pairs : k \notin links => net[k] = << >> /\ k # Other(l) /\ k \notin to
  BY <1>1 DEF SyncTypes
<1>5. /\ D[Other(l)] = Tail(net[Other(l)])
      /\ \A k \in Pairs \ {Other(l)} : D[k] = IF k \in to THEN Append(net[k], m) ELSE net[k]
  BY <1>1 DEF Delivered
<1>6. D = [k \in Pairs |-> D[k]]
  BY DEF Delivered
<1>7. \A k \in Pairs : D[k] \in Seq(Messages)
  BY <1>2, <1>3, <1>5
<1> QED
  BY <1>4, <1>5, <1>6, <1>7

(* A step that reads and sends leaves the other exchanges alone.           *)
LEMMA TookElsewhere ==
  ASSUME SyncInv, NEW l, Ready(l), NEW s, NEW t, NEW to, NEW m,
         Took(l, s, t, to, m), Does(l, s, t, to, m), NEW k \in Pairs, k # l, k # Other(l)
  PROVE  LinkRight(k)'
<1>1. /\ SyncTypes /\ l \in Pairs /\ LinkRight(k) /\ Other(k) \in Pairs /\ Other(k) # l /\ Other(k) # Other(l)
      /\ l[1] \in Node
  BY ReadyFacts, LinkByLink, TwoEnds DEF SyncInv
<1>2. TipsRight(k) /\ tip' \in [Node -> Block]
  BY <1>1, TipMoves DEF Took, Gains
<1>3. /\ sync'[k] = sync[k] /\ score'[k] = score[k]
      /\ m \in Messages /\ to \subseteq links \ {Other(l)} /\ net' = Delivered(l, to, m)
  BY <1>1 DEF Took, SyncTypes
<1>4. \A j \in Pairs \ {Other(l)} : net'[j] = IF j \in to THEN Append(net[j], m) ELSE net[j]
  BY <1>3, DeliveredQueues
<1>5. to = {l} \/ News(m)
  BY DEF Does, Passes, Replies, Ends, Throws, Asks
<1>6. ASSUME NEW j \in Pairs, j # l, j # Other(l), NEW types, types = Requests \/ types = Responses
      PROVE  Keeps(net[j], net'[j], types)
  <2>1. net[j] \in Seq(Messages)
    BY <1>1 DEF SyncTypes
  <2>2. CASE j \in to
    <3>1. net'[j] = Append(net[j], m) /\ m.type \notin types
      BY <1>4, <1>5, <1>6, <2>2 DEF News
    <3> QED BY <1>3, <2>1, <3>1, KeepsAppend
  <2>3. CASE j \notin to
    <3>1. net'[j] = net[j]
      BY <1>4, <1>6, <2>3
    <3> QED BY <3>1, KeepsSame
  <2> QED BY <2>2, <2>3
<1> QED
  BY <1>1, <1>2, <1>3, <1>6, KeptLink

(* At the other end of the link, a request is answered or nothing happens. *)
LEMMA TookFarEnd ==
  ASSUME SyncInv, NEW l, Ready(l), NEW s, NEW t, NEW to, NEW m,
         Took(l, s, t, to, m), Does(l, s, t, to, m), NEW k, k = Other(l)
  PROVE  LinkRight(k)'
<1>1. /\ SyncTypes /\ l \in Pairs /\ k \in Pairs /\ LinkRight(k) /\ Other(k) = l /\ k # l
      /\ l[1] \in Node /\ l[2] \in Node /\ k[1] = l[2] /\ k[2] = l[1]
      /\ net[k] \in Seq(Messages) /\ net[k] # << >> /\ net[l] \in Seq(Messages) /\ Message(l) = Head(net[k])
      /\ tip[l[1]] \in Block
  BY ReadyFacts, LinkByLink, TwoEnds DEF SyncInv, Ready, Message
<1>2. TipsRight(k) /\ tip' \in [Node -> Block] /\ disturbed \subseteq disturbed'
  BY <1>1, TipMoves DEF Took, Gains
<1>3. /\ sync'[k] = sync[k] /\ score'[k] = score[k]
      /\ m \in Messages /\ to \subseteq links \ {Other(l)} /\ net' = Delivered(l, to, m)
  BY <1>1 DEF Took, SyncTypes
<1>4. net'[k] = Tail(net[k]) /\ net'[l] = IF l \in to THEN Append(net[l], m) ELSE net[l]
  BY <1>1, <1>3, DeliveredQueues
<1>5. CASE Replies(l, s, to, m)
  <2> DEFINE a == StartAfterLocator(Message(l).locator, tip[l[1]])
             q == tip[l[1]]
             r == sync[k]
  <2>1. /\ net'[l] = Append(net[l], m) /\ Head(net[k]).type \in Requests /\ m.type \in Responses
        /\ m.type = IF Head(net[k]).type = "GET_HEADERS" THEN "HEADERS_RESPONSE" ELSE "BLOCKS_RESPONSE"
        /\ AnswersFrom(m, q, a)
    BY <1>1, <1>4, <1>5 DEF Replies, Responses
  <2>2. \E i \in DOMAIN net'[l] : net'[l][i] = m
    <3>1. Len(net[l]) + 1 \in DOMAIN Append(net[l], m) /\ Append(net[l], m)[Len(net[l]) + 1] = m
      BY <1>1, <1>3
    <3> QED BY <2>1, <3>1
  <2>3. \A type : Holds(net[l], type) => Holds(net'[l], type)
    <3>1. \A i \in DOMAIN net[l] : i \in DOMAIN Append(net[l], m) /\ Append(net[l], m)[i] = net[l][i]
      BY <1>1, <1>3
    <3> QED BY <2>1, <3>1 DEF Holds
  <2>4. Pending(r, net'[k], net'[l])
    <3>1. CASE r.phase = "null"
      BY <3>1 DEF Pending
    <3>2. CASE r.phase # "null"
      <4>1. r.phase \in {"headers", "blocks"}
        BY <1>1, <3>2 DEF SyncTypes, States
      <4>2. r.inFlight /\ (r.astray \/ Holds(net[k], Request(r.phase)) \/ Holds(net[l], Response(r.phase)))
        BY <1>1, <3>2 DEF LinkRight, Pending
      <4>3. CASE Holds(net[k], Request(r.phase)) /\ Head(net[k]).type = Request(r.phase)
        <5>1. m.type = Response(r.phase)
          BY <2>1, <4>1, <4>3 DEF Request, Response
        <5> QED BY <2>2, <4>2, <5>1 DEF Pending, Holds
      <4>4. CASE Holds(net[k], Request(r.phase)) /\ Head(net[k]).type # Request(r.phase)
        <5> DEFINE x == {Request(r.phase)}
        <5>1. Keeps(net[k], Tail(net[k]), x)
          <6>1. Head(net[k]).type \notin x
            BY <4>4
          <6> HIDE DEF x
          <6> QED BY <1>1, <6>1, KeepsTail
        <5>2. Holds(net'[k], Request(r.phase))
          BY <1>4, <4>4, <5>1 DEF Keeps
        <5> QED BY <4>2, <5>2 DEF Pending
      <4> QED BY <2>3, <4>2, <4>3, <4>4 DEF Pending
    <3> QED BY <3>1, <3>2
  <2>5. ASSUME k \notin disturbed'
        PROVE  score'[k] = 0 /\ Undisturbed(r, tip'[k[1]], tip'[k[2]], net'[k], net'[l])
    <3>1. /\ score[k] = 0 /\ k \notin disturbed
          /\ Undisturbed(r, tip[k[1]], q, net[k], net[l])
          /\ r.phase = "null" \/ (tip'[k[2]] = q /\ Has(tip'[k[1]], tip[k[1]]))
      BY <1>1, <1>2, <2>5 DEF LinkRight, TipsRight
    <3>2. /\ r.phase # "null" /\ GoodRequest(r, q, Head(net[k]))
          /\ Without(net[l], Responses) /\ Without(Tail(net[k]), Requests)
      <4> HIDE DEF r, q
      <4> QED BY <1>1, <2>1, <3>1, CalmRequest
    <3>3. tip'[k[2]] = q /\ Has(tip'[k[1]], tip[k[1]]) /\ q \in Block
          /\ tip[k[1]] \in Block /\ tip'[k[1]] \in Block
      BY <1>1, <1>2, <3>1, <3>2 DEF SyncTypes
    <3>4. PICK i \in DOMAIN net'[l] : OnlyAt(net'[l], Responses, i) /\ net'[l][i] = m
      BY <1>1, <1>3, <2>1, <3>2, SendOnly
    <3>5. GoodResponse(r, q, m)
      <4>1. r.phase \in {"headers", "blocks"}
        BY <1>1, <3>2 DEF SyncTypes, States
      <4>2. m.type = Response(r.phase)
        BY <2>1, <3>2, <4>1 DEF GoodRequest, Request, Response
      <4>3. GoesOnFrom(r, q, a) /\ a \in DOMAIN Chain[q]
        BY <1>1, <3>2 DEF GoodRequest, GoesOnFrom
      <4> HIDE DEF a, r, q
      <4> QED BY <2>1, <4>2, <4>3 DEF GoodResponse, AnswersFrom
    <3>6. Without(net'[k], Requests)
      BY <1>4, <3>2
    <3>7. /\ ~ r.late /\ ~ r.astray /\ r.inFlight
          /\ r.phase = "headers" => HeadersRight(r, tip'[k[1]], q)
          /\ r.phase = "blocks" => BlocksRight(r, tip'[k[1]], q)
      <4> DEFINE u == tip[k[1]]
                 v == tip'[k[1]]
      <4>1. u \in Block /\ v \in Block /\ Has(v, u) /\ Undisturbed(r, u, q, net[k], net[l])
        BY <3>1, <3>3
      <4> HIDE DEF u, v, q, r
      <4>2. ASSUME NEW f, MeetAt(f, u, q) PROVE MeetAt(f, v, q)
        BY <4>1, <4>2, ExtensionKeeps DEF MeetAt
      <4>3. /\ ~ r.late /\ ~ r.astray /\ r.inFlight
            /\ r.phase = "headers" => HeadersRight(r, v, q)
            /\ r.phase = "blocks" => BlocksRight(r, v, q)
        BY <3>2, <4>1, <4>2 DEF Undisturbed, HeadersRight, BlocksRight
      <4> QED BY <4>3 DEF v
    <3> HIDE DEF r, q, a
    <3> QED
      BY <1>3, <3>1, <3>2, <3>3, <3>4, <3>5, <3>6, <3>7 DEF Undisturbed
  <2> QED
    BY <1>1, <1>3, <2>4, <2>5 DEF LinkRight
<1>6. CASE ~ Replies(l, s, to, m)
  <2>1. Head(net[k]).type \notin Requests /\ m.type \notin Responses
    BY <1>1, <1>6 DEF Does, Passes, Ends, Throws, Asks, News, Request, Requests, Responses
  <2>2. Keeps(net[k], net'[k], Requests)
    BY <1>1, <1>4, <2>1, KeepsTail
  <2>3. Keeps(net[l], net'[l], Responses)
    BY <1>1, <1>3, <1>4, <2>1, KeepsAppend, KeepsSame
  <2> QED
    BY <1>1, <1>2, <1>3, <2>2, <2>3, KeptLink
<1> QED
  BY <1>5, <1>6

(* The reader's own exchange goes on, ends, or stays as it was.            *)
LEMMA TookHere ==
  ASSUME SyncInv, NEW l, Ready(l), NEW s, NEW t, NEW to, NEW m,
         Took(l, s, t, to, m), Does(l, s, t, to, m)
  PROVE  LinkRight(l)'
<1> DEFINE o == Other(l)
           q == tip[l[2]]
<1>1. /\ SyncTypes /\ l \in Pairs /\ o \in Pairs /\ LinkRight(l) /\ o # l
      /\ l[1] \in Node /\ l[2] \in Node /\ l[1] # l[2]
      /\ net[o] \in Seq(Messages) /\ net[o] # << >> /\ net[l] \in Seq(Messages) /\ Message(l) = Head(net[o])
  BY ReadyFacts, LinkByLink, TwoEnds DEF SyncInv, Ready, Message
<1>2. /\ TipsRight(l) /\ tip' \in [Node -> Block] /\ disturbed \subseteq disturbed'
      /\ tip'[l[1]] = t /\ tip'[l[2]] = q
  <2>1. t \in Block /\ MoveTip(l[1], t)
    BY DEF Took, Gains
  <2> QED BY <1>1, <2>1, TipMoves
<1>3. /\ sync'[l] = s /\ score' \in [Pairs -> Nat] /\ (l \notin disturbed => score'[l] = score[l])
      /\ m \in Messages /\ to \subseteq links \ {Other(l)} /\ net' = Delivered(l, to, m)
  BY <1>1 DEF Took, SyncTypes
<1>4. net'[o] = Tail(net[o]) /\ net'[l] = IF l \in to THEN Append(net[l], m) ELSE net[l]
  <2>1. /\ net'[Other(l)] = Tail(net[Other(l)])
        /\ \A k \in Pairs \ {Other(l)} : net'[k] = IF k \in to THEN Append(net[k], m) ELSE net[k]
    <3> HIDE DEF o, q
    <3>1. Ready(l) /\ to \subseteq links \ {Other(l)} /\ m \in Messages
          /\ net' = Delivered(l, to, m)
      BY <1>3
    <3>2. net'[Other(l)] = Tail(net[Other(l)])
      BY <3>1, DeliveredQueues
    <3>3. \A k \in Pairs \ {Other(l)} : net'[k] = IF k \in to THEN Append(net[k], m) ELSE net[k]
      BY <3>1, DeliveredQueues
    <3> QED BY <3>2, <3>3
  <2> QED BY <1>1, <2>1
<1>5. ASSUME l \notin disturbed'
      PROVE  /\ l \notin disturbed /\ score'[l] = 0
             /\ Undisturbed(sync[l], tip[l[1]], q, net[l], net[o])
  BY <1>1, <1>2, <1>3, <1>5 DEF LinkRight
<1> HIDE DEF o, q
<1>6. ASSUME NEW types, m.type \notin types PROVE Keeps(net[l], net'[l], types)
  BY <1>1, <1>3, <1>4, <1>6, KeepsAppend, KeepsSame
<1>7. ASSUME NEW types, Message(l).type \notin types PROVE Keeps(net[o], net'[o], types)
  BY <1>1, <1>4, <1>7, KeepsTail
<1>8. ASSUME l \notin disturbed', Message(l).type \in Responses
      PROVE  Without(net[l], Requests) /\ Without(net'[o], Responses)
  BY <1>1, <1>4, <1>5, <1>8, CalmAnswer
<1>9. CASE Passes(l, s, m)
  <2>1. s = sync[l] /\ m.type \notin Requests
    BY <1>9 DEF Passes, News
  <2>2. Keeps(net[l], net'[l], Requests)
    BY <1>6, <2>1
  <2>3. CASE Message(l).type \notin Responses
    <3>1. Keeps(net[o], net'[o], Responses)
      BY <1>7, <2>3
    <3>2. l \notin disturbed => score'[l] = score[l] /\ score[l] = 0
      BY <1>1, <1>3 DEF LinkRight
    <3>3. Undisturbed(sync[l], tip[l[1]], q, net[l], net[o]) /\ l \notin disturbed' =>
            Undisturbed(s, tip'[l[1]], q, net'[l], net'[o])
      <4>1. tip[l[1]] \in Block /\ tip'[l[1]] \in Block
        BY <1>1, <1>2 DEF SyncTypes
      <4>2. l \notin disturbed' => sync[l].phase = "null" \/ Has(tip'[l[1]], tip[l[1]])
        BY <1>2 DEF TipsRight
      <4> QED BY <2>1, <2>2, <3>1, <4>1, <4>2, StaysUndisturbed
    <3>4. Pending(s, net'[l], net'[o])
      <4>1. Request(s.phase) \in Requests /\ Response(s.phase) \in Responses
        BY DEF Request, Response, Requests, Responses
      <4>2. Pending(s, net[l], net[o])
        BY <1>1, <2>1 DEF LinkRight, o
      <4> QED BY <2>2, <3>1, <4>1, <4>2 DEF Pending, Keeps
    <3> QED BY <1>2, <1>3, <1>5, <3>3, <3>4 DEF LinkRight, o
  <2>4. CASE Message(l).type \in Responses
    <3>1. l \in disturbed' /\ Message(l).type # Response(s.phase)
      BY <1>2, <1>9, <2>4 DEF Passes
    <3> DEFINE x == {Response(s.phase)}
    <3>2. Keeps(net[o], net'[o], x)
      <4>1. Message(l).type \notin x
        BY <3>1
      <4> HIDE DEF x
      <4> QED BY <1>7, <4>1
    <3>3. Pending(s, net'[l], net'[o])
      <4>1. Request(s.phase) \in Requests
        BY DEF Request, Requests
      <4>2. Pending(s, net[l], net[o])
        BY <1>1, <2>1 DEF LinkRight, o
      <4> QED BY <2>2, <3>2, <4>1, <4>2 DEF Pending, Keeps
    <3> QED BY <1>3, <3>1, <3>3 DEF LinkRight, o
  <2> QED BY <2>3, <2>4
<1>10. CASE Replies(l, s, to, m)
  <2>1. s = sync[l] /\ m.type \notin Requests /\ Message(l).type \notin Responses
    BY <1>10 DEF Replies, Requests, Responses
  <2>2. Keeps(net[l], net'[l], Requests) /\ Keeps(net[o], net'[o], Responses)
    BY <1>6, <1>7, <2>1
  <2>3. l \notin disturbed' => Undisturbed(s, tip'[l[1]], q, net'[l], net'[o])
    <3>1. tip[l[1]] \in Block /\ tip'[l[1]] \in Block
      BY <1>1, <1>2 DEF SyncTypes
    <3>2. l \notin disturbed' => sync[l].phase = "null" \/ Has(tip'[l[1]], tip[l[1]])
      BY <1>2 DEF TipsRight
    <3> QED BY <1>5, <2>1, <2>2, <3>1, <3>2, StaysUndisturbed
  <2>4. Pending(s, net'[l], net'[o])
    <3>1. Request(s.phase) \in Requests /\ Response(s.phase) \in Responses
      BY DEF Request, Response, Requests, Responses
    <3>2. Pending(s, net[l], net[o])
      BY <1>1, <2>1 DEF LinkRight, o
    <3> QED BY <2>2, <3>1, <3>2 DEF Pending, Keeps
  <2> QED BY <1>2, <1>3, <1>5, <2>3, <2>4 DEF LinkRight, o
<1>11. CASE Ends(l, s, m)
  <2>1. s = FreshSync /\ m.type \notin Requests /\ Message(l).type \in Responses
    BY <1>11 DEF Ends, News
  <2>2. Keeps(net[l], net'[l], Requests)
    BY <1>6, <2>1
  <2>3. l \notin disturbed' => score'[l] = 0 /\ Without(net'[l], Requests) /\ Without(net'[o], Responses)
    BY <1>5, <1>8, <2>1, <2>2 DEF Keeps
  <2> QED BY <1>1, <1>3, <2>1, <2>3, FreshLink DEF o
<1>12. CASE Throws(l, s, m)
  <2>1. l \in disturbed' /\ Pending(s, net'[l], net'[o])
    BY <1>2, <1>12 DEF Throws, Pending
  <2> QED BY <1>3, <2>1 DEF LinkRight, o
<1>13. CASE Asks(l, s, t, to, m)
  <2>1. /\ net'[l] = Append(net[l], m) /\ m.type = Request(s.phase) /\ m.type \in Requests
        /\ m.locator = BuildLocator(s, t) /\ s.inFlight /\ ~ s.late /\ ~ s.astray /\ s.phase # "null"
    BY <1>4, <1>13 DEF Asks, Request, Requests
  <2>2. Pending(s, net'[l], net'[o])
    <3>1. Len(net[l]) + 1 \in DOMAIN Append(net[l], m) /\ Append(net[l], m)[Len(net[l]) + 1] = m
      BY <1>1, <1>3
    <3>2. Holds(net'[l], Request(s.phase))
      BY <2>1, <3>1 DEF Holds
    <3> QED BY <2>1, <3>2 DEF Pending
  <2>3. ASSUME l \notin disturbed' PROVE Undisturbed(s, t, q, net'[l], net'[o])
    <3>1. GoesOn(s, t, q) /\ (sync[l].phase = "null" \/ Message(l).type \in Responses)
      BY <1>5, <1>13, <2>3 DEF Asks, q
    <3>2. Without(net[l], Requests) /\ Without(net'[o], Responses)
      <4>1. CASE Message(l).type \in Responses
        BY <1>8, <2>3, <4>1
      <4>2. CASE Message(l).type \notin Responses
        <5>1. Without(net[l], Requests) /\ Without(net[o], Responses)
          BY <1>5, <2>3, <3>1, <4>2 DEF Undisturbed
        <5>2. Keeps(net[o], net'[o], Responses)
          BY <1>7, <4>2
        <5> QED BY <5>1, <5>2 DEF Keeps
      <4> QED BY <4>1, <4>2
    <3>3. PICK k \in DOMAIN net'[l] : OnlyAt(net'[l], Requests, k) /\ net'[l][k] = m
      BY <1>1, <1>3, <2>1, <3>2, SendOnly
    <3>4. GoodRequest(s, q, net'[l][k])
      BY <2>1, <3>1, <3>3 DEF GoodRequest, GoesOn
    <3> QED BY <2>1, <3>1, <3>2, <3>3, <3>4 DEF Undisturbed, GoesOn
  <2> QED BY <1>2, <1>3, <1>5, <2>2, <2>3 DEF LinkRight, o
<1> QED
  BY <1>9, <1>10, <1>11, <1>12, <1>13 DEF Does

(* The invariants after a message that is read.                            *)
LEMMA TookKeeps ==
  ASSUME SyncInv, NEW l, Ready(l), NEW s, NEW t, NEW to, NEW m,
         Took(l, s, t, to, m), Does(l, s, t, to, m)
  PROVE  SyncInv'
<1>1. SyncTypes /\ l \in Pairs /\ l \in links /\ l[1] \in Node
  BY ReadyFacts, TwoEnds
<1>2. /\ t \in Block /\ MoveTip(l[1], t) /\ StateRight(s) /\ s \in States
      /\ to \subseteq links \ {Other(l)} /\ m \in Messages /\ net' = Delivered(l, to, m)
      /\ sync' = [sync EXCEPT ![l] = s] /\ links' = links /\ banned' = banned
      /\ score' \in [Pairs -> Nat]
  BY DEF Took, Gains, StateRight
<1>3. tip' \in [Node -> Block] /\ disturbed' \subseteq Pairs
  BY <1>1, <1>2, TipMoves
<1>4. net' \in [Pairs -> Seq(Messages)] /\ \A k \in Pairs : k \notin links => net'[k] = << >>
  <2>1. to \subseteq links \ {Other(l)} /\ m \in Messages /\ net' = Delivered(l, to, m)
    BY <1>2
  <2>2. net' \in [Pairs -> Seq(Messages)]
    BY <2>1, DeliveredQueues
  <2>3. \A k \in Pairs : k \notin links => net'[k] = << >>
    BY <2>1, DeliveredQueues
  <2> QED BY <2>2, <2>3
<1>5. /\ sync' \in [Pairs -> States] /\ sync'[l] = s
      /\ \A k \in Pairs : k # l => sync'[k] = sync[k]
  BY <1>1, <1>2 DEF SyncTypes
<1>6. \A k \in Pairs : StateRight(sync'[k])
  BY <1>1, <1>2, <1>5 DEF SyncTypes
<1>7. \A k \in Pairs : k \notin links => sync'[k] = FreshSync
  BY <1>1, <1>5 DEF SyncTypes
<1>8. SyncTypes'
  BY <1>1, <1>2, <1>3, <1>4, <1>5, <1>6, <1>7 DEF SyncTypes
<1>9. \A k \in Pairs : LinkRight(k)'
  BY TookHere, TookFarEnd, TookElsewhere
<1>10. (UndisturbedRight /\ Waits)'
  BY <1>9 DEF UndisturbedRight, Waits, LinkRight
<1> QED
  BY <1>8, <1>10 DEF SyncInv

\* Both ends of a link start anew, with the same messages under way.
Anew(l, Q) ==
  /\ net' = [net EXCEPT ![l] = Q, ![Other(l)] = Q]
  /\ sync' = [sync EXCEPT ![l] = FreshSync, ![Other(l)] = FreshSync]

(* A link that starts anew has a right state, and so have the others.      *)
LEMMA AnewKeeps ==
  ASSUME SyncInv, NEW l \in Pairs, NEW Q, Q = << >> \/ Q = <<GetLatest>>, Anew(l, Q),
         tip' \in [Node -> Block], disturbed' \subseteq Pairs, banned' \subseteq Pairs,
         score' \in [Pairs -> Nat],
         \A k \in Pairs \ {l, Other(l)} : score'[k] \in {0, score[k]} /\ TipsRight(k),
         \A k \in {l, Other(l)} : k \notin disturbed' => score'[k] = 0,
         links' = links \cup {l, Other(l)} \/ (links' = links \ {l, Other(l)} /\ Q = << >>)
  PROVE  SyncInv'
<1>1. /\ SyncTypes /\ \A k \in Pairs : LinkRight(k)
  BY LinkByLink DEF SyncInv
<1>2. Other(l) \in Pairs /\ Other(l) # l /\ Other(Other(l)) = l
  BY TwoEnds
<1>3. \A k \in Pairs : Other(k) \in Pairs /\ Other(Other(k)) = k
  BY TwoEnds
<1>4. /\ GetLatest \in Messages /\ GetLatest.type \notin Requests /\ GetLatest.type \notin Responses
  BY DEF GetLatest, Messages, Requests, Responses
<1>5. Q \in Seq(Messages) /\ Without(Q, Requests) /\ Without(Q, Responses)
  <2>1. CASE Q = << >>
    <3>1. << >> \in Seq(Messages) /\ DOMAIN << >> = {}
      OBVIOUS
    <3> QED BY <2>1, <3>1 DEF Without
  <2>2. CASE Q = <<GetLatest>>
    <3> DEFINE g == GetLatest
    <3> HIDE DEF g
    <3>1. g \in Messages => <<g>> \in Seq(Messages)
      OBVIOUS
    <3>2. \A k \in DOMAIN <<g>> : <<g>>[k] = g
      OBVIOUS
    <3>3. Q = <<g>>
      BY <2>2 DEF g
    <3>4. g \in Messages /\ g.type \notin Requests /\ g.type \notin Responses
      BY <1>4 DEF g
    <3> QED BY <3>1, <3>2, <3>3, <3>4 DEF Without
  <2> QED BY <2>1, <2>2
<1>6. /\ net' \in [Pairs -> Seq(Messages)] /\ net'[l] = Q /\ net'[Other(l)] = Q
      /\ \A k \in Pairs \ {l, Other(l)} : net'[k] = net[k]
  BY <1>1, <1>2, <1>5 DEF SyncTypes, Anew
<1>7. /\ sync' \in [Pairs -> States] /\ sync'[l] = FreshSync /\ sync'[Other(l)] = FreshSync
      /\ \A k \in Pairs \ {l, Other(l)} : sync'[k] = sync[k]
  <2>1. FreshSync \in States
    BY FreshRight DEF StateRight
  <2> QED BY <1>1, <1>2, <2>1 DEF SyncTypes, Anew
<1>8. \A k \in Pairs : StateRight(sync'[k])
  BY <1>1, <1>7, FreshRight DEF SyncTypes
<1>9. \A k \in Pairs : k \notin links' => sync'[k] = FreshSync /\ net'[k] = << >>
  <2>1. ASSUME NEW k \in Pairs, k \notin links'
        PROVE  sync'[k] = FreshSync /\ net'[k] = << >>
    <3>1. CASE k \in {l, Other(l)}
      BY <1>6, <1>7, <2>1, <3>1
    <3>2. CASE k \notin {l, Other(l)}
      <4>1. k \notin links
        BY <2>1, <3>2
      <4> QED BY <1>1, <1>6, <1>7, <3>2, <4>1 DEF SyncTypes
    <3> QED BY <3>1, <3>2
  <2> QED BY <2>1
<1>10. \A k \in Pairs : k \in links' <=> Other(k) \in links'
  <2>1. ASSUME NEW k \in Pairs PROVE k \in links' <=> Other(k) \in links'
    <3>1. k \in {l, Other(l)} <=> Other(k) \in {l, Other(l)}
      BY <1>2, <1>3
    <3>2. k \in links <=> Other(k) \in links
      BY <1>1 DEF SyncTypes
    <3> QED BY <3>1, <3>2
  <2> QED BY <2>1
<1>11. links' \subseteq Pairs
  BY <1>1, <1>2 DEF SyncTypes
<1>12. SyncTypes'
  BY <1>6, <1>7, <1>8, <1>9, <1>10, <1>11 DEF SyncTypes
<1>13. ASSUME NEW k \in Pairs PROVE LinkRight(k)'
  <2>1. CASE k \in {l, Other(l)}
    <3>1. sync'[k] = FreshSync /\ net'[k] = Q /\ net'[Other(k)] = Q
      BY <1>2, <1>6, <1>7, <2>1
    <3> QED BY <1>5, <2>1, <3>1, FreshLink
  <2>2. CASE k \notin {l, Other(l)}
    <3>1. Other(k) \notin {l, Other(l)}
      BY <1>2, <1>3, <2>2
    <3>2. net'[k] = net[k] /\ net'[Other(k)] = net[Other(k)] /\ sync'[k] = sync[k]
      BY <1>3, <1>6, <1>7, <2>2, <3>1
    <3>3. Keeps(net[k], net'[k], Requests) /\ Keeps(net[Other(k)], net'[Other(k)], Responses)
      BY <3>2, KeepsSame
    <3> QED BY <1>1, <2>2, <3>2, <3>3, KeptLink
  <2> QED BY <2>1, <2>2
<1> QED
  BY <1>12, <1>13 DEF SyncInv, UndisturbedRight, Waits, LinkRight

-----------------------------------------------------------------------------
(* The steps. *)

Heavier == \A n \in Node : tip'[n] # tip[n] => Work[tip'[n]] > Work[tip[n]]

(* Tips that stay put disturb nothing.                                     *)
LEMMA TipsStay ==
  ASSUME SyncTypes, UNCHANGED tip, NEW k \in Pairs, k \notin disturbed' => k \notin disturbed
  PROVE  TipsRight(k)
<1>1. k[1] \in Node /\ k[2] \in Node
  BY TwoEnds
<1>2. tip[k[1]] \in Block
  BY <1>1 DEF SyncTypes
<1> QED
  BY <1>2, HasTip DEF TipsRight

(* A tip that is gained is a heavier one.                                  *)
LEMMA GainsWork ==
  ASSUME SyncTypes, NEW l \in Pairs, NEW t, Gains(l, t)
  PROVE  Heavier
<1>1. l[1] \in Node
  BY TwoEnds
<1>2. t \in Block /\ MoveTip(l[1], t) /\ (t = tip[l[1]] \/ Work[t] > Work[tip[l[1]]])
  BY DEF Gains
<1>3. tip'[l[1]] = t /\ \A p \in Node \ {l[1]} : tip'[p] = tip[p]
  BY <1>1, <1>2, TipMoves
<1> QED
  BY <1>2, <1>3 DEF Heavier

(* A message is read.                                                      *)
LEMMA ReceiveStep ==
  ASSUME SyncInv, NEW l \in Pairs, Receive(l)
  PROVE  SyncInv' /\ Heavier
<1>1. Ready(l) /\ Outcome(l) /\ SyncTypes
  BY Received DEF SyncInv
<1>2. ASSUME NEW s, NEW t, NEW to, NEW m, Took(l, s, t, to, m), Does(l, s, t, to, m)
      PROVE  SyncInv' /\ Heavier
  <2>1. Gains(l, t)
    BY <1>2 DEF Took
  <2> QED BY <1>1, <1>2, <2>1, TookKeeps, GainsWork
<1>3. ASSUME NEW t, Cuts(l, t) PROVE SyncInv' /\ Heavier
  <2>1. /\ Gains(l, t) /\ l \in disturbed /\ banned' = banned \cup {l} /\ Close(l)
        /\ sync' = [sync EXCEPT ![l] = FreshSync, ![Other(l)] = FreshSync]
        /\ score' \in [Pairs -> Nat] /\ \A k \in Pairs \ {l} : score'[k] \in {0, score[k]}
    BY <1>3 DEF Cuts
  <2>2. l[1] \in Node /\ Other(l) \in Pairs /\ Other(l) # l
    BY TwoEnds
  <2>3. /\ tip' \in [Node -> Block] /\ disturbed' \subseteq Pairs /\ disturbed \subseteq disturbed'
        /\ \A k \in Pairs : TipsRight(k)
    BY <1>1, <2>1, <2>2, TipMoves DEF Gains
  <2>4. Anew(l, << >>) /\ links' = links \ {l, Other(l)}
    BY <2>1 DEF Close, Anew
  <2>5. banned' \subseteq Pairs
    BY <1>1, <2>1 DEF SyncTypes
  <2>6. \A k \in {l, Other(l)} : k \notin disturbed' => score'[k] = 0
    <3>1. l \in disturbed'
      BY <2>1, <2>3
    <3>2. Other(l) \notin disturbed' => score[Other(l)] = 0
      BY <2>2, <2>3 DEF SyncInv, UndisturbedRight
    <3> QED BY <2>1, <2>2, <3>1, <3>2
  <2>7. \A k \in Pairs \ {l, Other(l)} : score'[k] \in {0, score[k]} /\ TipsRight(k)
    BY <2>1, <2>3
  <2>8. SyncInv'
    BY <2>1, <2>3, <2>4, <2>5, <2>6, <2>7, AnewKeeps
  <2> QED BY <1>1, <2>1, <2>8, GainsWork
<1> QED
  BY <1>1, <1>2, <1>3 DEF Outcome

(* A link opens or breaks.                                                 *)
LEMMA LinkStep ==
  ASSUME SyncInv, NEW l \in Dials, Connect(l) \/ Drop(l)
  PROVE  SyncInv' /\ Heavier
<1>1. l \in Pairs /\ Other(l) \in Pairs /\ Other(l) # l /\ SyncTypes
  BY SyncConstants, TwoEnds DEF SyncInv
<1>2. /\ score' = [score EXCEPT ![l] = 0, ![Other(l)] = 0]
      /\ disturbed' = disturbed \ {l, Other(l)} /\ tip' = tip /\ banned' = banned
  BY DEF Connect, Drop, Afresh
<1>3. /\ score' \in [Pairs -> Nat] /\ score'[l] = 0 /\ score'[Other(l)] = 0
      /\ \A k \in Pairs \ {l, Other(l)} : score'[k] = score[k]
  BY <1>1, <1>2 DEF SyncTypes
<1>4. tip' \in [Node -> Block] /\ disturbed' \subseteq Pairs /\ banned' \subseteq Pairs
  BY <1>1, <1>2 DEF SyncTypes
<1>5. \A k \in Pairs \ {l, Other(l)} : score'[k] \in {0, score[k]} /\ TipsRight(k)
  BY <1>1, <1>2, <1>3, TipsStay
<1>6. \A k \in {l, Other(l)} : k \notin disturbed' => score'[k] = 0
  BY <1>3
<1>7. CASE Drop(l)
  <2>1. Anew(l, << >>) /\ links' = links \ {l, Other(l)}
    BY <1>7 DEF Drop, Close, Anew, Afresh
  <2>2. SyncInv'
    BY <1>1, <1>3, <1>4, <1>5, <1>6, <2>1, AnewKeeps
  <2> QED BY <1>2, <2>2 DEF Heavier
<1>8. CASE Connect(l)
  <2>1. Anew(l, <<GetLatest>>) /\ links' = links \cup {l, Other(l)}
    BY <1>8 DEF Connect, Anew, Afresh
  <2>2. SyncInv'
    BY <1>1, <1>3, <1>4, <1>5, <1>6, <2>1, AnewKeeps
  <2> QED BY <1>2, <2>2 DEF Heavier
<1> QED
  BY <1>7, <1>8

(* A request times out.                                                    *)
LEMMA TimeoutStep ==
  ASSUME SyncInv, NEW l \in Pairs, Timeout(l)
  PROVE  SyncInv' /\ Heavier
<1>1. SyncTypes /\ \A k \in Pairs : LinkRight(k)
  BY LinkByLink DEF SyncInv
<1>2. /\ sync[l].inFlight /\ sync' = [sync EXCEPT ![l].late = TRUE]
      /\ disturbed' = disturbed \cup {l}
      /\ UNCHANGED <<tip, links, net, score, banned>>
  BY DEF Timeout
<1> DEFINE s == [sync[l] EXCEPT !.late = TRUE]
<1>3. /\ s \in States /\ StateRight(s) /\ s.phase = sync[l].phase /\ s.inFlight = sync[l].inFlight
      /\ s.astray = sync[l].astray
  <2>1. sync[l] \in States /\ StateRight(sync[l])
    BY <1>1 DEF SyncTypes
  <2>2. /\ s \in States /\ s.headers = sync[l].headers /\ s.buffer = sync[l].buffer
        /\ s.phase = sync[l].phase /\ s.inFlight = sync[l].inFlight /\ s.astray = sync[l].astray
    BY <2>1 DEF States
  <2> HIDE DEF s
  <2> QED BY <2>1, <2>2 DEF StateRight
<1>4. sync' = [sync EXCEPT ![l] = s]
  BY <1>2
<1> HIDE DEF s
<1>5. sync' \in [Pairs -> States] /\ sync'[l] = s /\ \A k \in Pairs \ {l} : sync'[k] = sync[k]
  BY <1>1, <1>3, <1>4 DEF SyncTypes
<1>6. l \in links
  <2>1. sync[l] # FreshSync
    BY <1>2, FreshRight
  <2> QED BY <1>1, <2>1 DEF SyncTypes
<1>7. SyncTypes'
  <2>1. \A k \in Pairs : StateRight(sync'[k])
    BY <1>1, <1>3, <1>5 DEF SyncTypes
  <2>2. \A k \in Pairs : k \notin links => sync'[k] = FreshSync /\ net[k] = << >>
    BY <1>1, <1>5, <1>6 DEF SyncTypes
  <2>3. disturbed' \subseteq Pairs
    BY <1>1, <1>2 DEF SyncTypes
  <2> QED BY <1>1, <1>2, <1>5, <2>1, <2>2, <2>3 DEF SyncTypes
<1>8. ASSUME NEW k \in Pairs PROVE LinkRight(k)'
  <2>1. CASE k = l
    <3>1. Pending(s, net[l], net[Other(l)])
      BY <1>1, <1>3 DEF LinkRight, Pending
    <3> QED BY <1>2, <1>5, <2>1, <3>1 DEF LinkRight
  <2>2. CASE k # l
    BY <1>1, <1>2, <1>5, <2>2 DEF LinkRight
  <2> QED BY <2>1, <2>2
<1> QED
  BY <1>2, <1>7, <1>8 DEF SyncInv, UndisturbedRight, Waits, LinkRight, Heavier

(* A message is dropped before its handler.                                *)
LEMMA DiscardStep ==
  ASSUME SyncInv, NEW l \in Pairs, Discard(l)
  PROVE  SyncInv' /\ Heavier
<1>1. SyncTypes /\ \A k \in Pairs : LinkRight(k)
  BY LinkByLink DEF SyncInv
<1> DEFINE o == Other(l)
           a == Asker(l)
           s == [sync[a] EXCEPT !.astray = TRUE]
<1>2. PICK points \in {FLOOD, MALFORMED} : Misbehaving(l, points, [sync EXCEPT ![a].astray = TRUE])
  BY DEF Discard
<1>3. /\ net[o] # << >> /\ disturbed' = disturbed \cup {l, o} /\ tip' = tip /\ points \in Nat
      /\ o \in Pairs /\ o # l /\ Other(o) = l /\ a \in {l, o} /\ a \in Pairs
  BY SyncConstants, TwoEnds DEF Discard, Asker
<1>4. tip' \in [Node -> Block] /\ disturbed' \subseteq Pairs /\ \A k \in Pairs : TipsRight(k)
  BY <1>1, <1>3, TipsStay DEF SyncTypes
<1>5. Heavier
  BY <1>3 DEF Heavier
<1>6. CASE score[l] + points < BAN_THRESHOLD
  <2>1. /\ score' = [score EXCEPT ![l] = @ + points] /\ sync' = [sync EXCEPT ![a] = s]
        /\ net' = [net EXCEPT ![o] = Tail(@)] /\ UNCHANGED <<links, banned>>
    BY <1>2, <1>6 DEF Misbehaving, Read
  <2>2. /\ s \in States /\ StateRight(s) /\ s.phase = sync[a].phase /\ s.inFlight = sync[a].inFlight
        /\ s.astray
    <3>1. sync[a] \in States /\ StateRight(sync[a])
      BY <1>1, <1>3 DEF SyncTypes
    <3>2. /\ s \in States /\ s.headers = sync[a].headers /\ s.buffer = sync[a].buffer
          /\ s.phase = sync[a].phase /\ s.inFlight = sync[a].inFlight /\ s.astray
      <4> HIDE DEF a
      <4> QED BY <3>1 DEF States
    <3> HIDE DEF s
    <3> QED BY <3>1, <3>2 DEF StateRight
  <2> HIDE DEF s, a, o
  <2>3. sync' \in [Pairs -> States] /\ sync'[a] = s /\ \A k \in Pairs \ {a} : sync'[k] = sync[k]
    BY <1>1, <1>3, <2>1, <2>2 DEF SyncTypes
  <2>4. /\ net[o] \in Seq(Messages) /\ Tail(net[o]) \in Seq(Messages)
        /\ net' \in [Pairs -> Seq(Messages)]
        /\ \A k \in Pairs \ {o} : net'[k] = net[k]
    BY <1>1, <1>3, <2>1 DEF SyncTypes
  <2>5. score' \in [Pairs -> Nat] /\ \A k \in Pairs \ {l} : score'[k] = score[k]
    BY <1>1, <1>3, <2>1 DEF SyncTypes
  <2>6. l \in links /\ o \in links
    BY <1>1, <1>3 DEF SyncTypes, o
  <2>7. \A k \in Pairs : StateRight(sync'[k])
    BY <1>1, <2>2, <2>3 DEF SyncTypes
  <2>8. \A k \in Pairs : k \notin links => sync'[k] = FreshSync /\ net'[k] = << >>
    BY <1>1, <1>3, <2>3, <2>4, <2>6 DEF SyncTypes
  <2>9. SyncTypes'
    BY <1>1, <1>4, <2>1, <2>3, <2>4, <2>5, <2>7, <2>8 DEF SyncTypes
  <2>10. ASSUME NEW k \in Pairs PROVE LinkRight(k)'
    <3>1. CASE k = a
      <4>1. Pending(s, net[k], net[Other(k)])
        BY <1>1, <2>2, <3>1 DEF LinkRight, Pending
      <4>2. k \in disturbed' /\ sync'[k] = s
        BY <1>3, <2>3, <3>1
      <4>3. Pending(s, net'[k], net'[Other(k)])
        BY <2>2, <4>1 DEF Pending
      <4> QED BY <4>2, <4>3 DEF LinkRight
    <3>2. CASE k # a /\ k \in {l, o}
      <4>1. k \in disturbed' /\ sync'[k] = sync[k] /\ Pending(sync[k], net[k], net[Other(k)])
        BY <1>1, <1>3, <2>3, <3>2 DEF LinkRight
      <4>2. Pending(sync[k], net'[k], net'[Other(k)])
        <5>1. Other(k) \in Pairs /\ net[o] # << >>
          BY <1>3, TwoEnds
        <5>2. CASE k = l
          <6>1. Message(l).type \notin Responses /\ Other(k) = o
            BY <1>3, <3>2, <5>2 DEF Asker, a, o, Responses
          <6>2. Head(net[o]).type \notin Responses
            BY <6>1 DEF Message, o
          <6>3. Keeps(net[o], Tail(net[o]), Responses)
            BY <2>4, <5>1, <6>2, KeepsTail
          <6>4. net'[l] = net[l] /\ net'[o] = Tail(net[o])
            BY <1>1, <1>3, <2>1, <2>4 DEF SyncTypes
          <6>5. Response(sync[k].phase) \in Responses
            BY DEF Response, Responses
          <6> QED BY <4>1, <5>2, <6>1, <6>3, <6>4, <6>5 DEF Pending, Keeps
        <5>3. CASE k = o
          <6>1. Message(l).type \notin Requests /\ Other(k) = l
            BY <1>3, <3>2, <5>3 DEF Asker, a, o, Requests
          <6>2. Head(net[o]).type \notin Requests
            BY <6>1 DEF Message, o
          <6>3. Keeps(net[o], Tail(net[o]), Requests)
            BY <2>4, <5>1, <6>2, KeepsTail
          <6>4. net'[l] = net[l] /\ net'[o] = Tail(net[o])
            BY <1>1, <1>3, <2>1, <2>4 DEF SyncTypes
          <6>5. Request(sync[k].phase) \in Requests
            BY DEF Request, Requests
          <6> QED BY <4>1, <5>3, <6>1, <6>3, <6>4, <6>5 DEF Pending, Keeps
        <5> QED BY <3>2, <5>2, <5>3
      <4> QED BY <4>1, <4>2 DEF LinkRight
    <3>3. CASE k \notin {l, o}
      <4>1. Other(k) \in Pairs /\ Other(k) # o /\ k # a
        BY <1>3, <3>3, TwoEnds DEF o
      <4>2. /\ net'[k] = net[k] /\ net'[Other(k)] = net[Other(k)] /\ sync'[k] = sync[k]
            /\ score'[k] = score[k]
        BY <2>3, <2>4, <2>5, <3>3, <4>1
      <4>3. Keeps(net[k], net'[k], Requests) /\ Keeps(net[Other(k)], net'[Other(k)], Responses)
        BY <4>2, KeepsSame
      <4> QED BY <1>1, <1>4, <4>2, <4>3, KeptLink
    <3> QED BY <3>1, <3>2, <3>3
  <2> QED
    BY <1>5, <2>9, <2>10 DEF SyncInv, UndisturbedRight, Waits, LinkRight
<1>7. CASE ~ (score[l] + points < BAN_THRESHOLD)
  <2>1. /\ banned' = banned \cup {l} /\ Close(l)
        /\ score' = [score EXCEPT ![l] = @ + points, ![o] = 0]
        /\ sync' = [sync EXCEPT ![l] = FreshSync, ![o] = FreshSync]
    BY <1>2, <1>7 DEF Misbehaving
  <2>2. Anew(l, << >>) /\ links' = links \ {l, Other(l)}
    BY <2>1 DEF Close, Anew
  <2>3. score' \in [Pairs -> Nat] /\ \A k \in Pairs \ {l, Other(l)} : score'[k] = score[k]
    <3> HIDE DEF s, a
    <3>1. score \in [Pairs -> Nat] /\ score[l] + points \in Nat /\ points \in Nat
      BY <1>1, <1>3 DEF SyncTypes
    <3> DEFINE d == [score EXCEPT ![l] = @ + points]
    <3>2. d \in [Pairs -> Nat] /\ \A k \in Pairs \ {l} : d[k] = score[k]
      BY <3>1
    <3>3. score' = [d EXCEPT ![o] = 0]
      BY <2>1
    <3> HIDE DEF d
    <3> QED BY <1>3, <3>2, <3>3
  <2>4. banned' \subseteq Pairs
    BY <1>1, <2>1 DEF SyncTypes
  <2>5. \A k \in {l, Other(l)} : k \notin disturbed' => score'[k] = 0
    BY <1>3
  <2>6. SyncInv'
    BY <1>4, <2>2, <2>3, <2>4, <2>5, AnewKeeps
  <2> QED BY <1>5, <2>6
<1> QED
  BY <1>6, <1>7

(* A block is found.                                                       *)
LEMMA NewTipStep ==
  ASSUME SyncInv, NEW n \in Node, NEW b \in Block, NewTip(n, b)
  PROVE  SyncInv' /\ Heavier
<1>1. SyncTypes /\ \A k \in Pairs : LinkRight(k)
  BY LinkByLink DEF SyncInv
<1>2. /\ Work[b] > Work[tip[n]] /\ MoveTip(n, b) /\ net' = Broadcast(net, n, b)
      /\ UNCHANGED <<links, sync, score, banned>>
  BY DEF NewTip
<1>3. /\ tip' \in [Node -> Block] /\ tip'[n] = b /\ \A p \in Node \ {n} : tip'[p] = tip[p]
      /\ disturbed' \subseteq Pairs /\ \A k \in Pairs : TipsRight(k)
  BY <1>1, <1>2, TipMoves
<1> DEFINE m == Latest(b)
<1>4. m \in Messages /\ m.type \notin Requests /\ m.type \notin Responses
  BY DEF Latest, Messages, Requests, Responses
<1>5. net' = [k \in Pairs |-> IF k[1] = n /\ k \in links THEN Append(net[k], m) ELSE net[k]]
  BY <1>2 DEF Broadcast
<1> HIDE DEF m
<1>6. \A k \in Pairs : net[k] \in Seq(Messages) /\ Append(net[k], m) \in Seq(Messages)
  BY <1>1, <1>4 DEF SyncTypes
<1>7. /\ net' \in [Pairs -> Seq(Messages)]
      /\ \A k \in Pairs : net'[k] = Append(net[k], m) \/ net'[k] = net[k]
      /\ \A k \in Pairs : k \notin links => net'[k] = net[k]
  BY <1>5, <1>6
<1>8. SyncTypes'
  <2>1. \A k \in Pairs : k \notin links => sync[k] = FreshSync /\ net'[k] = << >>
    BY <1>1, <1>7 DEF SyncTypes
  <2> QED BY <1>1, <1>2, <1>3, <1>7, <2>1 DEF SyncTypes
<1>9. ASSUME NEW k \in Pairs PROVE LinkRight(k)'
  <2>1. ASSUME NEW j \in Pairs, NEW types, m.type \notin types PROVE Keeps(net[j], net'[j], types)
    BY <1>4, <1>6, <1>7, <2>1, KeepsAppend, KeepsSame
  <2>2. Other(k) \in Pairs
    BY TwoEnds
  <2>3. Keeps(net[k], net'[k], Requests) /\ Keeps(net[Other(k)], net'[Other(k)], Responses)
    BY <1>4, <2>1, <2>2
  <2> QED BY <1>1, <1>2, <1>3, <2>3, KeptLink
<1>10. Heavier
  BY <1>2, <1>3 DEF Heavier
<1> QED
  BY <1>8, <1>9, <1>10 DEF SyncInv, UndisturbedRight, Waits, LinkRight

(* The beginning: no links, no messages.                                   *)
LEMMA InitSync ==
  ASSUME SyncInit PROVE SyncInv
<1>1. /\ tip \in [Node -> {Genesis}] /\ links = {} /\ banned = {} /\ disturbed = {}
      /\ net = [l \in Pairs |-> << >>] /\ sync = [l \in Pairs |-> FreshSync]
      /\ score = [l \in Pairs |-> 0]
  BY DEF SyncInit
<1>2. Genesis \in Block /\ FreshSync \in States /\ StateRight(FreshSync)
  BY SyncConstants, FreshRight DEF StateRight
<1>3. \A l \in Pairs : Other(l) \in Pairs /\ net[l] = << >> /\ sync[l] = FreshSync /\ score[l] = 0
  BY <1>1, TwoEnds
<1>4. net \in [Pairs -> Seq(Messages)] /\ sync \in [Pairs -> States] /\ score \in [Pairs -> Nat]
  <2>1. << >> \in Seq(Messages)
    OBVIOUS
  <2> QED BY <1>1, <1>2, <2>1
<1>5. tip \in [Node -> Block]
  BY <1>1, <1>2
<1>6. SyncTypes
  BY <1>1, <1>2, <1>3, <1>4, <1>5 DEF SyncTypes
<1>7. Without(<< >>, Requests) /\ Without(<< >>, Responses)
  <2>1. DOMAIN << >> = {}
    OBVIOUS
  <2> QED BY <2>1 DEF Without
<1>8. ASSUME NEW l \in Pairs PROVE LinkRight(l)
  <2>1. net[l] = << >> /\ net[Other(l)] = << >> /\ sync[l] = FreshSync /\ score[l] = 0
    BY <1>3
  <2> QED BY <1>7, <2>1, FreshRight DEF LinkRight, Undisturbed, Pending
<1> QED
  BY <1>6, <1>8, LinkByLink DEF SyncInv

(* Every step keeps the invariants, and no tip is given up for a lighter.  *)
LEMMA NextSync ==
  ASSUME SyncInv, [SyncNext]_syncVars PROVE SyncInv' /\ Heavier
<1>1. CASE SyncNext
  <2>1. CASE Settle
    BY <2>1 DEF Settle, SyncInv, SyncTypes, UndisturbedRight, Waits, Heavier
  <2> QED
    BY <1>1, <2>1, ReceiveStep, DiscardStep, TimeoutStep, LinkStep, NewTipStep DEF SyncNext
<1>2. CASE UNCHANGED syncVars
  BY <1>2 DEF syncVars, SyncInv, SyncTypes, UndisturbedRight, Waits, Heavier
<1> QED
  BY <1>1, <1>2

-----------------------------------------------------------------------------
(* The invariants of header-first synchronisation: types, undisturbed      *)
(* exchanges hold what the peer has and ask for what follows, and what an  *)
(* exchange waits for is on its way (src/p2p.js).                          *)
THEOREM SyncInvariant == SyncSpec => []SyncInv
<1>1. SyncInit => SyncInv
  BY InitSync
<1>2. SyncInv /\ [SyncNext]_syncVars => SyncInv'
  BY NextSync
<1> QED
  BY <1>1, <1>2, PTL DEF SyncSpec

\* What is missed is kept account of.
Accounted == \E K \in SUBSET Pairs : Misses(K)

(* Every answer to a message keeps account.                                *)
LEMMA AnswersAccount ==
  ASSUME NEW l \in Pairs
  PROVE  /\ \A s, m : Answer(l, s, m) => Accounted
         /\ \A b : PassOver(l, b) => Accounted
         /\ \A s, b : Ignore(l, s, b) => Accounted
         /\ \A s, t : RequestBlocks(l, s, t) => Accounted
         /\ \A s, t : RequestHeaders(l, s, t) => Accounted
         /\ \A s, t : FinishSync(l, s, t) => Accounted
<1>1. ASSUME NEW s, NEW m, Answer(l, s, m) PROVE Accounted
  BY <1>1 DEF Answer, Accounted
<1>2. ASSUME NEW b, PassOver(l, b) PROVE Accounted
  <2>1. {k \in {l} : b = tip[l[2]]} \in SUBSET Pairs
    OBVIOUS
  <2> QED BY <1>2, <2>1 DEF PassOver, Accounted
<1>3. ASSUME NEW s, NEW b, Ignore(l, s, b) PROVE Accounted
  BY <1>2, <1>3 DEF Ignore
<1>4. ASSUME NEW s, NEW t, RequestBlocks(l, s, t) PROVE Accounted
  BY <1>1, <1>2, <1>4 DEF RequestBlocks
<1>5. ASSUME NEW s, NEW t, RequestHeaders(l, s, t) PROVE Accounted
  BY <1>1, <1>3, <1>5 DEF RequestHeaders
<1>6. ASSUME NEW s, NEW t, FinishSync(l, s, t) PROVE Accounted
  <2>1. {} \in SUBSET Pairs /\ {l} \in SUBSET Pairs
    OBVIOUS
  <2> QED BY <1>6, <2>1 DEF FinishSync, Accounted
<1> QED
  BY <1>1, <1>2, <1>3, <1>4, <1>5, <1>6

(* Every handler does.                                                     *)
LEMMA ReceiveAccounts ==
  ASSUME NEW l \in Pairs, Receive(l)
  PROVE  Accounted
<1>1. CASE AnswerLatest(l) \/ AnswerHeaders(l) \/ AnswerBlocks(l)
  BY <1>1, AnswersAccount DEF AnswerLatest, AnswerHeaders, AnswerBlocks
<1>2. CASE HandleBlockchainResponse(l)
  <2>1. Misses({}) => Accounted
    BY DEF Accounted
  <2> QED BY <1>2, <2>1, AnswersAccount DEF HandleBlockchainResponse
<1>3. ResetSync(l) \/ ResetBlaming(l) => Accounted
  BY AnswersAccount DEF ResetSync, ResetBlaming
<1>4. \A s, t : FinishHeaders(l, s, t) => Accounted
  BY AnswersAccount DEF FinishHeaders
<1>5. \A s, t, bs : AfterBatch(l, s, t, bs) => Accounted
  BY AnswersAccount DEF AfterBatch
<1>6. CASE HandleHeadersResponse(l)
  BY <1>3, <1>4, <1>6, AnswersAccount DEF HandleHeadersResponse
<1>7. CASE HandleBlocksResponse(l)
  BY <1>3, <1>5, <1>7, AnswersAccount DEF HandleBlocksResponse
<1> QED
  BY <1>1, <1>2, <1>6, <1>7 DEF Receive

(* What is missed is on pairs of nodes.                                    *)
LEMMA MissedTyped ==
  ASSUME missed \subseteq Pairs, [SyncNext]_syncVars
  PROVE  missed' \subseteq Pairs
<1>1. Accounted => missed' \subseteq Pairs
  BY DEF Accounted, Misses
<1>2. ASSUME NEW l \in Pairs, Receive(l) \/ Discard(l) \/ Timeout(l) PROVE missed' \subseteq Pairs
  <2>1. Asker(l) \in Pairs
    BY TwoEnds DEF Asker
  <2>2. Discard(l) => Accounted
    BY <2>1, AnswersAccount DEF Discard
  <2>3. Timeout(l) => missed' = missed
    BY DEF Timeout
  <2> QED BY <1>1, <1>2, <2>2, <2>3, ReceiveAccounts
<1>3. ASSUME NEW l \in Dials, Connect(l) \/ Drop(l) PROVE missed' \subseteq Pairs
  BY <1>3 DEF Connect, Drop, Afresh
<1>4. ASSUME NEW n \in Node, NEW b \in Block, NewTip(n, b) PROVE missed' \subseteq Pairs
  <2>1. Misses({}) => Accounted
    BY DEF Accounted
  <2> QED BY <1>1, <1>4, <2>1 DEF NewTip
<1>5. CASE Settle \/ UNCHANGED syncVars
  BY <1>5 DEF Settle, syncVars
<1> QED
  BY <1>2, <1>3, <1>4, <1>5 DEF SyncNext

(* Types hold, what is received is a piece of one chain, and a closed link *)
(* has no state (resetSync, closeConnection).                              *)
THEOREM SyncTypesHold == SyncSpec => []SyncTypeOK
<1>1. SyncInv /\ missed \subseteq Pairs => SyncTypeOK
  <2> SUFFICES ASSUME SyncInv, missed \subseteq Pairs PROVE SyncTypeOK
    OBVIOUS
  <2>1. SyncTypes
    BY DEF SyncInv
  <2>2. ASSUME NEW l \in Pairs
        PROVE  /\ sync[l].phase \in {"null", "headers", "blocks"}
               /\ \A i \in 2..Len(sync[l].headers) : Parent(sync[l].headers[i]) = sync[l].headers[i - 1]
               /\ \A i \in 2..Len(sync[l].buffer) : Parent(sync[l].buffer[i]) = sync[l].buffer[i - 1]
               /\ sync[l].expected \subseteq Block
               /\ sync[l].forkParent \in Nat \cup {-1}
               /\ l \notin links => sync[l] = FreshSync /\ net[l] = << >>
    <3>1. sync[l] \in States /\ Joined(sync[l].headers) /\ Joined(sync[l].buffer)
      BY <2>1 DEF SyncTypes, StateRight
    <3>2. sync[l].phase \in {"null", "headers", "blocks"} /\ sync[l].expected \subseteq Block
          /\ sync[l].forkParent \in Nat \cup {-1}
      BY <3>1 DEF States
    <3> QED BY <2>1, <3>1, <3>2 DEF Joined, SyncTypes
  <2> QED BY <2>1, <2>2 DEF SyncTypeOK, SyncTypes
<1>2. SyncInit => missed \subseteq Pairs
  BY DEF SyncInit
<1>3. missed \subseteq Pairs /\ [SyncNext]_syncVars => (missed \subseteq Pairs)'
  BY MissedTyped
<1> QED
  BY <1>1, <1>2, <1>3, SyncInvariant, PTL DEF SyncSpec

(* Batches, locators and forks of honest peers that nothing has come       *)
(* between give no wrong verdict (misbehaving, handleHeadersResponse,      *)
(* handleBlocksResponse).                                                  *)
THEOREM UndisturbedHonest == SyncSpec => []UndisturbedNotBlamed
<1>1. SyncInv => UndisturbedNotBlamed
  BY DEF SyncInv, SyncTypes, UndisturbedRight, UndisturbedNotBlamed
<1> QED
  BY <1>1, SyncInvariant, PTL

(* A synchronisation that has begun waits for something that is on its     *)
(* way, whatever late answers come in between (requestHeaders).            *)
THEOREM WaitsForSomething == SyncSpec => []NobodyWaitsInVain
<1>1. SyncInv => NobodyWaitsInVain
  BY DEF SyncInv, Waits, Pending, Holds, NobodyWaitsInVain, OnTheWay
<1> QED
  BY <1>1, SyncInvariant, PTL

(* No node gives up its tip for a lighter one, whatever chain its headers  *)
(* were weighed against (finishHeaders, finishSync).                       *)
THEOREM TipsOnlyGain == SyncSpec => TipsGainWork
<1>1. SyncInv /\ [SyncNext]_syncVars =>
        [\A n \in Node : tip'[n] # tip[n] => Work[tip'[n]] > Work[tip[n]]]_syncVars
  BY NextSync DEF Heavier
<1> QED
  BY <1>1, SyncInvariant, PTL DEF SyncSpec, TipsGainWork
=============================================================================
