--------------------------- MODULE MCIndexedChain ---------------------------
(***************************************************************************)
(* A small tree of blocks for TLC.  A block's hash is the path of options  *)
(* from genesis, so hashes commit to ancestors.  The options put the same  *)
(* transactions, conflicting ones and chained ones on competing branches   *)
(* at different heights and weights; the variants are blocks a peer may    *)
(* send in their place.                                                    *)
(***************************************************************************)
EXTENDS IndexedChain

CONSTANTS alice, bob

MCAddress == {alice, bob}
MCNoTx == <<"no", 0, 0>>
MCNoUndo == {[null |-> TRUE]}
MCMaturity == 2
MCThreshold == 20

\* Subsidies 8, 8, 4, 4, 2, 2, ...
Cb(h, fee) == <<"cb", h, fee>>
tA == <<"tA", 0, 0>>
tB == <<"tB", 0, 0>>
tC == <<"tC", 0, 0>>
tD == <<"tD", 0, 0>>
tE == <<"tE", 0, 0>>
tF == <<"tF", 0, 0>>
tG == <<"tG", 0, 0>>
tN == <<"tN", 0, 0>>
\* First transactions of a block at height 3 that name an output: one of tA
\* that is there, one of tF that may come later.
tZ == <<"tZ", 3, 0>>
tY == <<"tY", 3, 0>>
Coinbases == {Cb(h, fee) : h \in 0..5, fee \in 0..4}
MCTx == Coinbases \cup {tA, tB, tC, tD, tE, tF, tG, tN, tY, tZ}

Pay(address, amount) == [address |-> address, amount |-> amount]

MCTxIns == [t \in MCTx |->
  CASE t \in Coinbases -> <<<<MCNoTx, t[2]>>>>
    [] t = tZ -> <<<<tA, 3>>>>
    [] t = tY -> <<<<tF, 3>>>>
    [] t \in {tA, tB} -> <<<<Cb(0, 0), 0>>>>
    [] t \in {tC, tF} -> <<<<tA, 0>>>>
    [] t = tD -> <<<<tA, 1>>, <<tC, 0>>>>
    [] t = tE -> <<<<tC, 0>>>>
    [] t = tG -> <<<<Cb(2, 1), 0>>>>
    [] t = tN -> << >>]

MCTxOuts == [t \in MCTx |->
  CASE t \in Coinbases \cup {tY, tZ} -> <<Pay(alice, 8 \div (2^(t[2] \div 2)) + t[3])>>
    [] t = tA -> <<Pay(bob, 4), Pay(alice, 1), Pay(bob, 1), Pay(alice, 1)>>
    [] t = tB -> <<Pay(bob, 7)>>
    [] t = tC -> <<Pay(alice, 3)>>
    [] t = tD -> <<Pay(bob, 3)>>
    [] t \in {tE, tN} -> << >>
    [] t = tF -> [i \in 1..4 |-> Pay(bob, 1)]
    [] t = tG -> <<Pay(alice, 2), Pay(bob, 2)>>]

\* tC from height 3 on, tD once the median time is 22.
MCLockTime == [t \in MCTx |-> IF t = tC THEN 3 ELSE IF t = tD THEN 22 ELSE 0]
MCTxSize == [t \in MCTx |-> 1]

Fee(txs) == SumFunction([k \in DOMAIN txs |-> GetTxFee(txs[k])])

Txs(option) ==
  CASE option = "A" -> <<tA>>
    [] option = "B" -> <<tB>>
    [] option = "C" -> <<tC>>
    [] option = "D" -> <<tD>>
    [] option = "E" -> <<tE>>
    [] option = "F" -> <<tF>>
    [] option = "G" -> <<tG>>
    [] option = "N" -> <<tN>>
    [] option = "K" -> <<tC, tE>>
    [] OTHER -> << >>

First(option, h, fee) == CASE option = "Y" -> tY [] option = "Z" -> tZ [] OTHER -> Cb(h, fee)

WorkOf(option) == CASE option = "X" -> 4 [] option = "H" -> 3 [] option = "F" -> 2 [] OTHER -> 1

\* The block at the end of a path; its clock is one tick after its parent's.
GoodBlock(path) ==
  LET h == Len(path)
      txs == Txs(path[h])
  IN  [hash |-> path, previousHash |-> SubSeq(path, 1, h - 1), index |-> h,
       timestamp |-> 20 + h, work |-> WorkOf(path[h]),
       data |-> <<First(path[h], h, Fee(txs))>> \o txs,
       headerOk |-> TRUE, merkleOk |-> TRUE, signed |-> TRUE]

MCGenesis ==
  [hash |-> << >>, previousHash |-> <<"none">>, index |-> 0, timestamp |-> 20, work |-> 1,
   data |-> <<Cb(0, 0)>>, headerOk |-> TRUE, merkleOk |-> TRUE, signed |-> TRUE]

\* unsigned: the same hash over other signatures.  swapped: the same hash
\* over other transactions.  forged: a header that fails its checks.  early:
\* a timestamp not after the median.  late: one ahead of the slower clock.
\* greedy: a coinbase that pays one too much.
Variant(b, kind) ==
  CASE kind = "unsigned" -> [b EXCEPT !.signed = FALSE]
    [] kind = "swapped" -> [b EXCEPT !.merkleOk = FALSE, !.data = <<Cb(b.index, 0)>>]
    [] kind = "forged" -> [b EXCEPT !.headerOk = FALSE]
    [] kind = "early" -> [b EXCEPT !.hash = @ \o <<"early">>, !.timestamp = 20]
    [] kind = "late" -> [b EXCEPT !.hash = @ \o <<"late">>, !.timestamp = 28]
    [] kind = "greedy" -> [b EXCEPT !.hash = @ \o <<"greedy">>,
                                    !.data = <<Cb(b.index, 3)>> \o Tail(b.data)]

Kinds == {"unsigned", "swapped", "forged", "early", "late", "greedy"}

Leaves == {<<"H", "A">>, <<"e", "B">>,
           <<"e", "A", "C", "e", "D">>, <<"e", "A", "C", "E", "e">>,
           <<"e", "A", "C", "F">>, <<"e", "A", "C", "C">>,
           <<"e", "A", "K", "G", "X">>, <<"e", "A", "F", "e">>,
           <<"e", "A", "e", "C", "D">>, <<"e", "A", "Z", "C">>, <<"e", "A", "Y", "F">>,
           <<"e", "A", "G">>, <<"e", "A", "X">>}

Paths == UNION {{SubSeq(p, 1, n) : n \in 1..Len(p)} : p \in Leaves}
Spoiled == {<<"H">>, <<"e", "A">>, <<"e", "A", "C">>}

VariantBlocks == {Variant(GoodBlock(p), kind) : p \in Spoiled, kind \in Kinds}
MCBlock == {MCGenesis} \cup {GoodBlock(p) : p \in Paths} \cup VariantBlocks

ChainOf(path) == <<MCGenesis>> \o [i \in 1..Len(path) |-> GoodBlock(SubSeq(path, 1, i))]

\* Every good chain, and chains with one block replaced by a variant.
MCCandidates ==
  {<< >>, <<MCGenesis>>, <<GoodBlock(<<"H">>)>>}
    \cup {ChainOf(p) : p \in Paths}
    \cup {[ChainOf(p) EXCEPT ![Len(p) + 1] = Variant(@, kind)] : p \in Spoiled, kind \in Kinds}
    \cup {[ChainOf(p) EXCEPT ![3] = Variant(@, "unsigned")] :
            p \in {q \in Paths : Len(q) > 2 /\ q[2] = "A"}}

(* Branches with a transaction that spends and makes nothing, twice.       *)
EmptyPaths == {<<"N">>, <<"N", "N">>, <<"N", "X">>}
EmptyBlock == {MCGenesis} \cup {GoodBlock(p) : p \in EmptyPaths}
EmptyCandidates == {ChainOf(p) : p \in EmptyPaths}

MCClock == {25, 30}

OneCheckpoint == {<<2, <<"e", "A">>>>}
TwoCheckpoints == {<<2, <<"e", "A">>>>, <<4, <<"e", "A", "C", "E">>>>}
=============================================================================
