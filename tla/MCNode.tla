------------------------------- MODULE MCNode -------------------------------
(***************************************************************************)
(* A tree of blocks and a family of pending transactions for TLC: two that *)
(* conflict, a child and two conflicting grandchildren, one that is locked *)
(* until height 3, one that spends a young coinbase and its child.         *)
(***************************************************************************)
EXTENDS Node

CONSTANTS alice, bob

MCAddress == {alice, bob}
MCNoTx == <<"no", 0, 0>>
MCNoUndo == {[null |-> TRUE]}
MCMaturity == 2
MCThreshold == 20

Cb(h, fee) == <<"cb", h, fee>>
Spend(name) == <<name, 0, 0>>
ta == Spend("a")
tb == Spend("b")
tc == Spend("c")
td == Spend("d")
tf == Spend("f")
tk == Spend("k")
tl == Spend("l")
tm == Spend("m")
Coinbases == {Cb(h, fee) : h \in 0..4, fee \in 0..12}
MCTx == Coinbases \cup {ta, tb, tc, td, tf, tk, tl, tm}

Pay(address, amount) == [address |-> address, amount |-> amount]

MCTxIns == [t \in MCTx |->
  CASE t \in Coinbases -> <<<<MCNoTx, t[2]>>>>
    [] t \in {ta, tb} -> <<<<Cb(0, 0), 0>>>>
    [] t = tc -> <<<<ta, 0>>>>
    [] t \in {td, tm} -> <<<<tc, 0>>>>
    [] t = tf -> <<<<Cb(1, 0), 0>>>>
    [] t = tk -> <<<<tf, 0>>>>
    [] t = tl -> <<<<ta, 1>>>>]

\* Fees: a 1, b 5, c 1, d 3 (for two bytes), f 2, k 1, l 1, m 4.
MCTxOuts == [t \in MCTx |->
  CASE t \in Coinbases -> <<Pay(alice, 12 + t[3])>>
    [] t = ta -> <<Pay(bob, 6), Pay(alice, 5)>>
    [] t = tb -> <<Pay(bob, 7)>>
    [] t = tc -> <<Pay(alice, 5)>>
    [] t = td -> <<Pay(bob, 2)>>
    [] t = tf -> <<Pay(bob, 10)>>
    [] t = tk -> <<Pay(bob, 9)>>
    [] t = tl -> <<Pay(bob, 4)>>
    [] t = tm -> <<Pay(bob, 1)>>]

MCLockTime == [t \in MCTx |-> IF t = tl THEN 3 ELSE 0]
MCTxSize == [t \in MCTx |-> IF t = td THEN 2 ELSE 1]

Fee(txs) == SumFunction([k \in DOMAIN txs |-> GetTxFee(txs[k])])

Txs(option) ==
  CASE option = "A" -> <<ta>>
    [] option \in {"B", "Y"} -> <<tb>>
    [] option = "C" -> <<tc>>
    [] OTHER -> << >>

WorkOf(option) == CASE option = "H" -> 4 [] option \in {"X", "Y"} -> 3 [] OTHER -> 1

MCGenesis ==
  [hash |-> << >>, previousHash |-> <<"none">>, index |-> 0, timestamp |-> 20, work |-> 1,
   data |-> <<Cb(0, 0)>>, headerOk |-> TRUE, merkleOk |-> TRUE, signed |-> TRUE]

GoodBlock(path) ==
  LET h == Len(path)
      txs == Txs(path[h])
  IN  [hash |-> path, previousHash |-> SubSeq(path, 1, h - 1), index |-> h,
       timestamp |-> 20 + h, work |-> WorkOf(path[h]),
       data |-> <<Cb(h, Fee(txs))>> \o txs,
       headerOk |-> TRUE, merkleOk |-> TRUE, signed |-> TRUE]

Leaves == {<<"e", "A", "C">>, <<"e", "B">>, <<"e", "e", "e">>,
           <<"H">>, <<"e", "X">>, <<"e", "Y">>}

Paths == UNION {{SubSeq(p, 1, n) : n \in 1..Len(p)} : p \in Leaves}

ChainOf(path) == <<MCGenesis>> \o [i \in 1..Len(path) |-> GoodBlock(SubSeq(path, 1, i))]

MCBlock == {MCGenesis} \cup {GoodBlock(p) : p \in Paths}

\* The branches that can win; the last is refused.
MCCandidates == {ChainOf(p) : p \in {<<"H">>, <<"e", "X">>, <<"e", "Y">>, <<"e", "B">>}}

\* One branch, for the runs about a full pool.
OneCandidate == {ChainOf(<<"e", "X">>)}
OneBranch == {MCGenesis} \cup {GoodBlock(p) : p \in {<<"e">>, <<"e", "A">>, <<"e", "X">>}}

MCClock == {30}
=============================================================================
