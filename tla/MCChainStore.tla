---------------------------- MODULE MCChainStore ----------------------------
(***************************************************************************)
(* A tree of blocks for TLC with lines of two and three cells, a spend on  *)
(* both branches, and one block that only the faster clock accepts.        *)
(***************************************************************************)
EXTENDS ChainStore

CONSTANTS alice, bob

MCAddress == {alice, bob}
MCNoTx == <<"no", 0, 0>>
MCNoUndo == {[null |-> TRUE]}
MCNoSnapshot == [none |-> TRUE]
MCMaturity == 1
MCThreshold == 20

Cb(h) == <<"cb", h, 0>>
tA == <<"tA", 0, 0>>
MCTx == {Cb(h) : h \in 0..4} \cup {tA}

Pay(address, amount) == [address |-> address, amount |-> amount]
MCTxIns == [t \in MCTx |-> IF t = tA THEN <<<<Cb(0), 0>>>> ELSE <<<<MCNoTx, t[2]>>>>]
MCTxOuts == [t \in MCTx |-> IF t = tA THEN <<Pay(bob, 4)>> ELSE <<Pay(alice, 4)>>]
MCLockTime == [t \in MCTx |-> 0]
MCTxSize == [t \in MCTx |-> 1]

WorkOf(option) == CASE option = "H" -> 3 [] OTHER -> 1

MCGenesis ==
  [hash |-> << >>, previousHash |-> <<"none">>, index |-> 0, timestamp |-> 20, work |-> 1,
   data |-> <<Cb(0)>>, headerOk |-> TRUE, merkleOk |-> TRUE, signed |-> TRUE]

\* A block's hash is its path from genesis.  "L": ahead of the slower clock.
GoodBlock(path) ==
  LET h == Len(path)
  IN  [hash |-> path, previousHash |-> SubSeq(path, 1, h - 1), index |-> h,
       timestamp |-> IF path[h] = "L" THEN 28 ELSE 20 + h, work |-> WorkOf(path[h]),
       data |-> <<Cb(h)>> \o (IF path[h] = "A" THEN <<tA>> ELSE << >>),
       headerOk |-> TRUE, merkleOk |-> TRUE, signed |-> TRUE]

Leaves == {<<"e", "A", "e", "L">>, <<"e", "A", "H">>, <<"A", "H">>}
Paths == UNION {{SubSeq(p, 1, n) : n \in 1..Len(p)} : p \in Leaves}
ChainOf(path) == <<MCGenesis>> \o [i \in 1..Len(path) |-> GoodBlock(SubSeq(path, 1, i))]

MCBlock == {MCGenesis} \cup {GoodBlock(p) : p \in Paths}
MCCandidates == {ChainOf(p) : p \in Leaves}
MCClock == {25, 30}
MCLineCells == [b \in MCBlock |-> IF Len(b.data) = 2 THEN 3 ELSE 2]
=============================================================================
