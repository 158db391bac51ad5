------------------------------- MODULE MCSync -------------------------------
(***************************************************************************)
(* A tree of blocks for TLC: a chain of three and a single block beside    *)
(* it, heavier than two of the chain and lighter than three.               *)
(***************************************************************************)
EXTENDS Sync

CONSTANTS n1, n2

MCNode == {n1, n2}
MCDials == {<<n1, n2>>}
MCGenesis == "g"
MCChain == [g  |-> <<"g">>,
            a1 |-> <<"g", "a1">>,
            a2 |-> <<"g", "a1", "a2">>,
            a3 |-> <<"g", "a1", "a2", "a3">>,
            h2 |-> <<"g", "a1", "h2">>]
MCBlock == DOMAIN MCChain
MCWork == [g |-> 1, a1 |-> 3, a2 |-> 5, h2 |-> 6, a3 |-> 7]
MCSize == [g |-> 1, a1 |-> 2, a2 |-> 3, h2 |-> 3, a3 |-> 4]
=============================================================================
