------------------------------ MODULE BestChain ------------------------------
(***************************************************************************)
(* What a node promises about its best chain, whatever it keeps to         *)
(* deliver it: it only ever moves to a linked chain from the same genesis  *)
(* with more total work, it never rewrites more than MAX_REORG_DEPTH       *)
(* blocks, and what it has at or below the last checkpoint stays.          *)
(***************************************************************************)
EXTENDS Integers, Sequences, Functions

CONSTANTS Block, Genesis, MAX_REORG_DEPTH, Checkpoints

VARIABLE best

Work(c) == SumFunction([i \in 1..Len(c) |-> c[i].work])

Linked(c) ==
  /\ Len(c) > 0 /\ c[1] = Genesis
  /\ \A i \in 2..Len(c) :
       /\ c[i].previousHash = c[i - 1].hash
       /\ c[i].index = i - 1

Meets(c) == \A cp \in Checkpoints : cp[1] \in 1..(Len(c) - 1) => c[cp[1] + 1].hash = cp[2]

Keeps(c, n) == n <= Len(c) /\ n <= Len(best) /\ \A i \in 1..n : c[i] = best[i]

\* The blocks of the best chain a step may not touch.
Buried == IF MAX_REORG_DEPTH = 0 THEN 1
          ELSE IF Len(best) <= MAX_REORG_DEPTH THEN 0 ELSE Len(best) - MAX_REORG_DEPTH
Pinned == {cp[1] + 1 : cp \in {p \in Checkpoints : p[1] < Len(best)}}

Init == best = <<Genesis>>

Advance ==
  /\ best' \in Seq(Block)
  /\ Linked(best')
  /\ Meets(best')
  /\ Work(best') > Work(best)
  /\ Keeps(best', Buried)
  /\ \A n \in Pinned : Keeps(best', n)

Spec == Init /\ [][Advance]_best
=============================================================================
