------------------------------ MODULE MCMining ------------------------------
(***************************************************************************)
(* Two loops of the automatic miner, one request and two workers.          *)
(***************************************************************************)
EXTENDS Mining

CONSTANTS l1, l2, h1, w1, w2

MCLoop == {l1, l2}
MCCaller == {h1}
MCWorker == {w1, w2}
=============================================================================
