------------------------------ MODULE MCPeers ------------------------------
(* Two public nodes that may each dial the other, for TLC.                 *)
EXTENDS Peers

CONSTANTS n1, n2

MCNode == {n1, n2}
=============================================================================
