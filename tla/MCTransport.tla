---------------------------- MODULE MCTransport ----------------------------
(* One connection, for TLC: the modes are chosen at the start.             *)
EXTENDS Transport
=============================================================================
