----------------------------- MODULE MCWallet -----------------------------
(* One wallet, for TLC: two mnemonics, a gap of two keys.                *)
EXTENDS Wallet, TLC

(* Families of behaviours: payments that build on each other, enough keys  *)
(* for a gap within them, and a write that fails with a passphrase or with *)
(* a payment.                                                              *)
WalletBounds ==
  {[keys |-> 3, coins |-> 3, faults |-> 0, sealing |-> FALSE],
   [keys |-> 4, coins |-> 2, faults |-> 0, sealing |-> FALSE],
   [keys |-> 3, coins |-> 1, faults |-> 1, sealing |-> TRUE],
   [keys |-> 3, coins |-> 2, faults |-> 1, sealing |-> FALSE]}

Interchangeable == Permutations(Mnemonics) \cup Permutations(Passphrases)
=============================================================================
