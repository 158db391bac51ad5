------------------------------ MODULE MCScript ------------------------------
(***************************************************************************)
(* Scripts for TLC: the standard ones with whatever may be offered to      *)
(* them, every short script of branches, and some that meet the limits.    *)
(***************************************************************************)
EXTENDS Script

CONSTANTS k1, k2, k3

True == Bytes(<<1>>)
False == Bytes(<< >>)
MinusZero == Bytes(<<0, HALF>>)
Few(items, n) == BoundedSeq(items, n)

Family(contracts, unlocks, lockTimes) ==
  [contracts |-> contracts, unlocks |-> unlocks, lockTimes |-> lockTimes]

Multisigs ==
  {[type |-> "multisig", m |-> 2, keys |-> <<k1, k2, k3>>], [type |-> "multisig", m |-> 1, keys |-> <<k1, k2>>],
   [type |-> "multisig", m |-> 2, keys |-> <<k1, k2, k1>>]}
Timelocks == {[type |-> "timelock", lock |-> t, key |-> k1] : t \in {100, 600, 3000}}
Htlcs == {[type |-> "htlc", receiver |-> k1, sender |-> k2, lock |-> t] : t \in {100, 600}}
LockTimes == {0, 99, 100, 600, 5000}

Custom(ops) == [type |-> "custom", ops |-> ops]
One == Num(1)
Times(n, ops) == FlattenSeq([i \in 1 .. n |-> ops])
Branching == {Code("IF"), Code("NOTIF"), Code("ELSE"), Code("ENDIF"), One}
AtLimits ==
  {Times(5, <<Code("DUP"), Code("DROP")>>), Times(8, <<One>>), Times(7, <<Code("DUP")>>),
   <<Push(Pub(k1)), Code("CHECKSIGVERIFY")>> \o Multisig(1, <<k1, k2, k3>>),
   <<Push(Pub(k1)), Code("CHECKSIG"), Code("VERIFY")>> \o Multisig(1, <<k1, k2>>),
   Front(Multisig(1, <<k1, k2>>)) \o <<Code("CHECKMULTISIGVERIFY")>> \o Multisig(1, <<k1>>),
   Multisig(1, <<k1, k2, k3>>) \o <<Code("VERIFY")>> \o Multisig(1, <<k1>>),
   <<Code("CHECKMULTISIG")>>, <<Code("CHECKSIG")>>, <<Code("EQUAL")>>, <<Code("CHECKLOCKTIMEVERIFY")>>,
   <<Code("SHA256"), Push(Sha256(Secret)), Code("EQUAL")>>}

MCFamilies ==
  {Family(Multisigs, Few({Sig(k1), Sig(k2), Sig(k3), Pub(k1)}, 3), {0}),
   Family({[type |-> "p2pkh", key |-> k1]}, Few({Sig(k1), Sig(k2), Pub(k1), Pub(k2), True}, 3), {0}),
   Family(Timelocks, Few({Sig(k1), Pub(k1), Pub(k2)}, 3), LockTimes),
   Family(Htlcs, Few({Sig(k1), Pub(k1), Sig(k2), Pub(k2), Secret, True, MinusZero}, 4), LockTimes),
   Family({Custom(ops) : ops \in Few(Branching, 5)}, Few({True, False}, 2), {0}),
   Family({Custom(ops) : ops \in AtLimits}, Few({Sig(k1), Secret, True}, 2) \cup {Times(8, <<True>>)}, {0})}

MCNow == [height : {99, 100}, mtp : {599, 600, 5000}]
MCNumbers == -300 .. 300
MCLengths == {0, 1, 2, 75, 76, 255}
=============================================================================
