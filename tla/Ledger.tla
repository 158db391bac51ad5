------------------------------- MODULE Ledger -------------------------------
(***************************************************************************)
(* The transaction rules of src/transactions.js and the outpoint index of  *)
(* src/utxo.js, as pure operators.                                         *)
(*                                                                         *)
(* A transaction is its id: the id commits to inputs, outputs and lock     *)
(* time (serialization.js), so those are functions of it.  An outpoint is  *)
(* a pair <<transaction, output number>>, numbered from 0 as in the code;  *)
(* a coinbase names no transaction and carries the height in its place.    *)
(* Amount and address of an output are functions of its outpoint, so an    *)
(* entry of the uTxOut list keeps only the outpoint and the height of the  *)
(* block that made it (NoHeight for an output of an unconfirmed            *)
(* transaction: blockIndex = null).                                        *)
(*                                                                         *)
(* Signatures are outside the id.  Whether the inputs of a block are       *)
(* properly unlocked is a field of the block (see Chain).                  *)
(***************************************************************************)
EXTENDS Naturals, Integers, Sequences, FiniteSets, Functions

CONSTANTS
  Tx,                 \* transaction ids
  NoTx,               \* the empty txOutId of a coinbase input
  Address,            \* addresses
  TxIns,              \* TxIns[t]: the outpoints t spends, in order
  TxOuts,             \* TxOuts[t]: its outputs, [address, amount], in order
  LockTime,           \* LockTime[t], 0 when t is not locked
  TxSize,             \* TxSize[t], in bytes
  INITIAL_SUBSIDY, HALVING_INTERVAL, COINBASE_MATURITY,
  LOCKTIME_THRESHOLD, MAX_TXS_PER_BLOCK, MAX_BLOCK_BYTES

Outpoint == (Tx \cup {NoTx}) \X Nat

ASSUME TxAssumption ==
  /\ NoTx \notin Tx
  /\ TxIns \in [Tx -> Seq(Outpoint)]
  /\ TxOuts \in [Tx -> Seq([address : Address, amount : Nat])]
  /\ LockTime \in [Tx -> Nat]
  /\ TxSize \in [Tx -> Nat \ {0}]

(***************************************************************************)
(* A transaction with outputs has an input: amounts are positive           *)
(* (isAmountValid), so one without would fail the fee check of validateTx. *)
(***************************************************************************)
ASSUME NothingFromNothing ==
  \A t \in Tx : TxIns[t] = << >> => TxOuts[t] = << >>

ASSUME ParameterAssumption ==
  /\ INITIAL_SUBSIDY \in 0..(2^30 - 1)
  /\ HALVING_INTERVAL \in Nat \ {0}
  /\ COINBASE_MATURITY \in Nat
  /\ LOCKTIME_THRESHOLD \in Nat
  /\ MAX_TXS_PER_BLOCK \in Nat
  /\ MAX_BLOCK_BYTES \in Nat

Height == Nat
NoHeight == -1
UTxOut == [out : Tx \X Nat, height : Nat \cup {NoHeight}]

-----------------------------------------------------------------------------
(* Issuance. *)

\* The code pays 0 from the 64th halving on; an INITIAL_SUBSIDY below 2^30
\* (it is 10^9) has been floored to 0 since the 30th.
GetBlockSubsidy(blockIndex) ==
  LET halvings == blockIndex \div HALVING_INTERVAL
  IN  IF halvings >= 30 THEN 0 ELSE INITIAL_SUBSIDY \div (2^halvings)

\* Blocks 0..height, an epoch at a time (until an epoch pays nothing).
GetTotalSupply(height) ==
  LET inEpoch(e) == LET left == (height + 1) - e * HALVING_INTERVAL
                    IN  IF left <= 0 THEN 0
                        ELSE IF left < HALVING_INTERVAL THEN left
                        ELSE HALVING_INTERVAL
  IN  SumFunction([e \in 0..29 |-> inEpoch(e) * GetBlockSubsidy(e * HALVING_INTERVAL)])

-----------------------------------------------------------------------------
(* Inputs, outputs and what a list of transactions does to the uTxOuts. *)

Spends(t) == Range(TxIns[t])
Creates(t) == {<<t, n - 1>> : n \in DOMAIN TxOuts[t]}

SpentBy(txs) == UNION {Spends(txs[k]) : k \in DOMAIN txs}
CreatedBy(txs) == UNION {Creates(txs[k]) : k \in DOMAIN txs}

Outs(U) == {u.out : u \in U}
New(outs, height) == {[out |-> o, height |-> height] : o \in outs}

AmountOf(o) == TxOuts[o[1]][o[2] + 1].amount
AddressOf(o) == TxOuts[o[1]][o[2] + 1].address

IsCoinbaseTx(t) == Len(TxIns[t]) = 1 /\ TxIns[t][1][1] = NoTx

\* Fault: spent outputs are filtered out before the new ones are appended.
UpdateUTxOutsSpentFirst(txs, U, height) ==
  {u \in U : u.out \notin SpentBy(txs)} \cup New(CreatedBy(txs), height)

\* The new outputs are appended before the spent ones are filtered out, so
\* that an output made and spent by the same block does not survive.
UpdateUTxOuts(txs, U, height) ==
  {u \in U \cup New(CreatedBy(txs), height) : u.out \notin SpentBy(txs)}

\* What a block takes out of the set it is applied to: its undo data.
CollectConsumed(txs, U) == {u \in U : u.out \in SpentBy(txs)}

RollbackTxs(txs, U, consumed) ==
  {u \in U : u.out \notin CreatedBy(txs)} \cup consumed

-----------------------------------------------------------------------------
(* Validation. *)

\* The fee is fixed by the id, since the amounts of the inputs are.
GetTxFee(t) ==
  SumFunction([i \in DOMAIN TxIns[t] |-> AmountOf(TxIns[t][i])])
    - SumFunction([i \in DOMAIN TxOuts[t] |-> TxOuts[t][i].amount])

IsSpendable(u, spendHeight) ==
  \/ ~ IsCoinbaseTx(u.out[1])
  \/ u.height # NoHeight /\ spendHeight - u.height >= COINBASE_MATURITY

IsFinalTx(t, spendHeight, mtp) ==
  \/ LockTime[t] = 0
  \/ LockTime[t] < LOCKTIME_THRESHOLD /\ LockTime[t] <= spendHeight
  \/ LockTime[t] >= LOCKTIME_THRESHOLD /\ LockTime[t] <= mtp

ValidateTxIn(o, U, spendHeight) ==
  \E u \in U : u.out = o /\ IsSpendable(u, spendHeight)

ValidateTx(t, U, spendHeight, mtp) ==
  /\ IsFinalTx(t, spendHeight, mtp)
  /\ \A o \in Spends(t) : ValidateTxIn(o, U, spendHeight)
  /\ GetTxFee(t) >= 0

\* Fault: the amount is not checked.
ValidateCoinbaseTxAnyAmount(t, blockIndex, totalFees) ==
  /\ LockTime[t] = 0
  /\ Len(TxIns[t]) = 1
  /\ TxIns[t][1][2] = blockIndex
  /\ Len(TxOuts[t]) = 1

ValidateCoinbaseTx(t, blockIndex, totalFees) ==
  /\ LockTime[t] = 0
  /\ Len(TxIns[t]) = 1
  /\ TxIns[t][1][2] = blockIndex
  /\ Len(TxOuts[t]) = 1
  /\ TxOuts[t][1].amount = GetBlockSubsidy(blockIndex) + totalFees

NoDuplicateInputs(txs) ==
  /\ \A k \in DOMAIN txs : IsInjective(TxIns[txs[k]])
  /\ \A j, k \in DOMAIN txs : j # k => Spends(txs[j]) \cap Spends(txs[k]) = {}

(***************************************************************************)
(* The index transaction k of a block is validated against: the set before *)
(* the block, to which transactions 2..k-1 have been applied one by one.   *)
(* (The coinbase is not applied: its output is no input for its block.)    *)
(***************************************************************************)
SeenBy(k, txs, U, height) ==
  LET leftBy(outs, j) == {o \in outs : \A i \in (j + 1)..(k - 1) : o \notin Spends(txs[i])}
  IN  {u \in U : u.out \in leftBy(Outs(U), 1)}
        \cup UNION {New(leftBy(Creates(txs[j]), j), height) : j \in 2..(k - 1)}

ValidateBlockTxs(txs, U, blockIndex, mtp) ==
  /\ txs # << >>
  /\ Len(txs) <= MAX_TXS_PER_BLOCK
  /\ SumFunction([k \in DOMAIN txs |-> TxSize[txs[k]]]) <= MAX_BLOCK_BYTES
  /\ NoDuplicateInputs(txs)
  /\ IsInjective(txs)
  /\ \A k \in 2..Len(txs) :
       ValidateTx(txs[k], SeenBy(k, txs, U, blockIndex), blockIndex, mtp)
  /\ ValidateCoinbaseTx(txs[1], blockIndex,
                        SumFunction([k \in 2..Len(txs) |-> GetTxFee(txs[k])]))
=============================================================================
