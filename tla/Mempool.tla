------------------------------- MODULE Mempool -------------------------------
(***************************************************************************)
(* The pool of unconfirmed transactions, src/memPool.js.                   *)
(*                                                                         *)
(* The chain is a parameter of the operations, as it is of the functions   *)
(* in the code: U the confirmed uTxOuts, spendHeight the height of the     *)
(* next block, mtp the median time past of the tip.                        *)
(*                                                                         *)
(* addToMempool runs to its end, but makes room in a loop that changes the *)
(* pool and may still refuse; it is a sequence of steps here, "adding" the *)
(* transaction it is in the middle of.                                     *)
(***************************************************************************)
EXTENDS Ledger, SequencesExt

CONSTANTS
  MAX_MEMPOOL_SIZE, MAX_MEMPOOL_BYTES, MIN_RELAY_FEE_RATE, MAX_REPLACED,
  COINBASE_RESERVE    \* bytes a template leaves free for its coinbase

ASSUME PoolAssumption ==
  /\ MAX_MEMPOOL_SIZE \in Nat \ {0} /\ MAX_MEMPOOL_BYTES \in Nat \ {0}
  /\ MIN_RELAY_FEE_RATE \in Nat \ {0}
  /\ MAX_REPLACED \in Nat
  /\ COINBASE_RESERVE \in 0..MAX_BLOCK_BYTES /\ MAX_TXS_PER_BLOCK # 0

VARIABLES
  mempool,            \* transactions in the order of their admission
  meta,               \* those whose size and fee are on record
  announced,          \* the pool as the listeners of onChange last saw it
  adding              \* the transaction addToMempool makes room for, or NoTx

poolVars == <<mempool, meta, announced, adding>>

Pool == Range(mempool)

\* Those of txs that are in keep, in their order.  (Not with SelectSeq, whose
\* definition the proofs cannot expand.)
Only(txs, keep) ==
  LET places == {i \in DOMAIN txs : txs[i] \in keep}
      rank(i) == Cardinality({j \in places : j <= i})
  IN  [k \in 1..Cardinality(places) |-> txs[CHOOSE i \in places : rank(i) = k]]

\* metaOf: a transaction without a record counts with a fee of 0.
MetaFee(t) == IF t \in meta THEN GetTxFee(t) ELSE 0

PoolBytes(txs) == SumFunction([i \in DOMAIN txs |-> TxSize[txs[i]]])

\* MetaFee(a) / size(a) < fee / size.
Cheaper(a, fee, size) == MetaFee(a) * size < fee * TxSize[a]

\* getSpendableUTxOuts, for the transactions txs of the pool.
SpendableWith(txs, U) == UpdateUTxOuts(txs, U, NoHeight)

-----------------------------------------------------------------------------
(* Families of transactions. *)

ConflictingTxs(t) == {o \in Pool : Spends(o) \cap Spends(t) # {}}

\* Fault: the children go, the grandchildren stay.
WithChildren(txs) == txs \cup {t \in Pool : \E o \in Spends(t) : o[1] \in txs}

\* The least set with txs that has every transaction of the pool which
\* spends an output of a member.
WithDescendants(txs) ==
  LET closed(S) == \A t \in Pool : (\E o \in Spends(t) : o[1] \in S) => t \in S
      families == {S \in SUBSET Pool : txs \subseteq S /\ closed(S)}
  IN  {t \in Pool : \A S \in families : t \in S}

Parents(t, txs) == {p \in txs : Creates(p) \cap Spends(t) # {}}

\* ancestorsOf: t and those of txs its inputs lead back to.
Ancestors(t, txs) ==
  LET parents == [s \in txs |-> Parents(s, txs)]
      families == {S \in SUBSET txs : t \in S /\ \A s \in S : parents[s] \subseteq S}
  IN  {a \in txs : \A S \in families : a \in S}

-----------------------------------------------------------------------------
(* updateMempool. *)

(***************************************************************************)
(* Going through the pool in order, a transaction stays if its inputs are  *)
(* confirmed outputs or outputs of one that stays before it: the places    *)
(* that stay are the largest set with that property.                       *)
(***************************************************************************)
PlacesKept(U) ==
  LET stays(i, K) ==
        \A o \in Spends(mempool[i]) :
          o \in Outs(U) \/ \E j \in K : j < i /\ o \in Creates(mempool[j])
  IN  UNION {K \in SUBSET DOMAIN mempool : \A i \in K : stays(i, K)}

\* Fault: the records of dropped transactions stay.
UpdateMempoolKeepingRecords(U) ==
  /\ mempool' = Only(mempool, {mempool[i] : i \in PlacesKept(U)})
  /\ UNCHANGED meta
  /\ announced' = IF mempool' # mempool THEN mempool' ELSE announced

UpdateMempool(U) ==
  /\ mempool' = Only(mempool, {mempool[i] : i \in PlacesKept(U)})
  /\ IF mempool' # mempool
     THEN meta' = meta \cap Range(mempool') /\ announced' = mempool'
     ELSE UNCHANGED <<meta, announced>>

-----------------------------------------------------------------------------
(* addToMempool. *)

\* Fault: the descendants that go are not paid for.
CheckReplacementOfConflicts(t, conflicts, evicted) ==
  LET size == TxSize[t]
      fee == GetTxFee(t)
  IN  /\ Cardinality(evicted) <= MAX_REPLACED
      /\ \A o \in conflicts : Cheaper(o, fee, size)
      /\ fee >= SumFunction([o \in conflicts |-> MetaFee(o)]) + size * MIN_RELAY_FEE_RATE

(***************************************************************************)
(* checkReplacement: a dearer rate than every conflicting transaction, and *)
(* at least what all the evicted ones pay and the newcomer's own relay.    *)
(***************************************************************************)
CheckReplacement(t, conflicts, evicted) ==
  LET size == TxSize[t]
      fee == GetTxFee(t)
  IN  /\ Cardinality(evicted) <= MAX_REPLACED
      /\ \A o \in conflicts : Cheaper(o, fee, size)
      /\ fee >= SumFunction([o \in evicted |-> MetaFee(o)]) + size * MIN_RELAY_FEE_RATE

\* addToMempool(t) does not throw before it makes room.
Admissible(t, U, spendHeight, mtp) ==
  LET conflicts == ConflictingTxs(t)
      evicted == WithDescendants(conflicts)
      survivors == Only(mempool, Pool \ evicted)
  IN  /\ ValidateTx(t, SpendableWith(survivors, U), spendHeight, mtp)
      /\ GetTxFee(t) >= MIN_RELAY_FEE_RATE * TxSize[t]
      /\ conflicts # {} => CheckReplacement(t, conflicts, evicted)

(***************************************************************************)
(* addToMempool(t), up to the loop that makes room.  t carries signatures  *)
(* for the outputs it spends.                                              *)
(***************************************************************************)
BeginAdd(t, U, spendHeight, mtp) ==
  /\ adding = NoTx
  /\ Admissible(t, U, spendHeight, mtp)
  /\ LET evicted == WithDescendants(ConflictingTxs(t))
     IN  /\ mempool' = Only(mempool, Pool \ evicted)
         /\ meta' = meta \ evicted
  /\ adding' = t
  /\ UNCHANGED announced

\* Fault: the newcomer is not counted.
HasRoomNow(t) ==
  /\ PoolBytes(mempool) + TxSize[t] <= MAX_MEMPOOL_BYTES
  /\ Len(mempool) <= MAX_MEMPOOL_SIZE

HasRoom(t) ==
  /\ PoolBytes(mempool) + TxSize[t] <= MAX_MEMPOOL_BYTES
  /\ Len(mempool) + 1 <= MAX_MEMPOOL_SIZE

\* The first of the transactions with the lowest fee rate.
IsWorst(w) ==
  \E i \in DOMAIN mempool :
    /\ w = mempool[i]
    /\ \A j \in DOMAIN mempool : ~ Cheaper(mempool[j], MetaFee(w), TxSize[w])
    /\ \A j \in 1..(i - 1) : Cheaper(w, MetaFee(mempool[j]), TxSize[mempool[j]])

(* One turn of the loop of makeRoomFor. *)
EvictWorst ==
  /\ adding # NoTx
  /\ ~ HasRoom(adding)
  /\ \E w \in Pool :
       /\ IsWorst(w)
       /\ Cheaper(w, GetTxFee(adding), TxSize[adding])
       /\ mempool' = Only(mempool, Pool \ WithDescendants({w}))
       /\ meta' = meta \ WithDescendants({w})
  /\ UNCHANGED <<announced, adding>>

(* makeRoomFor throws. *)
RefuseForRoom ==
  /\ adding # NoTx
  /\ ~ HasRoom(adding)
  /\ \A w \in Pool : IsWorst(w) => ~ Cheaper(w, GetTxFee(adding), TxSize[adding])
  /\ adding' = NoTx
  /\ UNCHANGED <<mempool, meta, announced>>

Admit ==
  /\ adding # NoTx
  /\ HasRoom(adding)
  /\ mempool' = Append(mempool, adding)
  /\ meta' = meta \cup {adding}
  /\ announced' = mempool'
  /\ adding' = NoTx

-----------------------------------------------------------------------------
(* selectTxsForBlock and the block template. *)

\* Fault: maturity is not looked at again.
CandidateTxsAll(U, spendHeight) == mempool

\* Transactions that spend a confirmed coinbase too early are passed over.
CandidateTxs(U, spendHeight) ==
  Only(mempool, {t \in Pool : \A u \in U : u.out \in Spends(t) => IsSpendable(u, spendHeight)})

\* getTxFee when outputs that are not among "known" count as nothing.
FeeFrom(t, known) ==
  LET amount(o) == IF o \in known THEN AmountOf(o) ELSE 0
  IN  SumFunction([i \in DOMAIN TxIns[t] |-> amount(TxIns[t][i])])
        - SumFunction([i \in DOMAIN TxOuts[t] |-> TxOuts[t][i].amount])

\* The members of S in an order given as the pairs of one ahead of the
\* other: the k-th has k - 1 ahead of it.
InOrder(S, ahead) ==
  [k \in 1..Cardinality(S) |->
     CHOOSE x \in S : Cardinality({y \in S : <<y, x>> \in ahead}) = k - 1]

(***************************************************************************)
(* The candidates by the fee rate of a transaction together with its       *)
(* ancestors, highest first, ties in the order of the pool.                *)
(***************************************************************************)
ByPackageRate(txs, U) ==
  LET known == Outs(U) \cup CreatedBy(txs)
      score(i) ==
        LET package == Ancestors(txs[i], Range(txs))
        IN  [at |-> i,
             fee |-> SumFunction([a \in package |-> FeeFrom(a, known)]),
             size |-> SumFunction([a \in package |-> TxSize[a]])]
      scored == {score(i) : i \in DOMAIN txs}
      ahead == {p \in scored \X scored :
                  LET a == p[1]  b == p[2]
                  IN  \/ a.fee * b.size > b.fee * a.size
                      \/ a.fee * b.size = b.fee * a.size /\ a.at < b.at}
      order == InOrder(scored, ahead)
  IN  [k \in DOMAIN txs |-> txs[order[k].at]]

\* The members of S that are in txs, parents first.  (Which parent of two
\* comes first makes no difference to a block.)
ParentsFirst(S, txs) ==
  LET place(i) == [at |-> i, generation |-> Cardinality(Ancestors(txs[i], Range(txs)))]
      places == {place(i) : i \in {j \in DOMAIN txs : txs[j] \in S}}
      before == {p \in places \X places :
                   \/ p[1].generation < p[2].generation
                   \/ p[1].generation = p[2].generation /\ p[1].at < p[2].at}
      order == InOrder(places, before)
  IN  [k \in DOMAIN order |-> txs[order[k].at]]

\* t with those of its ancestors that are not in yet, or nothing.
Take(selected, t, txs, maxTxs, maxBytes) ==
  LET more == selected \o ParentsFirst(Ancestors(t, Range(txs)) \ Range(selected), txs)
  IN  IF Len(more) <= maxTxs /\ PoolBytes(more) <= maxBytes THEN more ELSE selected

SelectTxsForBlock(U, spendHeight, maxTxs, maxBytes) ==
  LET txs == CandidateTxs(U, spendHeight)
      order == ByPackageRate(txs, U)
      selected[k \in 0..Len(txs)] ==
        IF k = 0 THEN << >> ELSE Take(selected[k - 1], order[k], txs, maxTxs, maxBytes)
  IN  IF maxTxs <= 0 \/ maxBytes <= 0 THEN << >> ELSE selected[Len(txs)]

\* mineTemplate: the transactions after the coinbase.
Template(U, spendHeight) ==
  SelectTxsForBlock(U, spendHeight, MAX_TXS_PER_BLOCK - 1, MAX_BLOCK_BYTES - COINBASE_RESERVE)

\* sumBlockFees: in the order of the block; spent outputs are unknown again.
SumBlockFees(txs, U) ==
  LET known(k) == {o \in Outs(U) \cup CreatedBy(SubSeq(txs, 1, k - 1)) :
                     o \notin SpentBy(SubSeq(txs, 1, k - 1))}
  IN  SumFunction([k \in DOMAIN txs |-> FeeFrom(txs[k], known(k))])
=============================================================================
