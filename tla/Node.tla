-------------------------------- MODULE Node --------------------------------
(***************************************************************************)
(* The chain and the pool together: src/blockchain.js calls the pool       *)
(* whenever the chain moves.  A block that is added and a reorganisation   *)
(* filter the pool in the same run of the handler; a reorganisation then   *)
(* offers the transactions of the blocks it took back, one after the       *)
(* other, to addToMempool.  None of this is interrupted: the next handler  *)
(* starts when "phase" is "idle", "queue" is empty and "adding" is NoTx.   *)
(***************************************************************************)
EXTENDS Chain, Mempool

VARIABLE queue        \* what reinstateTxs has still to offer

nodeVars == <<vars, poolVars, queue>>

Settled == phase = "idle" /\ adding = NoTx /\ queue = << >>

NextHeight == Tip(blockchain).index + 1
TipMedianTime == MedianTimePast(blockchain)

\* The transactions of the old blocks that are in none of the new ones.
CollectOrphanedTxs(old, new) ==
  LET kept == UNION {Range(new[i].data) : i \in DOMAIN new}
      taken(b) == Only(b.data, {t \in Range(b.data) : ~ IsCoinbaseTx(t) /\ t \notin kept})
  IN  FlattenSeq([i \in DOMAIN old |-> taken(old[i])])

NodeInit ==
  /\ Init
  /\ mempool = << >> /\ meta = {} /\ announced = << >> /\ adding = NoTx
  /\ queue = << >>

(* addBlockToChain *)
NodeAddBlock(b, now) ==
  /\ Settled
  /\ AddBlockToChain(b, now)
  /\ UpdateMempool(uTxOuts')
  /\ UNCHANGED <<adding, queue>>

(* replaceChain up to its decision *)
NodeReplaceStep ==
  /\ Settled \/ phase # "idle"
  /\ \/ \E c \in Candidates : StartReplace(c)
     \/ RewindBlock
     \/ UndoMissing
     \/ ReplayBlock
     \/ StartApply
     \/ \E now \in Clock : ApplyBlock(now)
     \/ \E now \in Clock : RejectBlock(now)
     \/ RejectLighter
  /\ UNCHANGED <<poolVars, queue>>

(* The rest of replaceChain: the pool is filtered before the transactions  *)
(* of the old blocks are offered.                                          *)
NodeAdopt ==
  /\ Adopt
  /\ UpdateMempool(uTxOuts')
  /\ queue' = CollectOrphanedTxs(SubSeq(blockchain, common + 1, Len(blockchain)),
                                 SubSeq(chain, common + 1, Len(chain)))
  /\ UNCHANGED adding

(* One turn of reinstateTxs: a transaction that is refused is dropped.     *)
Reinstate ==
  /\ phase = "idle" /\ adding = NoTx /\ queue # << >>
  /\ queue' = Tail(queue)
  /\ \/ BeginAdd(Head(queue), uTxOuts, NextHeight, TipMedianTime)
     \/ /\ ~ Admissible(Head(queue), uTxOuts, NextHeight, TipMedianTime)
        /\ UNCHANGED poolVars
  /\ UNCHANGED vars

(* A transaction from a peer, the wallet or the interface.                 *)
Submit(t) ==
  /\ Settled
  /\ BeginAdd(t, uTxOuts, NextHeight, TipMedianTime)
  /\ UNCHANGED <<vars, queue>>

MakeRoom ==
  /\ EvictWorst \/ RefuseForRoom \/ Admit
  /\ UNCHANGED <<vars, queue>>

NodeNext ==
  \/ \E b \in Block, now \in Clock : NodeAddBlock(b, now)
  \/ NodeReplaceStep
  \/ NodeAdopt
  \/ Reinstate
  \/ \E t \in Tx : Submit(t)
  \/ MakeRoom

NodeSpec == NodeInit /\ [][NodeNext]_nodeVars

-----------------------------------------------------------------------------
ChainTxs == UNION {Range(blockchain[i].data) : i \in DOMAIN blockchain}

(* Types of the pool's state; a coinbase is neither pending nor offered.   *)
NodeTypeOK ==
  LET Ordinary == {t \in Tx : ~ IsCoinbaseTx(t)}
  IN  /\ mempool \in Seq(Ordinary) /\ announced \in Seq(Ordinary)
      /\ meta \in SUBSET Ordinary
      /\ adding \in Ordinary \cup {NoTx}
      /\ queue \in Seq(Ordinary)

(* No output is spent twice among the pending transactions, through        *)
(* replacements with descendants, evictions and reorganisations            *)
(* (conflictingTxs, withDescendants, addToMempool).                        *)
PoolSpendsOnce ==
  \A i, j \in DOMAIN mempool :
    i # j => Spends(mempool[i]) \cap Spends(mempool[j]) = {}

(* Whatever a pending transaction spends is confirmed or made by one that  *)
(* came in before it ("the pool is in order of arrival, so that a parent   *)
(* is ahead of its child", memPool.js:93).                                 *)
ParentsAhead ==
  \A i \in DOMAIN mempool : \A o \in Spends(mempool[i]) :
    o \in Outs(uTxOuts) \/ \E j \in 1..(i - 1) : o \in Creates(mempool[j])

(* A transaction is mined or pending, never both: after a block or a       *)
(* reorganisation nothing of the new chain stays in the pool               *)
(* (updateMempool, collectOrphanedTxs).                                    *)
PendingNotMined == Pool \cap ChainTxs = {}

(* The pool could be mined as it stands, in its order, whatever came in,   *)
(* was replaced, mined or rolled back: nothing is spent twice, parents are *)
(* ahead and nothing is mined already; with the types of the pool.         *)
PoolMinable == NodeTypeOK /\ PoolSpendsOnce /\ ParentsAhead /\ PendingNotMined

(* Size and fee are on record for the pending transactions and no others:  *)
(* metaOf would count a missing fee as 0 in evictions and replacements.    *)
RecordsExact == meta = Pool

(* Whenever addToMempool is through, the listeners of onChange, who save   *)
(* the pool and restart the miner, have been told of the pool as it is.    *)
ListenersKnowPool == adding = NoTx => announced = mempool

(* What is kept about the pool elsewhere follows it through admissions,    *)
(* replacements, blocks and reorganisations: the records of size and fee   *)
(* (txMeta) and what the listeners of onChange were told last.             *)
RecordsFollowPool == RecordsExact /\ ListenersKnowPool

(* The pool is within its limits when addToMempool is through.             *)
PoolWithinLimits ==
  Len(mempool) <= MAX_MEMPOOL_SIZE /\ PoolBytes(mempool) <= MAX_MEMPOOL_BYTES

(* What the miner would build now is a block the node itself accepts       *)
(* (mineTemplate, addBlockToChain).                                        *)
TemplateAccepted ==
  LET height == NextHeight
      txs == Template(uTxOuts, height)
      fees == SumBlockFees(txs, uTxOuts)
  IN  \E cb \in Tx :
        /\ ValidateCoinbaseTx(cb, height, fees)
        /\ ValidateBlockTxs(<<cb>> \o txs, uTxOuts, height, TipMedianTime)

\* No reorganisation locked a pending transaction again, or made the parent
\* of one immature.
StillMature ==
  \A t \in Pool :
    /\ IsFinalTx(t, NextHeight, TipMedianTime)
    /\ \A p \in Parents(t, Pool) : \A u \in uTxOuts :
         u.out \in Spends(p) => IsSpendable(u, NextHeight)

(* The template is accepted as long as no pending transaction is locked    *)
(* again and no parent of one immature: packages, their order, the limits, *)
(* the fees and the transactions passed over come out as the block rules   *)
(* want them (selectTxsForBlock, sumBlockFees).                            *)
TemplateValid == Settled /\ StillMature => TemplateAccepted

(* The same whatever reorganisations did ("so that no transaction is taken *)
(* in that cannot be mined", blockchain.js:445-449; memPool.js:294-301).   *)
TemplateAlwaysValid == Settled => TemplateAccepted

FeesAtStake ==
  SumFunction([i \in DOMAIN mempool |-> GetTxFee(mempool[i])])
    + (IF adding = NoTx THEN 0 ELSE GetTxFee(adding))

(* While the chain stays and there is room, the fees of the pool and the   *)
(* newcomer together never fall: a replacement pays for all it evicts,     *)
(* descendants included (checkReplacement).                                *)
FeesOnlyRise ==
  [][UNCHANGED blockchain /\ (adding # NoTx => HasRoom(adding))
       => FeesAtStake' >= FeesAtStake]_nodeVars
=============================================================================
