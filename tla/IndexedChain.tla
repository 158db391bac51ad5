---------------------------- MODULE IndexedChain ----------------------------
(***************************************************************************)
(* The chain together with the indexes kept beside it: the address history *)
(* (src/addressIndex.js), the hash and transaction lookups                 *)
(* (src/chainIndex.js) and the cumulative work cache of src/blockchain.js. *)
(* Each is updated block by block and rolled back block by block when the  *)
(* chain forks; none is ever recomputed from the chain while a node runs.  *)
(***************************************************************************)
EXTENDS Chain, SequencesExt

CONSTANT Unknown      \* what Map.get returns for a missing key

VARIABLES
  byAddress,          \* addressIndex: address -> entries, oldest first
  blockByHash,        \* chainIndex: hash -> height
  blockByTxId,        \* chainIndex: transaction -> height
  cumulativeWork      \* work of blocks 0..i, as far as it has been asked for

indexes == <<byAddress, blockByHash, blockByTxId, cumulativeWork>>

Hash == {b.hash : b \in Block}

(* The hash of the genesis block is that of its header, so no header at    *)
(* another height has it.  (It need not meet its bits, as headerOk would   *)
(* say: generate-genesis.js does not mine.)                                *)
ASSUME GenesisHash == \A b \in Block : b.headerOk /\ b.hash = Genesis.hash => b.index = 0

(* A first transaction that names an output names none of its own block:   *)
(* that output would be gone from the set and stay in the history of its   *)
(* address, since applyBlock resolves inputs in the order of the block.    *)
ASSUME FirstTakesNoneOfItsBlock ==
  \A b \in Block : b.data # << >> => Spends(b.data[1]) \cap CreatedBy(b.data) = {}

-----------------------------------------------------------------------------
(* addressIndex.js *)

\* Inputs are resolved in the set before the block and in the outputs of
\* the transactions before them in the block.
Resolves(o, b, k, U) == o \in Outs(U) \cup CreatedBy(SubSeq(b.data, 1, k - 1))

SpentOf(a, b, k, U) ==
  LET ins == TxIns[b.data[k]]
  IN  {i \in DOMAIN ins : Resolves(ins[i], b, k, U) /\ AddressOf(ins[i]) = a}

ReceivedOf(a, b, k) ==
  LET outs == TxOuts[b.data[k]]
  IN  {n \in DOMAIN outs : outs[n].address = a}

AddressEntry(a, b, k, U) ==
  LET t == b.data[k]
  IN  [txId |-> t, blockIndex |-> b.index,
       received |-> SumFunction([n \in ReceivedOf(a, b, k) |-> TxOuts[t][n].amount]),
       spent |-> SumFunction([i \in SpentOf(a, b, k, U) |-> AmountOf(TxIns[t][i])])]

\* One entry for every transaction of the block that touches the address, in
\* their order.
Touching(a, b, U) ==
  {k \in DOMAIN b.data : ReceivedOf(a, b, k) # {} \/ SpentOf(a, b, k, U) # {}}

BlockEntries(a, b, U) ==
  LET touching == Touching(a, b, U)
      place(n) == CHOOSE k \in touching : Cardinality({j \in touching : j <= k}) = n
  IN  [n \in 1..Cardinality(touching) |-> AddressEntry(a, b, place(n), U)]

AddressesApply(index, b, U) ==
  [a \in Address |-> index[a] \o BlockEntries(a, b, U)]

\* Entries are cut off from the end for as long as they are at or above cut.
AddressesRollbackTo(index, cut) ==
  LET stays(a) == {0} \cup {i \in DOMAIN index[a] : index[a][i].blockIndex < cut}
  IN  [a \in Address |-> SubSeq(index[a], 1, Max(stays(a)))]

-----------------------------------------------------------------------------
(* chainIndex.js *)

HashesApply(index, b) == [index EXCEPT ![b.hash] = b.index]
TxsApply(index, b) == [t \in Tx |-> IF t \in Range(b.data) THEN b.index ELSE index[t]]

HashesRollback(index, blocks) ==
  [h \in Hash |-> IF \E i \in DOMAIN blocks : blocks[i].hash = h THEN Unknown ELSE index[h]]
\* Fault: only the hashes of the old blocks are taken out.
TxsRollbackForgotten(index, blocks) == index

TxsRollback(index, blocks) ==
  [t \in Tx |-> IF \E i \in DOMAIN blocks : t \in Range(blocks[i].data)
                THEN Unknown ELSE index[t]]

-----------------------------------------------------------------------------
(* The cumulative work cache. *)

DropWorkFrom(height) == SubSeq(cumulativeWork, 1, Min({height, Len(cumulativeWork)}))

\* The cache extended to the first n blocks of c, each from the one before.
FilledTo(cache, c, n) ==
  LET work[i \in 1..n] ==
        IF i <= Len(cache) THEN cache[i]
        ELSE c[i].work + (IF i = 1 THEN 0 ELSE work[i - 1])
  IN  IF n <= Len(cache) THEN cache ELSE work

-----------------------------------------------------------------------------
(* The indexes together, at = [addresses, hashes, txs, indexed]: "indexed" *)
(* is the set of unspent outputs of the blocks they have seen.             *)

IndexBlock(at, b) ==
  [addresses |-> AddressesApply(at.addresses, b, at.indexed),
   hashes |-> HashesApply(at.hashes, b),
   txs |-> TxsApply(at.txs, b),
   indexed |-> UpdateUTxOuts(b.data, at.indexed, b.index)]

\* The blocks of c after the first n, one by one.
IndexFrom(at, c, n) ==
  LET done[i \in n..Len(c)] == IF i = n THEN at ELSE IndexBlock(done[i - 1], c[i])
  IN  done[Len(c)]

\* Without the blocks of our chain after the first n.
RolledBack(n) ==
  LET gone == SubSeq(blockchain, n + 1, Len(blockchain))
  IN  [addresses |-> IF gone = << >> THEN byAddress
                     ELSE AddressesRollbackTo(byAddress, gone[1].index),
       hashes |-> HashesRollback(blockByHash, gone),
       txs |-> TxsRollback(blockByTxId, gone),
       indexed |-> atCommon]

-----------------------------------------------------------------------------
IndexedInit ==
  /\ Init
  /\ byAddress = AddressesApply([a \in Address |-> << >>], Genesis, {})
  /\ blockByHash = HashesApply([h \in Hash |-> Unknown], Genesis)
  /\ blockByTxId = TxsApply([t \in Tx |-> Unknown], Genesis)
  /\ cumulativeWork = << >>

IndexedAddBlock(b, now) ==
  /\ AddBlockToChain(b, now)
  /\ byAddress' = AddressesApply(byAddress, b, uTxOuts)
  /\ blockByHash' = HashesApply(blockByHash, b)
  /\ blockByTxId' = TxsApply(blockByTxId, b)
  /\ UNCHANGED cumulativeWork

(* The end of replaceChain: the old blocks leave the indexes while the old *)
(* chain still stands, then the new ones enter, over the uTxOuts at the    *)
(* fork; announcing the new tip asks for its work.                         *)
IndexedAdopt ==
  LET done == IndexFrom(RolledBack(common), chain, common)
  IN  /\ Adopt
      /\ byAddress' = done.addresses
      /\ blockByHash' = done.hashes
      /\ blockByTxId' = done.txs
      /\ cumulativeWork' = FilledTo(DropWorkFrom(common), chain, Len(chain))

(* workUpTo: a query that fills the cache up to a height. *)
WorkUpTo(height) ==
  /\ phase = "idle"
  /\ cumulativeWork' =
       FilledTo(cumulativeWork, blockchain, Min({height + 1, Len(blockchain)}))
  /\ UNCHANGED <<vars, byAddress, blockByHash, blockByTxId>>

\* The steps of replaceChain that touch no index.
ReplaceStep ==
  /\ \/ \E c \in Candidates : StartReplace(c)
     \/ RewindBlock
     \/ UndoMissing
     \/ ReplayBlock
     \/ StartApply
     \/ \E now \in Clock : ApplyBlock(now)
     \/ \E now \in Clock : RejectBlock(now)
     \/ RejectLighter
  /\ UNCHANGED indexes

IndexedNext ==
  \/ \E b \in Block, now \in Clock : IndexedAddBlock(b, now)
  \/ ReplaceStep
  \/ IndexedAdopt
  \/ \E height \in {b.index : b \in Block} : WorkUpTo(height)

IndexedSpec == IndexedInit /\ [][IndexedNext]_<<vars, indexes>>

-----------------------------------------------------------------------------
(* The three lookups say what a scan of the whole chain would say: a hash  *)
(* or a transaction is found exactly when it is in the chain, at the       *)
(* height it is at.  The hazard is an entry of a rolled back block that    *)
(* survives, or one shared with the new branch that is lost                *)
(* (ChainIndex.rollbackBlocks runs before the new blocks are applied).     *)
LookupsFollowChain ==
  /\ \A h \in Hash :
       LET at == {i \in 1..Len(blockchain) : blockchain[i].hash = h}
       IN  IF at = {} THEN blockByHash[h] = Unknown
           ELSE \A i \in at : blockByHash[h] = i - 1
  /\ \A t \in Tx :
       LET at == {i \in 1..Len(blockchain) : t \in Range(blockchain[i].data)}
       IN  IF at = {} THEN blockByTxId[t] = Unknown
           ELSE \A i \in at : blockByTxId[t] = i - 1

(* A transaction of the chain is found ("if the new chain holds the same   *)
(* transaction, it puts it back in", chainIndex.js:42).                    *)
MinedIsFound ==
  \A i \in 1..Len(blockchain) : \A t \in Range(blockchain[i].data) : blockByTxId[t] # Unknown

(* What an address received less what it spent, over its history, is its   *)
(* balance in the uTxOuts: applyBlock resolved every input, at the right   *)
(* set, through every rollback.                                            *)
HistoryMatchesBalance ==
  \A a \in Address :
    LET history == byAddress[a]
        mine == {o \in Outs(uTxOuts) : AddressOf(o) = a}
    IN  SumFunction([i \in DOMAIN history |-> history[i].received - history[i].spent])
          = SumFunction([o \in mine |-> AmountOf(o)])

(* The cached work of each height is the work of the chain we have now,    *)
(* whichever queries filled the cache before the fork (dropWorkFrom).      *)
WorkCacheExact ==
  /\ Len(cumulativeWork) <= Len(blockchain)
  /\ \A n \in 1..Len(cumulativeWork) :
       cumulativeWork[n] = SumFunction([i \in 1..n |-> blockchain[i].work])

(* Everything the node keeps beside the chain agrees with it at every      *)
(* step: the lookups, the history of each address and the cached work.     *)
IndexesFollowChain == LookupsFollowChain /\ HistoryMatchesBalance /\ WorkCacheExact

-----------------------------------------------------------------------------
Best == INSTANCE BestChain WITH best <- blockchain

(* The chain, with its undo log, its rewinds and its caches, implements    *)
(* the promise of BestChain.                                               *)
ImplementsBestChain == Best!Spec

(* A block pinned by a checkpoint is never given up ("A chain that         *)
(* rewrites what is before that height is not accepted however heavy it    *)
(* is", params.js and blockchain.js:850-855).                              *)
CheckpointsStay ==
  [][\A cp \in Checkpoints :
       Len(blockchain) > cp[1] =>
         /\ Len(blockchain') > cp[1]
         /\ blockchain'[cp[1] + 1] = blockchain[cp[1] + 1]]_blockchain
=============================================================================
