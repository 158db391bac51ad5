-------------------------------- MODULE Chain --------------------------------
(***************************************************************************)
(* The best chain of src/blockchain.js: the list of blocks, the uTxOuts    *)
(* they leave, and the undo log a reorganisation rewinds with.             *)
(*                                                                         *)
(* The program is single threaded: addBlockToChain and replaceChain each   *)
(* run to the end.  replaceChain contains loops (rewind, replay, validate) *)
(* and is a sequence of steps here, one per turn of a loop; its locals are *)
(* variables, "phase" says which loop it is in, and no other handler runs  *)
(* until it is back to "idle".                                             *)
(*                                                                         *)
(* This module is the chain of a node whose block store is closed (the     *)
(* store's own failures are no part of it).                                *)
(***************************************************************************)
EXTENDS Ledger

CONSTANTS
  Block,              \* the blocks a peer or a miner can hand over
  Genesis,
  Candidates,         \* the chains a peer can hand over
  Clock,              \* what getTimestamp() may return
  Checkpoints,        \* a set of pairs <<height, hash>>
  MAX_REORG_DEPTH,    \* 0 switches the limit off
  KEEP_UNDO,
  MEDIAN_TIME_SPAN, MAX_FUTURE_BLOCK_TIME,
  NoUndo              \* null: undo data that has been trimmed away

(***************************************************************************)
(* A block.  "work" is Target.workOf(bits).  "headerOk" stands for what    *)
(* isHeaderValid and isBlockStructureValid decide from the header and its  *)
(* ancestors alone: field types, version, bits equal to bitsForNext, a     *)
(* hash that is the header's own and meets the bits.  "merkleOk": the      *)
(* merkle root is that of the transactions.  "signed": every input after   *)
(* the coinbase is unlocked for the output it names (validateTxIn).        *)
(***************************************************************************)
BlockType == [hash : {b.hash : b \in Block}, previousHash : {b.previousHash : b \in Block},
              index : Nat, timestamp : Nat, work : Nat \ {0}, data : Seq(Tx),
              headerOk : BOOLEAN, merkleOk : BOOLEAN, signed : BOOLEAN]

ASSUME BlockAssumption ==
  /\ Block \subseteq BlockType
  /\ Candidates \subseteq Seq(Block)
  /\ NoUndo \notin SUBSET UTxOut
  /\ Clock \subseteq Nat
  /\ MAX_REORG_DEPTH \in Nat /\ KEEP_UNDO \in Nat
  /\ MEDIAN_TIME_SPAN \in Nat \ {0} /\ MAX_FUTURE_BLOCK_TIME \in Nat

\* src/genesis.json: a coinbase at height 0.
ASSUME GenesisAssumption ==
  /\ Genesis \in Block
  /\ Genesis.index = 0
  /\ Genesis.signed
  /\ ValidateBlockTxs(Genesis.data, {}, 0, 0)

ASSUME CheckpointAssumption == \A cp \in Checkpoints : cp[1] \in Nat

(***************************************************************************)
(* validateCoinbaseTx does not look at the txOutId of the first            *)
(* transaction of a block: it may name an output, of any transaction, and  *)
(* then takes it out of the set.  It pays more than such an output is      *)
(* worth, so that validateTx never takes it for an ordinary transaction:   *)
(* of one that is both, the code makes the same output twice.              *)
(***************************************************************************)
ASSUME FirstTxAssumption ==
  \A b \in Block : b.data # << >> =>
    \A o \in Spends(b.data[1]) :
      o[1] = NoTx \/ o \notin Creates(o[1]) \/ ~ (GetTxFee(b.data[1]) >= 0)

\* A hash that is a header's own commits to the header, and its merkle root
\* to the transactions.  It does not commit to signatures.
ASSUME HashAssumption ==
  \A x, y \in Block :
    x.hash = y.hash /\ x.headerOk /\ y.headerOk =>
      /\ x.previousHash = y.previousHash /\ x.index = y.index
      /\ x.timestamp = y.timestamp /\ x.work = y.work
      /\ x.merkleOk /\ y.merkleOk => x.data = y.data

VARIABLES
  blockchain, uTxOuts, undoLog,
  \* locals of replaceChain and isChainValid
  phase, candidate, common, cursor, working, undo, atCommon, chain

store == <<blockchain, uTxOuts, undoLog>>
locals == <<phase, candidate, common, cursor, working, undo, atCommon, chain>>
vars == <<store, locals>>

-----------------------------------------------------------------------------
(* Validity of a block after the chain c. *)

Tip(c) == c[Len(c)]

\* The median of the last MEDIAN_TIME_SPAN timestamps (the upper one of an
\* even number).
MedianTimePast(c) ==
  LET first == IF Len(c) > MEDIAN_TIME_SPAN THEN Len(c) - MEDIAN_TIME_SPAN + 1 ELSE 1
      recent == first..Len(c)
      middle == Cardinality(recent) \div 2
      time(i) == c[i].timestamp
  IN  IF c = << >> THEN 0
      ELSE CHOOSE t \in {time(i) : i \in recent} :
             /\ Cardinality({i \in recent : time(i) < t}) <= middle
             /\ Cardinality({i \in recent : time(i) <= t}) > middle

IsTimeStampValid(b, c, now) ==
  /\ b.timestamp > MedianTimePast(c)
  /\ b.timestamp <= now + MAX_FUTURE_BLOCK_TIME

IsHeaderValid(b, c, now) ==
  /\ b.headerOk
  /\ b.index = Tip(c).index + 1
  /\ b.previousHash = Tip(c).hash
  /\ IsTimeStampValid(b, c, now)

ViolatesCheckpoint(b) ==
  \E cp \in Checkpoints : cp[1] = b.index /\ cp[2] # b.hash

IsBlockValid(b, c, now) ==
  /\ ~ ViolatesCheckpoint(b)
  /\ IsHeaderValid(b, c, now)
  /\ b.merkleOk

\* processTxs does not return null.
TxsAccepted(b, U, c) ==
  /\ b.signed
  /\ ValidateBlockTxs(b.data, U, b.index, MedianTimePast(c))

-----------------------------------------------------------------------------
(* Helpers of replaceChain. *)

CountCommonPrefix(a, b) ==
  LET agree(n) == n <= Len(a) /\ n <= Len(b) /\ \A i \in 1..n : a[i].hash = b[i].hash
  IN  CHOOSE n \in 0..Len(a) : agree(n) /\ ~ agree(n + 1)

LastCheckpointHeight ==
  LET heights == {-1} \cup {cp[1] : cp \in Checkpoints}
  IN  CHOOSE h \in heights : \A g \in heights : g <= h

RewritesCheckpoint(n) ==
  /\ LastCheckpointHeight >= 0
  /\ n <= LastCheckpointHeight
  /\ Len(blockchain) > LastCheckpointHeight

TooDeep(n) == MAX_REORG_DEPTH > 0 /\ Len(blockchain) - n > MAX_REORG_DEPTH

\* The work of the blocks of c after the first n.
ChainWork(c, n) == SumFunction([i \in (n + 1)..Len(c) |-> c[i].work])

\* Fault: trimmed entries are removed, which shifts the ones that stay.
TrimUndoLogShifting(log) ==
  SubSeq(log, IF Len(log) > KEEP_UNDO THEN Len(log) - KEEP_UNDO + 1 ELSE 1, Len(log))

\* Undo data older than KEEP_UNDO blocks is dropped, from the youngest
\* such entry down to the first that is gone already.
TrimUndoLog(log) ==
  LET last == Len(log) - KEEP_UNDO
  IN  [i \in 1..Len(log) |->
         IF i <= last /\ \A j \in i..last : log[j] # NoUndo THEN NoUndo ELSE log[i]]

-----------------------------------------------------------------------------
Init ==
  /\ blockchain = <<Genesis>>
  /\ uTxOuts = UpdateUTxOuts(Genesis.data, {}, 0)
  /\ undoLog = <<CollectConsumed(Genesis.data, {})>>
  /\ phase = "idle"
  /\ candidate = << >> /\ common = 0 /\ cursor = 0
  /\ working = {} /\ undo = << >> /\ atCommon = {} /\ chain = << >>

\* replaceChain returns: its locals go out of scope.
Return ==
  /\ phase' = "idle"
  /\ candidate' = << >> /\ common' = 0 /\ cursor' = 0
  /\ working' = {} /\ undo' = << >> /\ atCommon' = {} /\ chain' = << >>

(* addBlockToChain *)
AddBlockToChain(b, now) ==
  /\ phase = "idle"
  /\ IsBlockValid(b, blockchain, now)
  /\ TxsAccepted(b, uTxOuts, blockchain)
  /\ blockchain' = Append(blockchain, b)
  /\ undoLog' = TrimUndoLog(Append(undoLog, CollectConsumed(b.data, uTxOuts)))
  /\ uTxOuts' = UpdateUTxOuts(b.data, uTxOuts, b.index)
  /\ UNCHANGED locals

\* Fault: the common prefix is taken from the candidate.
StartReplaceTheirPrefix(c) ==
  LET n == CountCommonPrefix(blockchain, c)
  IN  /\ phase = "idle"
      /\ c # << >>
      /\ c[1].hash = Genesis.hash /\ c[1].data = Genesis.data
      /\ ~ RewritesCheckpoint(n)
      /\ ~ TooDeep(n)
      /\ candidate' = c
      /\ common' = n
      /\ chain' = SubSeq(c, 1, n)
      /\ undo' = SubSeq(undoLog, 1, n)
      /\ phase' = "rewind" /\ cursor' = Len(blockchain) /\ working' = uTxOuts
      /\ UNCHANGED <<store, atCommon>>

(* replaceChain(c), up to the point where isChainValid starts rewinding.   *)
(* A candidate refused before it changes nothing.                          *)
StartReplace(c) ==
  LET n == CountCommonPrefix(blockchain, c)
  IN  /\ phase = "idle"
      /\ c # << >>
      /\ c[1].hash = Genesis.hash /\ c[1].data = Genesis.data
      /\ ~ RewritesCheckpoint(n)
      /\ ~ TooDeep(n)
      /\ candidate' = c
      /\ common' = n
      /\ chain' = SubSeq(blockchain, 1, n)
      /\ undo' = SubSeq(undoLog, 1, n)
      /\ IF Len(undoLog) = Len(blockchain)
         THEN phase' = "rewind" /\ cursor' = Len(blockchain) /\ working' = uTxOuts
         ELSE phase' = "replay" /\ cursor' = 0 /\ working' = {}
      /\ UNCHANGED <<store, atCommon>>

\* Fault: a null entry of the undo log is not looked for.
RewindBlockUnchecked ==
  /\ phase = "rewind"
  /\ cursor > common
  /\ working' = RollbackTxs(blockchain[cursor].data, working, undoLog[cursor])
  /\ cursor' = cursor - 1
  /\ UNCHANGED <<store, phase, candidate, common, undo, atCommon, chain>>

(* rewindTo: "cursor" blocks are still applied to "working". *)
RewindBlock ==
  /\ phase = "rewind"
  /\ cursor > common
  /\ undoLog[cursor] # NoUndo
  /\ working' = RollbackTxs(blockchain[cursor].data, working, undoLog[cursor])
  /\ cursor' = cursor - 1
  /\ UNCHANGED <<store, phase, candidate, common, undo, atCommon, chain>>

\* Fault: the replay starts over a half rewound set.
UndoMissingHalfRewound ==
  /\ phase = "rewind"
  /\ cursor > common
  /\ undoLog[cursor] = NoUndo
  /\ phase' = "replay"
  /\ cursor' = 0
  /\ UNCHANGED <<store, candidate, common, working, undo, atCommon, chain>>

(* rewindTo returns null: replay the common blocks from genesis. *)
UndoMissing ==
  /\ phase = "rewind"
  /\ cursor > common
  /\ undoLog[cursor] = NoUndo
  /\ phase' = "replay"
  /\ working' = {}
  /\ cursor' = 0
  /\ UNCHANGED <<store, candidate, common, undo, atCommon, chain>>

ReplayBlock ==
  /\ phase = "replay"
  /\ cursor < common
  /\ LET b == chain[cursor + 1]
     IN  /\ undo' = [undo EXCEPT ![cursor + 1] = CollectConsumed(b.data, working)]
         /\ working' = UpdateUTxOuts(b.data, working, b.index)
  /\ cursor' = cursor + 1
  /\ UNCHANGED <<store, phase, candidate, common, atCommon, chain>>

(* "working" is the set at the fork: the blocks of the candidate follow. *)
StartApply ==
  /\ phase \in {"rewind", "replay"}
  /\ cursor = common
  /\ phase' = "apply"
  /\ atCommon' = working
  /\ UNCHANGED <<store, candidate, common, cursor, working, undo, chain>>

(* The blocks of our own prefix stay ours; those after it are validated.   *)
ApplyBlock(now) ==
  /\ phase = "apply"
  /\ Len(chain) < Len(candidate)
  /\ LET b == candidate[Len(chain) + 1]
     IN  /\ IsBlockValid(b, chain, now)
         /\ TxsAccepted(b, working, chain)
         /\ undo' = Append(undo, CollectConsumed(b.data, working))
         /\ working' = UpdateUTxOuts(b.data, working, b.index)
         /\ chain' = Append(chain, b)
  /\ UNCHANGED <<store, phase, candidate, common, cursor, atCommon>>

(* isChainValid returns null at an invalid block. *)
RejectBlock(now) ==
  /\ phase = "apply"
  /\ Len(chain) < Len(candidate)
  /\ LET b == candidate[Len(chain) + 1]
     IN  ~ (IsBlockValid(b, chain, now) /\ TxsAccepted(b, working, chain))
  /\ Return
  /\ UNCHANGED store

\* Fault: a tie goes to the newcomer.
HeavierOrEqual == ChainWork(chain, common) >= ChainWork(blockchain, common)

(* The rest of replaceChain: the heavier branch wins, a tie keeps ours. *)
Heavier == ChainWork(chain, common) > ChainWork(blockchain, common)

Adopt ==
  /\ phase = "apply"
  /\ Len(chain) >= Len(candidate)
  /\ Heavier
  /\ blockchain' = chain
  /\ uTxOuts' = working
  /\ undoLog' = TrimUndoLog(undo)
  /\ Return

RejectLighter ==
  /\ phase = "apply"
  /\ Len(chain) >= Len(candidate)
  /\ ~ Heavier
  /\ Return
  /\ UNCHANGED store

Next ==
  \/ \E b \in Block, now \in Clock : AddBlockToChain(b, now)
  \/ \E c \in Candidates : StartReplace(c)
  \/ RewindBlock
  \/ UndoMissing
  \/ ReplayBlock
  \/ StartApply
  \/ \E now \in Clock : ApplyBlock(now)
  \/ \E now \in Clock : RejectBlock(now)
  \/ Adopt
  \/ RejectLighter

Spec == Init /\ [][Next]_vars

-----------------------------------------------------------------------------
(* What the chain alone says the uTxOuts are: of what each block made, the *)
(* outputs that neither it nor a later block spends.                       *)

SpentFrom(c, i) == UNION {SpentBy(c[j].data) : j \in i..Len(c)}
LeftOf(c, i) == New(CreatedBy(c[i].data) \ SpentFrom(c, i), c[i].index)
Unspent(c) == UNION {LeftOf(c, i) : i \in 1..Len(c)}
Prefix(c, n) == SubSeq(c, 1, n)

Undo == (SUBSET UTxOut) \cup {NoUndo}

(* Types of the node's state and of the locals of replaceChain. *)
TypeOK ==
  /\ blockchain \in Seq(Block) /\ uTxOuts \in SUBSET UTxOut /\ undoLog \in Seq(Undo)
  /\ phase \in {"idle", "rewind", "replay", "apply"}
  /\ candidate \in Seq(Block) /\ chain \in Seq(Block)
  /\ common \in Nat /\ cursor \in Nat
  /\ working \in SUBSET UTxOut /\ atCommon \in SUBSET UTxOut /\ undo \in Seq(Undo)

(* The incrementally kept uTxOuts are, after every block and every reorg,  *)
(* the outputs the blocks of the chain made less those they spent          *)
(* (updateUTxOuts, rollbackTxs, replaceChain).                             *)
UTxOutsAreUnspent == uTxOuts = Unspent(blockchain)

(* Undo data that is still kept sits at its block's place and is what the  *)
(* block took from the set before it, so that rewinding to any fork it     *)
(* covers gives back that set (undoLog, rewindTo, trimUndoLog).            *)
UndoMatches(log, c) ==
  /\ Len(log) = Len(c)
  /\ \A i \in 1..Len(c) :
       log[i] # NoUndo => log[i] = CollectConsumed(c[i].data, Unspent(Prefix(c, i - 1)))

UndoRestores == UndoMatches(undoLog, blockchain)

(* The set the rewind or the replay arrives at is the set at the fork.     *)
ForkStateExact ==
  phase = "apply" => atCommon = Unspent(Prefix(blockchain, common))

\* What the first transaction of block i takes from the set before it, or
\* from what its own block makes.
TakenByFirst(c, i) ==
  Spends(c[i].data[1]) \cap (Outs(Unspent(Prefix(c, i - 1))) \cup CreatedBy(c[i].data))
Destroyed(c) == UNION {TakenByFirst(c, i) : i \in 1..Len(c)}

(* No coin is made, and none is lost but the outputs that the first        *)
(* transactions of blocks name: the unspent amounts and those add up to    *)
(* the subsidies issued up to the tip (validateCoinbaseTx,                 *)
(* getTotalSupply).                                                        *)
SupplyConserved ==
  LET worth(outs) == SumFunction([o \in outs |-> AmountOf(o)])
  IN  worth(Outs(uTxOuts)) + worth(Destroyed(blockchain)) = GetTotalSupply(Tip(blockchain).index)

(* Every block of the chain we keep, signatures included, would pass again *)
(* from genesis (but for the clock).  The comment at blockchain.js:819-823 *)
(* gives the reason for keeping our own blocks in the common prefix: one   *)
(* with the same hash and other signatures would be refused by others.     *)
Revalidates(c) ==
  \A i \in 2..Len(c) :
    LET b == c[i]
        before == Prefix(c, i - 1)
    IN  /\ ~ ViolatesCheckpoint(b) /\ b.headerOk /\ b.merkleOk
        /\ b.index = i - 1 /\ b.previousHash = c[i - 1].hash
        /\ b.timestamp > MedianTimePast(before)
        /\ TxsAccepted(b, Unspent(before), before)

ChainRevalidates == Revalidates(blockchain)
=============================================================================
