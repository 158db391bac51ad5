----------------------------- MODULE ChainStore -----------------------------
(***************************************************************************)
(* The chain and its block store: src/store.js and the start-up, snapshot  *)
(* and body cache of src/blockchain.js.                                    *)
(*                                                                         *)
(* A block is one line of the file.  A line is a sequence of cells, the    *)
(* last of which has the end of line, so that an append can be cut short.  *)
(* The process can crash before, after and in the middle of every write;   *)
(* what it held in memory is gone until it restarts from the file.         *)
(*                                                                         *)
(* Cutting a file and replacing it by a rename are single steps, and       *)
(* removing the snapshot or cutting the file does not fail.  The data      *)
(* directory belongs to this genesis.                                      *)
(***************************************************************************)
EXTENDS Chain

CONSTANTS
  LineCells,          \* cells of a block's line
  BODY_CACHE_SIZE, SNAPSHOT_INTERVAL,
  NoSnapshot

ASSUME StoreAssumption ==
  /\ LineCells \in [Block -> Nat \ {0}]
  /\ BODY_CACHE_SIZE \in Nat \ {0} /\ SNAPSHOT_INTERVAL \in Nat \ {0}

VARIABLES
  file, snapshot,     \* on disk: the cells of blocks.jsonl, and chainstate.json
  offsets, fileSize,  \* in memory: where each block's line starts
  bodyCache,          \* pairs <<height, block whose body is cached>>
  mode,               \* what the process is in the middle of
  pending,            \* blocks still to be appended
  damaged             \* history: a block is in memory that could not be written

disk == <<file, snapshot>>
index == <<offsets, fileSize>>
storeVars == <<vars, disk, index, bodyCache, mode, pending, damaged>>

-----------------------------------------------------------------------------
(* The file. *)

Line(b) == [k \in 1..LineCells[b] |-> <<b, k>>]

LineEnds(f) == {i \in DOMAIN f : f[i][2] = LineCells[f[i][1]]}

\* Ends of lines that parse and have only such lines before them.
GoodEnds(f) ==
  LET parses(e) == LET from == e - LineCells[f[e][1]]
                   IN  /\ from \in {0} \cup LineEnds(f)
                       /\ SubSeq(f, from + 1, e) = Line(f[e][1])
  IN  {e \in LineEnds(f) : \A d \in LineEnds(f) : d <= e => parses(d)}

\* scanBlocks: the blocks it hands over, in their order.
Stored(f) ==
  LET ends == GoodEnds(f)
      rank(e) == Cardinality({d \in ends : d <= e})
  IN  [n \in 1..Cardinality(ends) |-> f[CHOOSE e \in ends : rank(e) = n][1]]

Cells(bs) == SumFunction([i \in DOMAIN bs |-> LineCells[bs[i]]])
OffsetsOf(bs) == [n \in DOMAIN bs |-> Cells(SubSeq(bs, 1, n - 1))]

\* readBlockAt: the block at a height, or nothing.
ReadBlockAt(height) ==
  LET to == IF height + 1 < Len(offsets) THEN offsets[height + 2] ELSE fileSize
  IN  IF height >= Len(offsets) THEN {}
      ELSE {b \in Block : to <= Len(file) /\ SubSeq(file, offsets[height + 1] + 1, to) = Line(b)}

\* truncateSync: a file that is too short is filled up with zeros.
Resized(f, size) == [i \in 1..size |-> IF i <= Len(f) THEN f[i] ELSE <<Genesis, 0>>]

TruncateBlocksTo(count) ==
  IF count >= Len(offsets) THEN UNCHANGED <<file, index>>
  ELSE LET size == offsets[count + 1]
       IN  /\ file' = Resized(file, size)
           /\ offsets' = SubSeq(offsets, 1, count)
           /\ fileSize' = size

\* appendBlock, with "written" of the cells reaching the file.
AppendCells(b, written) ==
  /\ offsets' = Append(offsets, fileSize)
  /\ fileSize' = fileSize + LineCells[b]
  /\ file' = file \o SubSeq(Line(b), 1, written)

AppendBlock(b) == AppendCells(b, LineCells[b])

\* cacheBody: what the cache may be when the pairs "new" have come in.  (The
\* oldest go; which of the earlier ones are old is left open.)
CachedWith(cache, new) ==
  LET all == {e \in cache : \A d \in new : d[1] # e[1]} \cup new
  IN  IF Cardinality(all) <= BODY_CACHE_SIZE THEN {all}
      ELSE {kept \in SUBSET all : /\ Cardinality(kept) = BODY_CACHE_SIZE
                                  /\ new \subseteq kept \/ kept \subseteq new}

TakeSnapshot == snapshot' = [height |-> Len(blockchain) - 1, tipHash |-> Tip(blockchain).hash]

-----------------------------------------------------------------------------
(* The program is loaded, with nothing on disk. *)
StoreInit ==
  /\ Init
  /\ file = << >> /\ offsets = << >> /\ fileSize = 0
  /\ snapshot = NoSnapshot
  /\ bodyCache = {}
  /\ mode = "down" /\ pending = << >>
  /\ damaged = FALSE

(* addBlockToChain up to its write: the block is in memory. *)
StoreAddBlock(b, now) ==
  /\ mode = "running"
  /\ AddBlockToChain(b, now)
  /\ bodyCache' \in CachedWith(bodyCache, {<<Len(blockchain), b>>})
  /\ mode' = "appending" /\ pending' = <<b>>
  /\ UNCHANGED <<disk, index, damaged>>

AppendNewBlock ==
  /\ mode = "appending"
  /\ AppendBlock(Head(pending))
  /\ pending' = << >>
  /\ mode' = IF Head(pending) # Genesis /\ Head(pending).index % SNAPSHOT_INTERVAL = 0
             THEN "snapshotting" ELSE "running"
  /\ UNCHANGED <<vars, snapshot, bodyCache, damaged>>

(* The write throws: the exception leaves addBlockToChain.  (At the start  *)
(* the process ends instead: Crash.)                                       *)
AppendFails ==
  /\ mode = "appending"
  /\ Head(pending) # Genesis
  /\ \E written \in 0..(LineCells[Head(pending)] - 1) : AppendCells(Head(pending), written)
  /\ pending' = << >> /\ mode' = "running"
  /\ damaged' = TRUE
  /\ UNCHANGED <<vars, snapshot, bodyCache>>

(* persistChainstate *)
PersistChainstate ==
  /\ mode = "snapshotting"
  /\ TakeSnapshot
  /\ mode' = "running"
  /\ UNCHANGED <<vars, file, index, bodyCache, pending, damaged>>

(* Its write throws: the old snapshot stays, and the exception ends what   *)
(* was under way - addBlockToChain, or replaceChain before it sees to the  *)
(* pool and tells the peers (outside this module).                         *)
SnapshotFails ==
  /\ mode = "snapshotting"
  /\ mode' = "running"
  /\ UNCHANGED <<vars, disk, index, bodyCache, pending, damaged>>

(* A body is read through the getter of its header record (bodyAt): for an *)
(* answer, or by one of the loops of replaceChain.                         *)
ReadBody(height) ==
  /\ mode = "running"
  /\ height < Len(blockchain)
  /\ \A e \in bodyCache : e[1] # height
  /\ \E b \in ReadBlockAt(height) : bodyCache' \in CachedWith(bodyCache, {<<height, b>>})
  /\ UNCHANGED <<vars, disk, index, mode, pending, damaged>>

(* replaceChain up to its decision *)
StoreReplaceStep ==
  /\ mode = "running"
  /\ \/ \E c \in Candidates : StartReplace(c)
     \/ RewindBlock
     \/ UndoMissing
     \/ ReplayBlock
     \/ StartApply
     \/ \E now \in Clock : ApplyBlock(now)
     \/ \E now \in Clock : RejectBlock(now)
     \/ RejectLighter
  /\ UNCHANGED <<disk, index, bodyCache, mode, pending, damaged>>

BranchWins ==
  /\ mode = "running"
  /\ phase = "apply" /\ Len(chain) >= Len(candidate) /\ Heavier

\* Fault: bodies of the old branch stay cached.
BeginWriteKeepingBodies ==
  /\ BranchWins
  /\ TruncateBlocksTo(common)
  /\ pending' = SubSeq(chain, common + 1, Len(chain))
  /\ mode' = "replacing"
  /\ UNCHANGED <<vars, snapshot, bodyCache, damaged>>

(* The branch has won: the file is cut at the fork ... *)
BeginWrite ==
  /\ BranchWins
  /\ TruncateBlocksTo(common)
  /\ bodyCache' = {e \in bodyCache : e[1] < common}
  /\ pending' = SubSeq(chain, common + 1, Len(chain))
  /\ mode' = "replacing"
  /\ UNCHANGED <<vars, snapshot, damaged>>

(* ... its blocks are appended, each able to fail ... *)
AppendBranchBlock ==
  /\ mode = "replacing" /\ pending # << >>
  /\ AppendBlock(Head(pending))
  /\ pending' = Tail(pending)
  /\ UNCHANGED <<vars, snapshot, bodyCache, mode, damaged>>

(* ... and then it becomes the chain in memory. *)
FinishWrite ==
  /\ mode = "replacing" /\ pending = << >>
  /\ Adopt
  /\ bodyCache' \in CachedWith(bodyCache, {<<n - 1, chain[n]>> : n \in (common + 1)..Len(chain)})
  /\ mode' = "snapshotting"
  /\ UNCHANGED <<disk, index, pending, damaged>>

\* What the process held is gone: the program is as it is when loaded.
Forget ==
  /\ blockchain' = <<Genesis>>
  /\ uTxOuts' = UpdateUTxOuts(Genesis.data, {}, 0)
  /\ undoLog' = <<CollectConsumed(Genesis.data, {})>>
  /\ Return
  /\ offsets' = << >> /\ fileSize' = 0
  /\ bodyCache' = {} /\ pending' = << >>
  /\ mode' = "down"
  /\ UNCHANGED damaged

\* The line under way is cut short.
TornAppend ==
  IF pending = << >> THEN UNCHANGED file
  ELSE \E written \in 0..(LineCells[Head(pending)] - 1) :
         file' = file \o SubSeq(Line(Head(pending)), 1, written)

\* Fault: the old chain stays in memory although its file has been cut.
BranchWriteFailsGoingOn ==
  /\ mode = "replacing" /\ pending # << >>
  /\ Return
  /\ mode' = "running" /\ pending' = << >>
  /\ UNCHANGED <<blockchain, uTxOuts, undoLog, disk, index, bodyCache, damaged>>

(* A write of replaceChain throws: the snapshot is dropped and initChain   *)
(* starts over from the file.                                              *)
BranchWriteFails ==
  /\ \/ BranchWins
     \/ mode = "replacing" /\ pending # << >>
  /\ TornAppend
  /\ snapshot' = NoSnapshot
  /\ Forget

Crash ==
  /\ mode # "down"
  /\ TornAppend
  /\ UNCHANGED snapshot
  /\ Forget

(* A signal to stop: the snapshot is written first. *)
Shutdown ==
  /\ mode = "running" /\ phase = "idle"
  /\ TakeSnapshot
  /\ UNCHANGED file
  /\ Forget

-----------------------------------------------------------------------------
(* initChain. *)

\* The snapshot is of another chain than the file.
StaleSnapshot(blocks) ==
  /\ snapshot # NoSnapshot
  /\ snapshot.height < Len(blocks)
  /\ blocks[snapshot.height + 1].hash # snapshot.tipHash

ReplaysAll(blocks) == snapshot = NoSnapshot \/ StaleSnapshot(blocks)

(***************************************************************************)
(* Blocks up to the height of the snapshot are not validated again; the    *)
(* replay stops at the first that is refused.                              *)
(***************************************************************************)
Loadable(loaded, b, skipUntil, now) ==
  \/ Len(loaded.chain) = 0
  \/ Len(loaded.chain) <= skipUntil
  \/ IsBlockValid(b, loaded.chain, now) /\ TxsAccepted(b, loaded.uTxOuts, loaded.chain)

\* Fault: the block that is refused has left its marks.
LoadCareless(loaded, b, skipUntil, now) ==
  LET valid == Loadable(loaded, b, skipUntil, now)
  IN  IF loaded.stopped THEN loaded
      ELSE [chain |-> IF valid THEN Append(loaded.chain, b) ELSE loaded.chain,
            uTxOuts |-> UpdateUTxOuts(b.data, loaded.uTxOuts, b.index),
            undo |-> IF valid THEN Append(loaded.undo, CollectConsumed(b.data, loaded.uTxOuts))
                     ELSE loaded.undo,
            stopped |-> ~ valid]

Load(loaded, b, skipUntil, now) ==
  IF loaded.stopped THEN loaded
  ELSE IF ~ Loadable(loaded, b, skipUntil, now) THEN [loaded EXCEPT !.stopped = TRUE]
  ELSE [chain |-> Append(loaded.chain, b),
        uTxOuts |-> UpdateUTxOuts(b.data, loaded.uTxOuts, b.index),
        undo |-> Append(loaded.undo, CollectConsumed(b.data, loaded.uTxOuts)),
        stopped |-> FALSE]

NothingLoaded == [chain |-> << >>, uTxOuts |-> {}, undo |-> << >>, stopped |-> FALSE]

ReplayStored(blocks, skipUntil, now) ==
  LET after[k \in 0..Len(blocks)] ==
        IF k = 0 THEN NothingLoaded ELSE Load(after[k - 1], blocks[k], skipUntil, now)
  IN  after[Len(blocks)]

(* Nothing is stored: start with genesis, and store it. *)
StartEmpty ==
  /\ mode = "down"
  /\ Stored(file) = << >>
  /\ file' = << >> /\ offsets' = << >> /\ fileSize' = 0
  /\ bodyCache' = {<<0, Genesis>>}
  /\ mode' = "appending" /\ pending' = <<Genesis>>
  /\ UNCHANGED <<vars, snapshot, damaged>>

\* Fault: the torn line at the end of the file stays.
RestartLeavingTail(now) ==
  LET blocks == Stored(file)
      stale == StaleSnapshot(blocks)
      loaded == ReplayStored(blocks,
                  IF ReplaysAll(blocks) THEN -1 ELSE snapshot.height, now)
  IN  /\ mode = "down"
      /\ blocks # << >>
      /\ blockchain' = loaded.chain
      /\ uTxOuts' = loaded.uTxOuts
      /\ undoLog' = TrimUndoLog(loaded.undo)
      /\ file' = IF loaded.stopped THEN SubSeq(file, 1, Cells(loaded.chain)) ELSE file
      /\ fileSize' = IF loaded.stopped THEN Cells(loaded.chain) ELSE Len(file)
      /\ offsets' = OffsetsOf(loaded.chain)
      /\ snapshot' = IF stale \/ loaded.stopped THEN NoSnapshot ELSE snapshot
      /\ mode' = "snapshotting"
      /\ damaged' = (damaged /\ ~ ReplaysAll(blocks))
      /\ UNCHANGED <<locals, bodyCache, pending>>

(* The stored chain is read, cut behind what is good, and snapshotted.     *)
Restart(now) ==
  LET blocks == Stored(file)
      stale == StaleSnapshot(blocks)
      loaded == ReplayStored(blocks,
                  IF ReplaysAll(blocks) THEN -1 ELSE snapshot.height, now)
  IN  /\ mode = "down"
      /\ blocks # << >>
      /\ blockchain' = loaded.chain
      /\ uTxOuts' = loaded.uTxOuts
      /\ undoLog' = TrimUndoLog(loaded.undo)
      /\ file' = SubSeq(file, 1, Cells(loaded.chain))
      /\ fileSize' = Cells(loaded.chain)
      /\ offsets' = OffsetsOf(loaded.chain)
      /\ snapshot' = IF stale \/ loaded.stopped THEN NoSnapshot ELSE snapshot
      /\ mode' = "snapshotting"
      /\ damaged' = (damaged /\ ~ ReplaysAll(blocks))
      /\ UNCHANGED <<locals, bodyCache, pending>>

StoreNext ==
  \/ \E b \in Block, now \in Clock : StoreAddBlock(b, now)
  \/ AppendNewBlock
  \/ AppendFails
  \/ PersistChainstate
  \/ SnapshotFails
  \/ \E height \in 0..(Len(blockchain) - 1) : ReadBody(height)
  \/ StoreReplaceStep
  \/ BeginWrite
  \/ AppendBranchBlock
  \/ FinishWrite
  \/ BranchWriteFails
  \/ Crash
  \/ Shutdown
  \/ StartEmpty
  \/ \E now \in Clock : Restart(now)

StoreSpec == StoreInit /\ [][StoreNext]_storeVars

-----------------------------------------------------------------------------
(* Types of the store's state; a cached body is of a height there is.      *)
StoreTypeOK ==
  /\ file \in Seq(Block \X Nat)
  /\ snapshot = NoSnapshot \/ snapshot \in [height : Nat, tipHash : {b.hash : b \in Block}]
  /\ offsets \in Seq(Nat) /\ fileSize \in Nat
  /\ bodyCache \subseteq (Nat \X Block) /\ Cardinality(bodyCache) <= BODY_CACHE_SIZE
  /\ mode \in {"running", "appending", "snapshotting", "replacing", "down"}
  /\ pending \in Seq(Block) /\ damaged \in BOOLEAN

(***************************************************************************)
(* What a crash may never do.  The exception is a write of addBlockToChain *)
(* that throws while the process goes on: the properties hold again after  *)
(* a restart that replays the whole file.                                  *)
(***************************************************************************)

(* The chain a start reads back is valid block by block, although blocks   *)
(* up to the snapshot's height are not validated: whatever was being cut   *)
(* or appended when the process died (initChain, replaceChain).            *)
ReloadedChainValid == ~ damaged => ChainRevalidates

(* ... and its uTxOuts and undo data are exact.                            *)
ReloadedStateExact == ~ damaged => UTxOutsAreUnspent /\ UndoRestores

(* Whenever no write is under way, the file holds the blocks of the chain  *)
(* and nothing else, and each can be read back through its offset: after   *)
(* torn lines, cuts at forks and restarts (scanBlocks, truncateBlocksTo).  *)
DiskHoldsChain ==
  ~ damaged /\ mode \in {"running", "snapshotting"} =>
    /\ Stored(file) = blockchain
    /\ fileSize = Len(file)
    /\ Len(offsets) = Len(blockchain)
    /\ \A n \in 1..Len(blockchain) : ReadBlockAt(n - 1) = {blockchain[n]}

(* A cached body is that of the block the chain has at its height, through *)
(* reorganisations and evictions, and no more are kept than there is room  *)
(* for; with the types of the store's state (bodyCache, replaceChain).     *)
BodiesOfChain ==
  /\ StoreTypeOK
  /\ ~ damaged /\ mode # "replacing" => \A e \in bodyCache : e[1] < Len(blockchain) /\ e[2] = blockchain[e[1] + 1]
=============================================================================
